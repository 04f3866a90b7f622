---------------------------- MODULE RunLifecycle ----------------------------
(***************************************************************************)
(* The life of runs, tasks and task attempts on the master, and of the     *)
(* workers that execute them: internal/db/{attempts,store_runs,            *)
(* run_admission}.go, internal/grpc/worker_rpcs.go, the planner's use of   *)
(* the store, the master's startup recovery and the worker's poll loop.    *)
(*                                                                         *)
(* SQLite has one writer connection, so a store method is one atomic step; *)
(* two store calls of one handler are two steps, and a master that stops   *)
(* in between forgets the second.  A fencing token is random and known     *)
(* only to the master and the worker that was handed the attempt, so       *)
(* presenting the token of attempt a is holding a.                         *)
(*                                                                         *)
(* Time is the time that remains: lease[a] is lease_deadline - now and     *)
(* backoff[t] is next_eligible_at - now, both floored at 0.                *)
(***************************************************************************)
EXTENDS Integers, FiniteSets

CONSTANTS
    Runs,            \* a finite set of naturals: the rank (started_at, id) of a run
    NTasks,          \* NTasks[r]: how many tasks the planner makes of run r
    Dataset,         \* Dataset[r]: the dataset_key of run r
    RunPool,         \* RunPool[r]: the worker_pool option of run r's job
    MaxInFlight,     \* MaxInFlight[r]: its max_in_flight_tasks option, 0 for none
    Workers,
    WorkerPool,      \* WorkerPool[w]: the pool worker w was enrolled in, "" for any
    MaxAttempts, MaxActiveTasks, MaxActiveRuns,
    LeaseDuration, BackoffBase, BackoffMax,
    MaxFaults        \* bound: how often the master stops or a handler is cut short

Tasks == UNION {{r} \X (1..NTasks[r]) : r \in Runs}
RunOf(t) == t[1]
TasksOf(r) == {t \in Tasks : RunOf(t) = r}

\* task_attempts rows: the n-th attempt of task t is <<t, n>>.
Attempts == Tasks \X (1..MaxAttempts)
TaskOf(a) == a[1]
Number(a) == a[2]

ActiveRunStatus == {"PLANNING", "RUNNING", "COMMITTING"}
TerminalRunStatus == {"SUCCEEDED", "FAILED", "CANCELED"}
RunStatus == {"NONE"} \cup ActiveRunStatus \cup TerminalRunStatus
TaskStatus == {"NONE", "PENDING", "RUNNING", "SUCCEEDED", "FAILED", "CANCELED", "QUARANTINED"}
AttemptStatus == {"NONE", "ACTIVE", "SUCCEEDED", "FAILED", "EXPIRED", "CANCELED"}
ReportStatus == {"SUCCEEDED", "FAILED", "CANCELED"}

VARIABLES
    runStatus,   \* runs.status, "NONE" before the row exists
    taskStatus,  \* tasks.status
    current,     \* tasks.current_attempt_id as an attempt number, 0 for NULL
    attempts,    \* tasks.attempt_count
    backoff,     \* tasks.next_eligible_at, as time that remains
    aStatus,     \* task_attempts.status
    lease,       \* task_attempts.lease_deadline of an ACTIVE attempt, as time that remains
    planning,    \* runs whose planner call is in progress in the master's memory
    finalizing,  \* runs whose ReportTaskResult handler is between its two transactions
    master,      \* where the master process is, from down to ready
    phase,       \* what each worker does
    held,        \* the attempt a worker was handed, as a set of at most one
    reports,     \* ReportTaskResult requests a worker sent: any may arrive late or twice
    faults

dbVars == <<runStatus, taskStatus, current, attempts, backoff, aStatus, lease>>
workerVars == <<phase, held, reports>>
memVars == <<planning, finalizing, master, faults>>
vars == <<dbVars, workerVars, memVars>>

WorkerPhase == {"idle", "polled", "assigned", "running", "reporting"}

\* Mutant: one more than the limit.
NotAbove(n, limit) == limit <= 0 \/ n <= limit

\* A number below a limit, where a limit of 0 or less means unlimited.
Below(n, limit) == limit <= 0 \/ n < limit

\* retryBackoff: BackoffBase doubled n - 1 times, capped once it doubled.
RetryBackoff(n) ==
    LET d == BackoffBase * 2^(n - 1)
    IN  IF n > 1 /\ d >= BackoffMax THEN BackoffMax ELSE d

ASSUME ConstantsAssumption ==
    /\ Runs \subseteq Nat
    /\ IsFiniteSet(Runs)
    /\ NTasks \in [Runs -> Nat \ {0}]
    /\ MaxInFlight \in [Runs -> Nat]
    /\ MaxAttempts \in Nat \ {0}
    /\ MaxActiveTasks \in Nat
    /\ MaxActiveRuns \in Nat
    /\ LeaseDuration \in Nat \ {0}
    /\ MaxFaults \in Nat

ASSUME BackoffAssumption == \A n \in 1..MaxAttempts : RetryBackoff(n) \in Nat

Init ==
    /\ runStatus = [r \in Runs |-> "NONE"]
    /\ taskStatus = [t \in Tasks |-> "NONE"]
    /\ current = [t \in Tasks |-> 0]
    /\ attempts = [t \in Tasks |-> 0]
    /\ backoff = [t \in Tasks |-> 0]
    /\ aStatus = [a \in Attempts |-> "NONE"]
    /\ lease = [a \in Attempts |-> 0]
    /\ planning = {}
    /\ finalizing = {}
    /\ master = "ready"
    /\ phase = [w \in Workers |-> "idle"]
    /\ held = [w \in Workers |-> {}]
    /\ reports = {}
    /\ faults = 0

-----------------------------------------------------------------------------
(* Submitting, planning and admitting runs *)

\* Mutant: a run that commits no longer counts.
OnlyRunningRuns == {r \in Runs : runStatus[r] = "RUNNING"}

ExecutingRuns == {r \in Runs : runStatus[r] \in {"RUNNING", "COMMITTING"}}

\* Mutant: the index leaves COMMITTING runs out.
DatasetBusyBeforeCommit(r) ==
    \E s \in Runs : Dataset[s] = Dataset[r] /\ runStatus[s] \in {"PLANNING", "RUNNING"}

\* The unique index idx_runs_dataset_active turns a second active run of a
\* dataset into ErrActiveDatasetRun.
DatasetBusy(r) ==
    \E s \in Runs : Dataset[s] = Dataset[r] /\ runStatus[s] \in ActiveRunStatus

\* started_at is taken right before the insert, so runs come in rank order.
CreateRun(r) ==
    /\ master = "ready"
    /\ \A s \in Runs : s >= r => runStatus[s] = "NONE"
    /\ ~DatasetBusy(r)
    /\ runStatus' = [runStatus EXCEPT ![r] = "PLANNING"]
    /\ planning' = planning \cup {r}
    /\ UNCHANGED <<taskStatus, current, attempts, backoff, aStatus, lease,
                   finalizing, master, faults, workerVars>>

\* StartRunWithTasks: insert the planned tasks and admit the run if it is still
\* PLANNING and fewer than MaxActiveRuns runs execute.  The tasks are inserted
\* whatever has become of the run.
StartRunWithTasks(r) ==
    /\ r \in planning
    /\ taskStatus' = [t \in Tasks |-> IF RunOf(t) = r THEN "PENDING" ELSE taskStatus[t]]
    /\ runStatus' = IF runStatus[r] = "PLANNING" /\ Below(Cardinality(ExecutingRuns), MaxActiveRuns)
                    THEN [runStatus EXCEPT ![r] = "RUNNING"]
                    ELSE runStatus
    /\ planning' = planning \ {r}
    /\ UNCHANGED <<current, attempts, backoff, aStatus, lease,
                   finalizing, master, faults, workerVars>>

\* The planner's deferred error path: UpdateRunStatus has no status condition.
PlanFails(r) ==
    /\ r \in planning
    /\ runStatus' = [runStatus EXCEPT ![r] = "FAILED"]
    /\ planning' = planning \ {r}
    /\ UNCHANGED <<taskStatus, current, attempts, backoff, aStatus, lease,
                   finalizing, master, faults, workerVars>>

\* Runs waiting for admission: planned, so at least one task is PENDING.
QueuedRuns ==
    {r \in Runs : /\ runStatus[r] = "PLANNING"
                  /\ \E t \in TasksOf(r) : taskStatus[t] = "PENDING"}

\* Mutant: off by one in the free capacity.
AdmittedOneShort ==
    IF MaxActiveRuns = 0 THEN {}
    ELSE {r \in QueuedRuns :
            Cardinality({s \in QueuedRuns : s < r}) + Cardinality(ExecutingRuns) < MaxActiveRuns - 1}

\* AdmitPendingRuns fills the free capacity in creation order.
Admitted ==
    IF MaxActiveRuns = 0 THEN {}
    ELSE {r \in QueuedRuns :
            Cardinality({s \in QueuedRuns : s < r}) + Cardinality(ExecutingRuns) < MaxActiveRuns}

\* Mutant: tasks that run are left alone.
PendingTasksOf(r) == {t \in TasksOf(r) : taskStatus[t] = "PENDING"}

\* Mutant: the update of the tasks has no status condition.
EveryTaskOf(r) == {t \in TasksOf(r) : taskStatus[t] # "NONE"}

CancelableTasks(r) == {t \in TasksOf(r) : taskStatus[t] \in {"PENDING", "RUNNING"}}

CancelRun(r) ==
    /\ master = "ready"
    /\ runStatus[r] \in {"PLANNING", "RUNNING"}
    /\ runStatus' = [runStatus EXCEPT ![r] = "CANCELED"]
    /\ taskStatus' = [t \in Tasks |->
                        IF t \in CancelableTasks(r) THEN "CANCELED" ELSE taskStatus[t]]
    /\ current' = [t \in Tasks |-> IF t \in CancelableTasks(r) THEN 0 ELSE current[t]]
    /\ aStatus' = [a \in Attempts |->
                     IF RunOf(TaskOf(a)) = r /\ aStatus[a] = "ACTIVE"
                     THEN "CANCELED" ELSE aStatus[a]]
    /\ lease' = [a \in Attempts |-> IF RunOf(TaskOf(a)) = r THEN 0 ELSE lease[a]]
    /\ UNCHANGED <<attempts, backoff, planning, finalizing, master, faults, workerVars>>

-----------------------------------------------------------------------------
(* Handing out tasks: the RequestTask handler *)

\* First transaction of RequestTask.
RequestTask(w) ==
    /\ master = "ready"
    /\ phase[w] = "idle"
    /\ runStatus' = [r \in Runs |-> IF r \in Admitted THEN "RUNNING" ELSE runStatus[r]]
    /\ phase' = [phase EXCEPT ![w] = "polled"]
    /\ UNCHANGED <<taskStatus, current, attempts, backoff, aStatus, lease,
                   held, reports, memVars>>

RunningTasks == {t \in Tasks : taskStatus[t] = "RUNNING"}
InFlight(r) == Cardinality({t \in RunningTasks : RunOf(t) = r})

\* Workers of a pool receive only tasks of jobs of their pool.
Serves(w, r) == WorkerPool[w] \in {"", RunPool[r]}

Eligible(w) ==
    {t \in Tasks :
        /\ taskStatus[t] = "PENDING"
        /\ runStatus[RunOf(t)] = "RUNNING"
        /\ backoff[t] = 0
        /\ attempts[t] < MaxAttempts
        /\ Below(InFlight(RunOf(t)), MaxInFlight[RunOf(t)])
        /\ Below(Cardinality(RunningTasks), MaxActiveTasks)
        /\ Serves(w, RunOf(t))}

\* ORDER BY the run's running tasks, its creation, the task index.
Before(t, u) ==
    \/ InFlight(RunOf(t)) < InFlight(RunOf(u))
    \/ /\ InFlight(RunOf(t)) = InFlight(RunOf(u))
       /\ \/ RunOf(t) < RunOf(u)
          \/ RunOf(t) = RunOf(u) /\ t[2] <= u[2]

\* Second transaction of RequestTask.
AssignNextPendingTask(w, t) ==
    /\ phase[w] = "polled"
    /\ t \in Eligible(w)
    /\ \A u \in Eligible(w) : Before(t, u)
    /\ current[t] = 0
    /\ taskStatus' = [taskStatus EXCEPT ![t] = "RUNNING"]
    /\ current' = [current EXCEPT ![t] = attempts[t] + 1]
    /\ attempts' = [attempts EXCEPT ![t] = attempts[t] + 1]
    /\ backoff' = [backoff EXCEPT ![t] = 0]
    /\ aStatus' = [aStatus EXCEPT ![<<t, attempts[t] + 1>>] = "ACTIVE"]
    /\ lease' = [lease EXCEPT ![<<t, attempts[t] + 1>>] = LeaseDuration]
    /\ phase' = [phase EXCEPT ![w] = "assigned"]
    /\ held' = [held EXCEPT ![w] = {<<t, attempts[t] + 1>>}]
    /\ UNCHANGED <<runStatus, reports, memVars>>

NothingToAssign(w) ==
    /\ phase[w] = "polled"
    /\ Eligible(w) = {}
    /\ phase' = [phase EXCEPT ![w] = "idle"]
    /\ UNCHANGED <<dbVars, held, reports, memVars>>

\* The assignment reaches the worker.
DeliverAssignment(w) ==
    /\ phase[w] = "assigned"
    /\ phase' = [phase EXCEPT ![w] = "running"]
    /\ UNCHANGED <<dbVars, held, reports, memVars>>

\* Attempts that are the current one of a RUNNING task.
IsCurrent(a) ==
    /\ aStatus[a] = "ACTIVE"
    /\ taskStatus[TaskOf(a)] = "RUNNING"
    /\ current[TaskOf(a)] = Number(a)

\* Mutant: off by one.
IsLastButOneTry(n) == n + 1 >= MaxAttempts

\* The attempt limit of the lease policy.
IsLastTry(n) == n >= MaxAttempts

\* What becomes of the tasks of the current attempts S once these are lost:
\* another try after a backoff, or, at the attempt limit, quarantine and the
\* failure of the run.
RetryOrQuarantine(S, status) ==
    LET Lost(t) == <<t, current[t]>> \in S
        OutOfTries(t) == IsLastTry(current[t])
    IN  /\ aStatus' = [a \in Attempts |-> IF a \in S THEN status ELSE aStatus[a]]
        /\ lease' = [a \in Attempts |-> IF a \in S THEN 0 ELSE lease[a]]
        /\ taskStatus' = [t \in Tasks |->
                            IF ~Lost(t) THEN taskStatus[t]
                            ELSE IF OutOfTries(t) THEN "QUARANTINED" ELSE "PENDING"]
        /\ current' = [t \in Tasks |-> IF Lost(t) THEN 0 ELSE current[t]]
        /\ backoff' = [t \in Tasks |->
                         IF ~Lost(t) THEN backoff[t]
                         ELSE IF OutOfTries(t) THEN 0 ELSE RetryBackoff(current[t])]
        /\ runStatus' = [r \in Runs |->
                           IF /\ runStatus[r] = "RUNNING"
                              /\ \E t \in TasksOf(r) : Lost(t) /\ OutOfTries(t)
                           THEN "FAILED" ELSE runStatus[r]]
        /\ UNCHANGED attempts

\* buildAssignment fails: the handler abandons the attempt it just assigned,
\* unless something else already ended it.
AbandonTaskAttempt(w) ==
    /\ phase[w] = "assigned"
    /\ phase' = [phase EXCEPT ![w] = "idle"]
    /\ held' = [held EXCEPT ![w] = {}]
    /\ RetryOrQuarantine({a \in held[w] : IsCurrent(a)}, "FAILED")
    /\ UNCHANGED <<reports, memVars>>

-----------------------------------------------------------------------------
(* The worker *)

\* The lease is kept alive while the task body runs, its success report included.
KeepsLease(w, a) ==
    \/ phase[w] = "running"
    \/ /\ phase[w] = "reporting"
       /\ {m.status : m \in {n \in reports : n.att = a}} = {"SUCCEEDED"}

RenewTaskLease(w) ==
    /\ master = "ready"
    /\ \E a \in held[w] :
        /\ KeepsLease(w, a)
        /\ IsCurrent(a)
        /\ lease[a] > 0
        /\ lease' = [lease EXCEPT ![a] = LeaseDuration]
    /\ UNCHANGED <<runStatus, taskStatus, current, attempts, backoff, aStatus,
                   workerVars, memVars>>

\* The worker drops the task without a report: the response to RequestTask was
\* lost, the process died, its lease ran out on its own clock, or a renewal was
\* refused.
LoseTask(w) ==
    /\ phase[w] \in {"assigned", "running"}
    /\ phase' = [phase EXCEPT ![w] = "idle"]
    /\ held' = [held EXCEPT ![w] = {}]
    /\ UNCHANGED <<dbVars, reports, memVars>>

\* A worker reports CANCELED only when a progress call told it so.
MayReport(a, status) ==
    status = "CANCELED" =>
        \/ runStatus[RunOf(TaskOf(a))] = "CANCELED"
        \/ taskStatus[TaskOf(a)] = "CANCELED"

FinishTask(w, status) ==
    /\ phase[w] = "running"
    /\ \A a \in held[w] : MayReport(a, status)
    /\ reports' = reports \cup {[att |-> a, status |-> status] : a \in held[w]}
    /\ phase' = [phase EXCEPT ![w] = "reporting"]
    /\ UNCHANGED <<dbVars, held, memVars>>

\* A success report that ends in an error the worker does not retry makes the
\* task body fail, and so does a workspace that cannot be removed after it; the
\* poll loop then reports FAILED for the same attempt.
ReportFailureAfterSuccess(w) ==
    /\ phase[w] = "reporting"
    /\ \E a \in held[w] :
        /\ [att |-> a, status |-> "SUCCEEDED"] \in reports
        /\ reports' = reports \cup {[att |-> a, status |-> "FAILED"]}
    /\ UNCHANGED <<dbVars, phase, held, memVars>>

\* The report was answered, or its retry window of 15 seconds is over.
StopReporting(w) ==
    /\ phase[w] = "reporting"
    /\ phase' = [phase EXCEPT ![w] = "idle"]
    /\ held' = [held EXCEPT ![w] = {}]
    /\ UNCHANGED <<dbVars, reports, memVars>>

-----------------------------------------------------------------------------
(* The ReportTaskResult handler *)

\* Mutant: the run is not looked at.
AcceptableInAnyRun(a) ==
    /\ IsCurrent(a)
    /\ lease[a] > 0

\* completeTaskAttemptAt accepts the result of a live, current attempt of a
\* RUNNING run.
Acceptable(a) ==
    /\ IsCurrent(a)
    /\ lease[a] > 0
    /\ runStatus[RunOf(TaskOf(a))] = "RUNNING"

CompleteTaskAttempt(m) ==
    /\ master = "ready"
    /\ m \in reports
    /\ Acceptable(m.att)
    /\ aStatus' = [aStatus EXCEPT ![m.att] = m.status]
    /\ lease' = [lease EXCEPT ![m.att] = 0]
    /\ taskStatus' = [taskStatus EXCEPT ![TaskOf(m.att)] = m.status]
    /\ current' = [current EXCEPT ![TaskOf(m.att)] = 0]
    /\ finalizing' = finalizing \cup {RunOf(TaskOf(m.att))}
    /\ UNCHANGED <<runStatus, attempts, backoff, planning, master, faults, workerVars>>

\* "already accepted": the same result again, recognised by its digest.  The
\* handler goes on to finalise the run.  Any other late report is refused and
\* changes nothing.
AcceptRepeatedReport(m) ==
    /\ master = "ready"
    /\ m \in reports
    /\ aStatus[m.att] = m.status
    /\ m.status \in {"SUCCEEDED", "FAILED"}
    /\ finalizing' = finalizing \cup {RunOf(TaskOf(m.att))}
    /\ UNCHANGED <<dbVars, planning, master, faults, workerVars>>

SomeTaskFailed(r) == \E t \in TasksOf(r) : taskStatus[t] \in {"FAILED", "QUARANTINED"}

\* Mutant: tasks that wait for another attempt are overlooked.
NoTaskRuns(r) == \A t \in TasksOf(r) : taskStatus[t] # "RUNNING"

AllTasksSucceeded(r) == \A t \in TasksOf(r) : taskStatus[t] = "SUCCEEDED"

FinalStatus(r) ==
    IF runStatus[r] \notin {"PLANNING", "RUNNING"} THEN runStatus[r]
    ELSE IF SomeTaskFailed(r) THEN "FAILED"
    ELSE IF AllTasksSucceeded(r) /\ runStatus[r] = "RUNNING" THEN "COMMITTING"
    ELSE runStatus[r]

\* Second transaction of ReportTaskResult.
TryFinalizeRun(r) ==
    /\ r \in finalizing
    /\ finalizing' = finalizing \ {r}
    /\ runStatus' = [runStatus EXCEPT ![r] = FinalStatus(r)]
    /\ taskStatus' = [t \in Tasks |->
                        IF /\ RunOf(t) = r
                           /\ runStatus[r] # "FAILED" /\ FinalStatus(r) = "FAILED"
                           /\ taskStatus[t] = "PENDING"
                        THEN "CANCELED" ELSE taskStatus[t]]
    /\ UNCHANGED <<current, attempts, backoff, aStatus, lease,
                   planning, master, faults, workerVars>>

\* What publication (module RunCommit) makes of a COMMITTING run.
CompleteRunCommit(r) ==
    /\ master # "down"
    /\ runStatus[r] = "COMMITTING"
    /\ runStatus' = [runStatus EXCEPT ![r] = "SUCCEEDED"]
    /\ UNCHANGED <<taskStatus, current, attempts, backoff, aStatus, lease, workerVars, memVars>>

FailRunCommit(r) ==
    /\ master # "down"
    /\ runStatus[r] = "COMMITTING"
    /\ runStatus' = [runStatus EXCEPT ![r] = "FAILED"]
    /\ UNCHANGED <<taskStatus, current, attempts, backoff, aStatus, lease, workerVars, memVars>>

-----------------------------------------------------------------------------
(* Lease scans, time, and the master stopping *)

\* Mutant: the last attempt of a task is never expired.
ExpiredRetryableAttempts ==
    {a \in Attempts :
        /\ IsCurrent(a)
        /\ lease[a] = 0
        /\ Number(a) < MaxAttempts
        /\ runStatus[RunOf(TaskOf(a))] = "RUNNING"}

ExpiredAttempts ==
    {a \in Attempts :
        /\ IsCurrent(a)
        /\ lease[a] = 0
        /\ runStatus[RunOf(TaskOf(a))] = "RUNNING"}

\* The periodic scan.
ExpireTaskAttempts ==
    /\ master = "ready"
    /\ ExpiredAttempts # {}
    /\ RetryOrQuarantine(ExpiredAttempts, "EXPIRED")
    /\ UNCHANGED <<workerVars, memVars>>

Tick ==
    /\ \/ \E a \in Attempts : lease[a] > 0
       \/ \E t \in Tasks : backoff[t] > 0
    /\ lease' = [a \in Attempts |-> IF lease[a] > 0 THEN lease[a] - 1 ELSE 0]
    /\ backoff' = [t \in Tasks |-> IF backoff[t] > 0 THEN backoff[t] - 1 ELSE 0]
    /\ UNCHANGED <<runStatus, taskStatus, current, attempts, aStatus, workerVars, memVars>>

\* The process stops: planner calls and handlers in progress are gone, and the
\* RequestTask calls of workers fail.
MasterStops ==
    /\ master # "down"
    /\ faults < MaxFaults
    /\ faults' = faults + 1
    /\ master' = "down"
    /\ planning' = {}
    /\ finalizing' = {}
    /\ phase' = [w \in Workers |-> IF phase[w] \in {"polled", "assigned"} THEN "idle" ELSE phase[w]]
    /\ held' = [w \in Workers |-> IF phase[w] \in {"polled", "assigned"} THEN {} ELSE held[w]]
    /\ UNCHANGED <<dbVars, reports>>

\* One handler stops between its transactions: TryFinalizeRun returned an error
\* or the call's context ended.
FinalizeInterrupted(r) ==
    /\ r \in finalizing
    /\ faults < MaxFaults
    /\ faults' = faults + 1
    /\ finalizing' = finalizing \ {r}
    /\ UNCHANGED <<dbVars, planning, master, workerVars>>

\* The process is started again, takes the leadership and installs the fence;
\* from here on it also reconciles COMMITTING runs.
MasterStarts ==
    /\ master = "down"
    /\ master' = "starting"
    /\ UNCHANGED <<dbVars, planning, finalizing, faults, workerVars>>

\* Startup recovery, before any call is served: ExpireLeases ...
StartupExpireLeases ==
    /\ master = "starting"
    /\ master' = "recovering"
    /\ RetryOrQuarantine(ExpiredAttempts, "EXPIRED")
    /\ UNCHANGED <<planning, finalizing, faults, workerVars>>

\* ... then FailAbandonedPlanningRuns, for runs that never got their tasks.
FailAbandonedPlanningRuns ==
    /\ master = "recovering"
    /\ master' = "ready"
    /\ runStatus' = [r \in Runs |->
                       IF runStatus[r] = "PLANNING" /\ \A t \in TasksOf(r) : taskStatus[t] = "NONE"
                       THEN "FAILED" ELSE runStatus[r]]
    /\ UNCHANGED <<taskStatus, current, attempts, backoff, aStatus, lease,
                   planning, finalizing, faults, workerVars>>

-----------------------------------------------------------------------------
Next ==
    \/ \E r \in Runs :
        \/ CreateRun(r)
        \/ StartRunWithTasks(r)
        \/ PlanFails(r)
        \/ CancelRun(r)
        \/ TryFinalizeRun(r)
        \/ FinalizeInterrupted(r)
        \/ CompleteRunCommit(r)
        \/ FailRunCommit(r)
    \/ \E w \in Workers :
        \/ RequestTask(w)
        \/ \E t \in Tasks : AssignNextPendingTask(w, t)
        \/ NothingToAssign(w)
        \/ DeliverAssignment(w)
        \/ AbandonTaskAttempt(w)
        \/ RenewTaskLease(w)
        \/ LoseTask(w)
        \/ \E status \in ReportStatus : FinishTask(w, status)
        \/ ReportFailureAfterSuccess(w)
        \/ StopReporting(w)
    \/ \E m \in reports :
        \/ CompleteTaskAttempt(m)
        \/ AcceptRepeatedReport(m)
    \/ ExpireTaskAttempts
    \/ Tick
    \/ MasterStops
    \/ MasterStarts
    \/ StartupExpireLeases
    \/ FailAbandonedPlanningRuns

Spec == Init /\ [][Next]_vars

(* Fairness.  A planner call returns; a handler that started runs to its end;
   the master's loops tick; a started master completes its recovery; a worker
   keeps polling, and the task body it runs ends in a report or is lost.  Nothing
   makes anyone cancel a run, renew a lease forever, repeat a report or stop a
   master. *)
WorkerAnswers(w) == DeliverAssignment(w) \/ AbandonTaskAttempt(w) \/ LoseTask(w)

WorkerFinishes(w) == LoseTask(w) \/ \E status \in ReportStatus : FinishTask(w, status)

Fairness ==
    /\ \A r \in Runs :
        /\ WF_vars(StartRunWithTasks(r) \/ PlanFails(r))
        /\ WF_vars(TryFinalizeRun(r))
        /\ WF_vars(CompleteRunCommit(r) \/ FailRunCommit(r))
    /\ \A w \in Workers :
        /\ WF_vars(RequestTask(w))
        /\ WF_vars(NothingToAssign(w) \/ \E t \in Tasks : AssignNextPendingTask(w, t))
        /\ WF_vars(WorkerAnswers(w))
        /\ WF_vars(WorkerFinishes(w))
        /\ WF_vars(StopReporting(w))
    /\ WF_vars(ExpireTaskAttempts)
    /\ WF_vars(Tick)
    /\ WF_vars(MasterStarts)
    /\ WF_vars(StartupExpireLeases)
    /\ WF_vars(FailAbandonedPlanningRuns)

FairSpec == Spec /\ Fairness
-----------------------------------------------------------------------------
(* Invariants *)

\* Every column holds a value of its type.
TypeOK ==
    /\ runStatus \in [Runs -> RunStatus]
    /\ taskStatus \in [Tasks -> TaskStatus]
    /\ current \in [Tasks -> 0..MaxAttempts]
    /\ attempts \in [Tasks -> 0..MaxAttempts]
    /\ backoff \in [Tasks -> Nat]
    /\ aStatus \in [Attempts -> AttemptStatus]
    /\ lease \in [Attempts -> Nat]
    /\ planning \subseteq Runs
    /\ finalizing \subseteq Runs
    /\ master \in {"down", "starting", "recovering", "ready"}
    /\ phase \in [Workers -> WorkerPhase]
    /\ held \in [Workers -> SUBSET Attempts]
    /\ reports \subseteq [att : Attempts, status : ReportStatus]
    /\ faults \in 0..MaxFaults

\* The fence: at any moment a task has at most one attempt whose renewals and
\* results the master would accept.  An attempt is ACTIVE exactly while its task
\* is RUNNING under it, through reassignment, cancellation and expiry.
SingleOwner ==
    \A t \in Tasks :
        /\ taskStatus[t] = "RUNNING" <=> current[t] # 0
        /\ \A n \in 1..MaxAttempts : aStatus[<<t, n>>] = "ACTIVE" <=> current[t] = n

\* A task has at most one accepted result, and it is the result of its last
\* attempt: a late report of an earlier attempt never decides the task.
ResultOfLastAttempt ==
    \A t \in Tasks :
        /\ taskStatus[t] = "SUCCEEDED" => aStatus[<<t, attempts[t]>>] = "SUCCEEDED"
        /\ \A n \in 1..MaxAttempts :
             aStatus[<<t, n>>] = "SUCCEEDED" => n = attempts[t] /\ taskStatus[t] = "SUCCEEDED"

\* What commitRun relies on: a run is COMMITTING or SUCCEEDED only when every one
\* of its tasks has an accepted result, whatever was canceled, expired or reported
\* twice on the way.
CommitOnlyComplete ==
    \A r \in Runs :
        runStatus[r] \in {"COMMITTING", "SUCCEEDED"} =>
            \A t \in TasksOf(r) : taskStatus[t] = "SUCCEEDED"

\* One dataset has at most one active run: no later transition makes a second
\* run of a dataset active behind the index that CreateRun meets.
OneActiveRunPerDataset ==
    \A r, s \in Runs :
        /\ Dataset[r] = Dataset[s]
        /\ runStatus[r] \in ActiveRunStatus
        /\ runStatus[s] \in ActiveRunStatus
        => r = s

\* ORABBIT_MAX_ACTIVE_RUNS bounds the executing runs, although a run is admitted
\* in two places: by its own planner and by any worker's poll.
ActiveRunsBounded ==
    MaxActiveRuns > 0 =>
        Cardinality({r \in Runs : runStatus[r] \in {"RUNNING", "COMMITTING"}}) <= MaxActiveRuns

\* ORABBIT_MAX_ACTIVE_TASKS bounds the leased attempts of all runs, and
\* max_in_flight_tasks those of one, also after retries and recovery.
ActiveTasksBounded ==
    LET Active == {a \in Attempts : aStatus[a] = "ACTIVE"}
    IN  /\ MaxActiveTasks > 0 => Cardinality(Active) <= MaxActiveTasks
        /\ \A r \in Runs : MaxInFlight[r] > 0 =>
             Cardinality({a \in Active : RunOf(TaskOf(a)) = r}) <= MaxInFlight[r]

\* All limits of the admission hold together.
WithinLimits == ActiveRunsBounded /\ ActiveTasksBounded

\* TryFinalizeRun counts SUCCEEDED, FAILED and QUARANTINED tasks only, so a run
\* that is still to be decided must not own a CANCELED task: it could never be
\* finalised.
CanceledTaskEndsRun ==
    \A t \in Tasks : taskStatus[t] = "CANCELED" => runStatus[RunOf(t)] \in {"CANCELED", "FAILED"}

\* Cancellation reaches everything that was handed out: a CANCELED run has no
\* attempt left that could still be renewed or accepted.
CanceledRunIsQuiet ==
    \A a \in Attempts : aStatus[a] = "ACTIVE" => runStatus[RunOf(TaskOf(a))] \in {"RUNNING", "FAILED"}

\* A task is quarantined only after all its attempts were handed out and lost.
QuarantineMeansExhausted ==
    \A t \in Tasks :
        taskStatus[t] = "QUARANTINED" =>
            \A n \in 1..MaxAttempts : aStatus[<<t, n>>] \in {"EXPIRED", "FAILED"}

\* The rows of a run, its tasks and their attempts agree with one another.
RowsAgree ==
    /\ TypeOK
    /\ ResultOfLastAttempt
    /\ CanceledTaskEndsRun
    /\ CanceledRunIsQuiet
    /\ QuarantineMeansExhausted

(* Action properties *)

OutcomeKept ==
    /\ \A a \in Attempts : aStatus[a] \notin {"NONE", "ACTIVE"} => aStatus'[a] = aStatus[a]
    /\ \A t \in Tasks :
         taskStatus[t] \in {"SUCCEEDED", "FAILED", "QUARANTINED", "CANCELED"} =>
             taskStatus'[t] = taskStatus[t]

\* An attempt that ended keeps its outcome, and an accepted task result is never
\* replaced: not by a repeated or conflicting report, an expiry scan, a
\* cancellation or a restart.
OutcomeIsFinal == [][OutcomeKept]_<<aStatus, taskStatus>>

RunKept ==
    \A r \in Runs :
        /\ runStatus[r] \in TerminalRunStatus => runStatus'[r] \in TerminalRunStatus
        /\ runStatus[r] = "SUCCEEDED" => runStatus'[r] = "SUCCEEDED"

\* A finished run never becomes active again, and a published one stays published.
RunNeverRevives == [][RunKept]_runStatus

(* Liveness *)

\* No run waits for capacity or executes for ever: a queued run is admitted or
\* ended, and a RUNNING one is decided.
RunDecided ==
    \A r \in Runs : []<>(r \notin QueuedRuns) /\ []<>(runStatus[r] # "RUNNING")

\* A lease on a task of a running run is eventually given up, answered or
\* reclaimed, also when the master stops and recovers in between.
LostAttemptReclaimed ==
    \A a \in Attempts : []<>(aStatus[a] = "ACTIVE" => runStatus[RunOf(TaskOf(a))] # "RUNNING")

(* What the documentation says and the code does not do *)

\* README: "`ORABBIT_MAX_ACTIVE_RUNS` admits runs in creation order".  A run
\* becomes RUNNING only when no older planned run is left waiting.
AdmittedInOrder ==
    [][\A r, s \in Runs :
         /\ r < s
         /\ r \in QueuedRuns
         /\ runStatus[s] = "PLANNING" /\ runStatus'[s] = "RUNNING"
         => runStatus'[r] # "PLANNING"]_runStatus

(* Refinement *)

StageOf(r) ==
    CASE runStatus[r] = "NONE" -> "new"
      [] runStatus[r] \in {"PLANNING", "RUNNING"} -> "open"
      [] runStatus[r] = "COMMITTING" -> "publishing"
      [] runStatus[r] = "SUCCEEDED" -> "published"
      [] runStatus[r] \in {"FAILED", "CANCELED"} -> "dead"

Contract == INSTANCE ExportContract WITH
    stage <- [r \in Runs |-> StageOf(r)],
    owner <- current,
    epoch <- attempts,
    accepted <- [t \in Tasks |->
                   IF taskStatus[t] \in {"SUCCEEDED", "FAILED"} THEN taskStatus[t] ELSE "none"]

\* The tables and handlers of the master keep the promise of ExportContract.
ImplementsContract == Contract!CSpec
=============================================================================
