------------------------------ MODULE WorkerTask ------------------------------
(***************************************************************************)
(* One worker process and the attempts the master hands it: the polling    *)
(* loop of cmd/worker/main.go, executeTaskManaged and executeTaskBody, the *)
(* goroutine that renews the task lease beside them, and the reporting of  *)
(* the result.  The master is present as the durable row of each attempt   *)
(* and as the answers of its handlers; RunLifecycle models it in full,     *)
(* TaskUpload the bytes of an upload and UploadCapacity the capacity lease.*)
(*                                                                         *)
(* A call the worker makes is one step: its effect at the master and the   *)
(* answer the worker acts upon.  A fault loses the answer, with or without *)
(* the effect.  Durations are left out; a retry window that closes is a    *)
(* step of its own.                                                        *)
(***************************************************************************)
EXTENDS Naturals, FiniteSets

CONSTANTS
    MaxTasks,    \* bound: attempts the master hands out
    MaxFiles,    \* bound: Parquet files of one attempt
    MaxFaults    \* bound: calls that fail and resources that run out

BoundsAssumption == MaxTasks \in Nat \ {0} /\ MaxFiles \in Nat /\ MaxFaults \in Nat

VARIABLES
    pc,          \* where the main goroutine is
    task,        \* the attempt it works on, 0 when none
    attempt,     \* the master's row of each attempt
    due,         \* attempts whose lease deadline has passed
    leased,      \* attempts a lease goroutine renews
    lost,        \* the lease goroutine canceled the context of the attempt
    files,       \* state of each file the attempt produced
    slot,        \* the upload capacity lease: "none", "held" or "lost"
    err,         \* the error executeTaskManaged will return
    workspace,   \* "none", "open", or "left" to the scavenger
    low,         \* a resource is too low to poll
    stop,        \* the process was told to shut down
    faults

vars == <<pc, task, attempt, due, leased, lost, files, slot, err, workspace, low, stop, faults>>

Tasks == 1..MaxTasks
Ended == {"SUCCEEDED", "FAILED", "CANCELED", "LOST"}
Body == {"credentials", "check", "extract", "recheck", "capacity", "upload",
         "bench", "lastcheck", "report"}
Errors == {"none", "owner", "transient", "canceled", "failed"}

Init ==
    /\ pc = "poll" /\ task = 0
    /\ attempt = [t \in Tasks |-> "NONE"]
    /\ due = {}
    /\ leased = {} /\ lost = FALSE /\ files = <<>> /\ slot = "none" /\ err = "none"
    /\ workspace = "none" /\ low = FALSE /\ stop = FALSE /\ faults = 0

Fault == faults < MaxFaults /\ faults' = faults + 1
NoFault == UNCHANGED faults

\* The attempt row a fenced call matches: ACTIVE, before its deadline.
Live(t) == attempt[t] = "ACTIVE" /\ t \notin due

\* The context of the attempt: canceled by the lease goroutine or by shutdown.
CtxDone == lost \/ stop

(***************************************************************************)
(* The polling loop *)

\* A disk, memory or descriptor check fails and polling pauses; it resumes
\* once the resource is back, which the scan of the workspaces may bring about.
ResourceLow ==
    /\ pc = "poll" /\ ~low /\ Fault
    /\ low' = TRUE
    /\ UNCHANGED <<pc, task, attempt, due, leased, lost, files, slot, err, workspace, stop>>

ResourceBack ==
    /\ low
    /\ low' = FALSE
    /\ UNCHANGED <<pc, task, attempt, due, leased, lost, files, slot, err, workspace, stop, faults>>

\* RequestTask: the master commits the attempt; the answer hands it over or is
\* lost, after which the worker polls again for another.
RequestTask ==
    /\ pc = "poll" /\ ~low /\ ~stop
    /\ \E t \in Tasks :
        /\ attempt[t] = "NONE"
        /\ \A u \in 1..(t - 1) : attempt[u] # "NONE"
        /\ attempt' = [attempt EXCEPT ![t] = "ACTIVE"]
        /\ \/ task' = t /\ pc' = "create" /\ err' = "none" /\ NoFault
           \/ Fault /\ UNCHANGED <<task, pc, err>>
    /\ UNCHANGED <<due, leased, lost, files, slot, workspace, low, stop>>

\* isPermanentTaskPollingError: the master refuses the worker's protocol.
PollingRefused ==
    /\ pc = "poll" /\ ~low /\ Fault
    /\ pc' = "exit"
    /\ UNCHANGED <<task, attempt, due, leased, lost, files, slot, err, workspace, low, stop>>

Shutdown ==
    /\ ~stop /\ pc # "exit" /\ Fault
    /\ stop' = TRUE
    /\ UNCHANGED <<pc, task, attempt, due, leased, lost, files, slot, err, workspace, low>>

Exit ==
    /\ pc = "poll" /\ stop
    /\ pc' = "exit"
    /\ UNCHANGED <<task, attempt, due, leased, lost, files, slot, err, workspace, low, stop, faults>>

(***************************************************************************)
(* executeTaskManaged and executeTaskBody *)

\* The workspace is created before the lease goroutine starts.
CreateWorkspace ==
    /\ pc = "create"
    /\ \/ /\ workspace' = "open" /\ leased' = {task} /\ pc' = "credentials"
          /\ NoFault /\ UNCHANGED err
       \/ /\ Fault /\ err' = "failed" /\ pc' = "verdict" /\ UNCHANGED <<workspace, leased>>
    /\ UNCHANGED <<task, attempt, due, lost, files, slot, low, stop>>

\* The body returns an error: executeTaskWithBody takes over.
Return(e) == pc' = "join" /\ err' = e

\* fetchTaskCredentials: refused to any but the live attempt, which the worker
\* reads as a lost attempt; four tries on a transient error.
FetchCredentials ==
    /\ pc = "credentials" /\ ~CtxDone
    /\ \/ Live(task) /\ NoFault /\ pc' = "check" /\ UNCHANGED err
       \/ ~Live(task) /\ NoFault /\ Return("owner")
       \/ Fault /\ Return("failed")
    /\ UNCHANGED <<task, attempt, due, leased, lost, files, slot, workspace, low, stop>>

\* checkTaskCancellation: the progress report that tells the worker its run was
\* canceled.  Refused for another reason it is an error like any other.
CheckTaskCancellation(at, next) ==
    /\ pc = at /\ ~CtxDone
    /\ \/ attempt[task] = "CANCELED" /\ NoFault /\ Return("canceled")
       \/ Live(task) /\ NoFault /\ pc' = next /\ UNCHANGED err
       \/ ~Live(task) /\ attempt[task] # "CANCELED" /\ NoFault /\ Return("failed")
       \/ Fault /\ Return("failed")
    /\ UNCHANGED <<task, attempt, due, leased, lost, files, slot, workspace, low, stop>>

\* Reading the source into local files, through the rolling writer: some number
\* of validated files, or an error that leaves none (Abort).
Extract ==
    /\ pc = "extract" /\ ~CtxDone
    /\ \/ \E n \in 0..MaxFiles :
            /\ files' = [i \in 1..n |-> "local"]
            /\ pc' = IF n = 0 THEN "bench" ELSE "recheck"
            /\ NoFault /\ UNCHANGED err
       \/ Fault /\ Return("failed") /\ UNCHANGED files
    /\ UNCHANGED <<task, attempt, due, leased, lost, slot, workspace, low, stop>>

\* acquireUploadCapacity waits without failing the task, unless it is fenced.
AcquireUploadCapacity ==
    /\ pc = "capacity" /\ ~CtxDone
    /\ \/ Live(task) /\ slot' = "held" /\ pc' = "upload" /\ UNCHANGED err
       \/ ~Live(task) /\ Return("owner") /\ UNCHANGED slot
    /\ NoFault
    /\ UNCHANGED <<task, attempt, due, leased, lost, files, workspace, low, stop>>

\* The renewal of the capacity lease fails for good: uploads are canceled.
CapacityLost ==
    /\ slot = "held" /\ Fault
    /\ slot' = "lost"
    /\ UNCHANGED <<pc, task, attempt, due, leased, lost, files, err, workspace, low, stop>>

\* One goroutine per file.
UploadFile(i) ==
    /\ pc = "upload" /\ i \in DOMAIN files /\ files[i] = "local"
    /\ \/ ~CtxDone /\ slot = "held" /\ files' = [files EXCEPT ![i] = "verified"] /\ NoFault
       \/ (CtxDone \/ slot = "lost") /\ files' = [files EXCEPT ![i] = "failed"] /\ NoFault
       \/ Fault /\ files' = [files EXCEPT ![i] = "failed"]
    /\ UNCHANGED <<pc, task, attempt, due, leased, lost, slot, err, workspace, low, stop>>

UploadsAttempted == \A i \in DOMAIN files : files[i] # "local"

\* Mutant: the error of an upload is dropped.
IgnoreUploadError ==
    /\ pc = "upload" /\ UploadsAttempted
    /\ slot' = "none"
    /\ IF slot = "lost" THEN Return("owner") ELSE pc' = "bench" /\ UNCHANGED err
    /\ NoFault
    /\ UNCHANGED <<task, attempt, due, leased, lost, files, workspace, low, stop>>

\* All files are tried; the capacity is released; losing it counts as losing
\* the attempt; then the first upload error is the task's.
ReleaseUploadCapacity ==
    /\ pc = "upload" /\ UploadsAttempted
    /\ slot' = "none"
    /\ \/ slot = "lost" /\ Return("owner")
       \/ slot # "lost" /\ (\E i \in DOMAIN files : files[i] = "failed") /\ Return("failed")
       \/ /\ slot # "lost" /\ \A i \in DOMAIN files : files[i] = "verified"
          /\ pc' = "bench" /\ UNCHANGED err
    /\ NoFault
    /\ UNCHANGED <<task, attempt, due, leased, lost, files, workspace, low, stop>>

\* The benchmark event: only a cancellation stops the task.
BenchmarkEvent ==
    /\ pc = "bench" /\ ~CtxDone
    /\ \/ attempt[task] = "CANCELED" /\ NoFault /\ Return("canceled")
       \/ attempt[task] # "CANCELED" /\ NoFault /\ pc' = "lastcheck" /\ UNCHANGED err
       \/ Fault /\ pc' = "lastcheck" /\ UNCHANGED err
    /\ UNCHANGED <<task, attempt, due, leased, lost, files, slot, workspace, low, stop>>

\* What ReportTaskResult makes of a report: the first of a live attempt is
\* recorded, a repetition of it accepted, any other refused.
Answer(status) ==
    \/ Live(task) /\ attempt' = [attempt EXCEPT ![task] = status]
    \/ attempt[task] = status /\ UNCHANGED attempt

Refuses(status) == ~Live(task) /\ attempt[task] # status

\* Mutant: a success whose report got no answer is returned as any error.
UnansweredAsFailure ==
    /\ pc = "report" /\ ~CtxDone
    /\ \/ Answer("SUCCEEDED") /\ NoFault /\ Return("none")
       \/ Refuses("SUCCEEDED") /\ NoFault /\ Return("failed") /\ UNCHANGED attempt
       \/ Fault /\ Answer("SUCCEEDED") /\ UNCHANGED <<pc, err>>
       \/ Fault /\ UNCHANGED attempt /\ Return("failed")
    /\ UNCHANGED <<task, due, leased, lost, files, slot, workspace, low, stop>>

\* reportResultWithRetry for SUCCEEDED: transient errors are retried until the
\* window closes, and are then no failure of the task.
ReportSuccess ==
    /\ pc = "report" /\ ~CtxDone
    /\ \/ Answer("SUCCEEDED") /\ NoFault /\ Return("none")
       \/ Refuses("SUCCEEDED") /\ NoFault /\ Return("failed") /\ UNCHANGED attempt
       \/ Fault /\ Answer("SUCCEEDED") /\ UNCHANGED <<pc, err>>
       \/ Fault /\ UNCHANGED attempt /\ Return("transient")
    /\ UNCHANGED <<task, due, leased, lost, files, slot, workspace, low, stop>>

\* The context ends while the body is between two calls or inside one.  The
\* uploads end by themselves; the capacity is released on the way out.
BodyAborted ==
    /\ pc \in Body \ {"upload"} /\ CtxDone
    /\ Return("failed")
    /\ slot' = "none"
    /\ UNCHANGED <<task, attempt, due, leased, lost, files, workspace, low, stop, faults>>

\* Mutant: the lease goroutine is not waited for, and goes on.
JoinWithoutStopping ==
    /\ pc = "join"
    /\ err' = IF lost THEN "owner" ELSE err
    /\ lost' = FALSE /\ pc' = "cleanup"
    /\ UNCHANGED <<task, attempt, due, leased, files, slot, workspace, low, stop, faults>>

\* executeTaskWithBody: stop the lease goroutine and wait for it; a lost lease
\* replaces whatever the body returned.
Join ==
    /\ pc = "join"
    /\ err' = IF lost THEN "owner" ELSE err
    /\ leased' = {} /\ lost' = FALSE /\ pc' = "cleanup"
    /\ UNCHANGED <<task, attempt, due, files, slot, workspace, low, stop, faults>>

\* workspace.Cleanup: a failure is the task's error only when it had none.
CleanupWorkspace ==
    /\ pc = "cleanup"
    /\ pc' = "verdict" /\ files' = <<>>
    /\ \/ workspace' = "none" /\ NoFault /\ UNCHANGED err
       \/ Fault /\ workspace' = "left" /\ err' = IF err = "none" THEN "failed" ELSE err
    /\ UNCHANGED <<task, attempt, due, leased, lost, slot, low, stop>>

(***************************************************************************)
(* What the loop makes of the result *)

Forget == pc' = "poll" /\ task' = 0 /\ err' = "none"

\* Success, ownership lost, success without an answer: nothing is reported.
\* Under shutdown a report returns at once.
SuppressResult ==
    /\ pc = "verdict"
    /\ err \in {"none", "owner", "transient"} \/ stop
    /\ Forget
    /\ UNCHANGED <<attempt, due, leased, lost, files, slot, workspace, low, stop, faults>>

\* CANCELED and FAILED: a refusal is only logged, an unanswered report given up.
ReportVerdict(status) ==
    /\ pc = "verdict" /\ ~stop
    /\ err = IF status = "CANCELED" THEN "canceled" ELSE "failed"
    /\ \/ Answer(status) /\ NoFault /\ Forget
       \/ Refuses(status) /\ UNCHANGED attempt /\ NoFault /\ Forget
       \/ Fault /\ Answer(status) /\ UNCHANGED <<pc, task, err>>
       \/ Fault /\ UNCHANGED attempt /\ Forget
    /\ UNCHANGED <<due, leased, lost, files, slot, workspace, low, stop>>

(***************************************************************************)
(* The lease goroutine, the master's scan and the passing of time *)

\* maintainTaskLeaseWithClock: a refused renewal or a deadline that passed
\* reports the loss and cancels the context.  (A renewal granted changes
\* nothing here: the deadline just has not passed.)
LeaseLost(t) ==
    /\ t \in leased
    /\ ~Live(t)
    /\ leased' = leased \ {t} /\ lost' = TRUE
    /\ UNCHANGED <<pc, task, attempt, due, files, slot, err, workspace, low, stop, faults>>

\* The deadline passes: renewals were not answered in time, or nobody renews.
LeaseDue(t) ==
    /\ attempt[t] = "ACTIVE" /\ t \notin due
    /\ IF t \in leased THEN Fault ELSE NoFault
    /\ due' = due \cup {t}
    /\ UNCHANGED <<pc, task, attempt, leased, lost, files, slot, err, workspace, low, stop>>

ExpireTaskAttempts ==
    /\ \E t \in due : attempt[t] = "ACTIVE"
    /\ attempt' = [t \in Tasks |-> IF t \in due /\ attempt[t] = "ACTIVE"
                                   THEN "LOST" ELSE attempt[t]]
    /\ UNCHANGED <<pc, task, due, leased, lost, files, slot, err, workspace, low, stop, faults>>

CancelRun(t) ==
    /\ attempt[t] = "ACTIVE" /\ Fault
    /\ attempt' = [attempt EXCEPT ![t] = "CANCELED"]
    /\ UNCHANGED <<pc, task, due, leased, lost, files, slot, err, workspace, low, stop>>

BodyStep ==
    \/ CreateWorkspace
    \/ FetchCredentials
    \/ CheckTaskCancellation("check", "extract")
    \/ Extract
    \/ CheckTaskCancellation("recheck", "capacity")
    \/ AcquireUploadCapacity
    \/ \E i \in 1..MaxFiles : UploadFile(i)
    \/ ReleaseUploadCapacity
    \/ BenchmarkEvent
    \/ CheckTaskCancellation("lastcheck", "report")
    \/ ReportSuccess
    \/ BodyAborted
    \/ Join
    \/ CleanupWorkspace
    \/ SuppressResult
    \/ ReportVerdict("CANCELED")
    \/ ReportVerdict("FAILED")
    \/ Exit

Next ==
    \/ ResourceLow
    \/ ResourceBack
    \/ RequestTask
    \/ PollingRefused
    \/ Shutdown
    \/ BodyStep
    \/ CapacityLost
    \/ \E t \in Tasks : LeaseLost(t) \/ LeaseDue(t) \/ CancelRun(t)
    \/ ExpireTaskAttempts

\* The main goroutine keeps running, the master keeps scanning, and the
\* deadline of a lease that nobody renews arrives.
UnrenewedLeaseDue(t) == t \notin leased /\ LeaseDue(t)

Fairness ==
    /\ WF_vars(BodyStep)
    /\ WF_vars(ExpireTaskAttempts)
    /\ \A t \in Tasks : WF_vars(UnrenewedLeaseDue(t))

Spec == Init /\ [][Next]_vars /\ Fairness

(***************************************************************************)
(* Properties *)

\* The state of the worker and of the attempts has the shape the code gives it;
\* the capacity lease is held only while files are uploaded.
WorkerTaskTypeOK ==
    /\ pc \in Body \cup {"poll", "create", "join", "cleanup", "verdict", "exit"}
    /\ task \in 0..MaxTasks /\ (task = 0 <=> pc \in {"poll", "exit"})
    /\ attempt \in [Tasks -> Ended \cup {"NONE", "ACTIVE"}]
    /\ lost \in BOOLEAN /\ err \in Errors
    /\ slot # "none" => pc = "upload"
    /\ leased # {} => leased = {task} /\ pc \in Body \cup {"join"}

\* A result the master records as SUCCEEDED while the worker still holds the
\* attempt's files covers only files that were uploaded and verified: no order
\* of upload errors, lost capacity, lost lease and cancellation lets the body
\* reach its SUCCEEDED report with a file missing (task_execution.go, body).
SuccessIsUploaded ==
    task # 0 /\ attempt[task] = "SUCCEEDED" => \A i \in DOMAIN files : files[i] = "verified"

\* The worker never turns a success it may have delivered into a failure: it
\* leaves the body with a failure after the master recorded SUCCEEDED only when
\* the workspace could not be removed (executeTaskManaged returns that error)
\* or its context ended inside the report, in which case nothing is sent.
SuccessNotRetracted ==
    pc = "verdict" /\ err = "failed" /\ attempt[task] = "SUCCEEDED"
        => workspace = "left" \/ stop

\* Every attempt the master hands out is settled, by a report or by its lease
\* running out, whatever answer was lost and wherever the worker stopped: the
\* lease goroutine never outlives the body it serves.
Open(t) == attempt[t] = "ACTIVE"
AttemptSettles == \A t \in Tasks : []<>~Open(t)

===============================================================================
