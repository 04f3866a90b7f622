---------------------------- MODULE RunSubmission ----------------------------
(***************************************************************************)
(* Concurrent HTTP requests on one job: one-shot submits that share its    *)
(* name (internal/http/api_runs.go), runs of the stored job, PUT and       *)
(* DELETE of the job and of its source connections (internal/http/         *)
(* server.go), and the planner that turns a request into a run             *)
(* (internal/planner/planner.go).  A request is a sequence of store        *)
(* transactions with nothing held between them, except that oneshotMu      *)
(* covers the upserts of a submit.  A run is planned from the job row the  *)
(* request read; its configuration snapshot is read again when its tasks   *)
(* are stored (internal/db/run_config.go).                                 *)
(*                                                                         *)
(* The name of a one-shot job contains its target, so the submits of one   *)
(* job name one dataset; a PUT may move the job to another.                *)
(***************************************************************************)
EXTENDS Naturals, FiniteSets

CONSTANTS
    Requests,   \* the HTTP requests
    Sources,    \* source databases, by DSN
    Datasets,   \* target bucket and prefix
    NoOne       \* no request, no row, no database

SubmissionAssumption == NoOne \notin Requests \cup Sources \cup Datasets

VARIABLES
    pc,         \* where each request is
    req,        \* what it asks for
    mine,       \* the job row it read
    mutex,      \* the holder of oneshotMu
    job,        \* the job row, NoOne when there is none
    conn,       \* the DSN each source connection holds, by connection name
    edited,     \* connections an operator has given another secret
    run         \* the run each request created

subVars == <<pc, req, mine, mutex, job, conn, edited, run>>

Kinds == {"submit", "run", "put", "putConnection", "deleteJob", "deleteConnection"}
JobRows == [id : Requests, src : Sources, dst : Datasets, cursor : BOOLEAN]
Pcs == {"idle", "source", "job", "read", "create", "validate", "tune", "start", "write", "lost", "done"}
Planning == {"validate", "tune", "start"}
NoRun == [status |-> "NONE", job |-> NoOne, plan |-> NoOne, snap |-> NoOne, dsn |-> NoOne]

Active(r) == run[r].status \in {"PLANNING", "RUNNING"}
\* The dataset the unique index on active runs keys the run by.
DatasetKey(r) == run[r].plan.dst
At(r, at, next) == pc[r] = at /\ pc' = [pc EXCEPT ![r] = next]

SubmissionInit ==
    /\ pc = [r \in Requests |-> "idle"]
    /\ req = [r \in Requests |-> NoOne]
    /\ mine = [r \in Requests |-> NoOne]
    /\ mutex = NoOne /\ job = NoOne
    /\ conn = [s \in Sources |-> NoOne] /\ edited = {}
    /\ run = [r \in Requests |-> NoRun]

\* Mutant: the name does not depend on the DSN.
OneNamePerEngine(s) == CHOOSE x \in Sources : TRUE

\* The connection a one-shot submit of a source uses: a keyed tag of its DSN.
sourceConnectionName(s) == s

\* A request arrives: a submit takes its steps from "source", a run of the
\* stored job from "read", a change of a row from "write".
First(kind) == CASE kind = "submit" -> "source"
                 [] kind = "run" -> "read"
                 [] OTHER -> "write"

\* What the handlers check: validateJobRequest, CountRunsForJob and
\* CountJobsUsingConnection.
ValidJob(q) == conn[q.src] # NoOne
RunsOf(id) == {r \in Requests : run[r].job = id}
Used(name) == job # NoOne /\ job.src = name

\* PUT validates the connection it names, DELETE counts the runs of the job
\* or the jobs of the connection, each before the transaction that writes.
Accepted(q) ==
    CASE q.kind = "put" -> job # NoOne /\ ValidJob(q)
      [] q.kind = "deleteJob" -> job # NoOne /\ RunsOf(job.id) = {}
      [] q.kind = "putConnection" -> conn[q.src] # NoOne
      [] q.kind = "deleteConnection" -> conn[q.src] # NoOne /\ ~Used(q.src)
      [] OTHER -> TRUE

\* A request that is malformed or fails validation changes nothing.
Reject(r) ==
    /\ At(r, "idle", "done")
    /\ UNCHANGED <<req, mine, mutex, job, conn, edited, run>>

Arrive(r, q) ==
    /\ At(r, "idle", First(q.kind))
    /\ Accepted(q)
    /\ req' = [req EXCEPT ![r] = q]
    /\ mine' = [mine EXCEPT ![r] = IF First(q.kind) = "write" THEN job ELSE NoOne]
    /\ UNCHANGED <<mutex, job, conn, edited, run>>

\* prepareOneShotResources under oneshotMu: the connections, then the job.
upsertConnectionByName(r) ==
    /\ At(r, "source", "job")
    /\ mutex = NoOne /\ mutex' = r
    /\ conn' = [conn EXCEPT ![sourceConnectionName(req[r].src)] = req[r].src]
    /\ UNCHANGED <<req, mine, job, edited, run>>

upsertJobByName(r) ==
    /\ At(r, "job", "read")
    /\ mutex = r /\ mutex' = NoOne
    /\ job' = [id |-> IF job = NoOne THEN r ELSE job.id,
               src |-> sourceConnectionName(req[r].src), dst |-> req[r].dst,
               cursor |-> req[r].cursor]
    /\ UNCHANGED <<req, mine, conn, edited, run>>

\* A transaction of the upserts fails: the request ends, the mutex is free.
PrepareFails(r) ==
    /\ At(r, "job", "done")
    /\ mutex' = NoOne
    /\ UNCHANGED <<req, mine, job, conn, edited, run>>

\* createRunForJobRequest reads the job again; the planner needs its source.
GetJob(r) ==
    /\ At(r, "read", IF job # NoOne /\ conn[job.src] # NoOne THEN "create" ELSE "done")
    /\ mine' = [mine EXCEPT ![r] = job]
    /\ UNCHANGED <<req, mutex, job, conn, edited, run>>

DatasetBusy(d) == \E o \in Requests : Active(o) /\ DatasetKey(o) = d

\* CreateRun: the unique index refuses a second active run of the dataset.
CreateRun(r) ==
    LET busy == DatasetBusy(mine[r].dst)
    IN  /\ At(r, "create", IF busy THEN "done" ELSE IF mine[r].cursor THEN "validate" ELSE "start")
        /\ run' = IF busy THEN run
                  ELSE [run EXCEPT ![r] = [NoRun EXCEPT !.status = "PLANNING",
                                              !.job = mine[r].id, !.plan = mine[r]]]
        /\ UNCHANGED <<req, mine, mutex, job, conn, edited>>

\* partition_strategy ordered_cursor: the planner opens the source, validates
\* the cursor column and plans ranges, or one task when a full load has none.
ValidateCursor(r) ==
    /\ \E next \in {"tune", "start"} : At(r, "validate", next)
    /\ UNCHANGED <<req, mine, mutex, job, conn, edited, run>>

\* The planner stores its tuned options by writing back the row it read.
persistTunedOptions(r) ==
    /\ At(r, "tune", "start")
    /\ job' = IF job # NoOne /\ job.id = mine[r].id THEN mine[r] ELSE job
    /\ UNCHANGED <<req, mine, mutex, conn, edited, run>>

\* StartRunWithTasks: the tasks, the snapshot of the rows as they are now, and
\* the admission of the run, in one transaction.
Snapshots(r) == job # NoOne /\ job.id = run[r].job /\ conn[job.src] # NoOne
StartRunWithTasks(r) ==
    /\ Snapshots(r)
    /\ At(r, "start", "done")
    /\ run' = [run EXCEPT ![r].status = "RUNNING", ![r].snap = job, ![r].dsn = conn[job.src]]
    /\ UNCHANGED <<req, mine, mutex, job, conn, edited>>

\* Mutant: the error is returned and the run row is left alone.
ReturnErrorOnly(r) ==
    /\ pc[r] \in Planning
    /\ pc' = [pc EXCEPT ![r] = "done"]
    /\ UNCHANGED <<req, mine, mutex, job, conn, edited, run>>

\* The planner fails anywhere after CreateRun, or its deadline passes: the
\* deferred handler marks the run FAILED, and ignores that the store refuses.
FailPlanning(r) ==
    /\ pc[r] \in Planning
    /\ \/ /\ pc' = [pc EXCEPT ![r] = "done"]
          /\ run' = [run EXCEPT ![r].status = "FAILED"]
       \/ /\ pc' = [pc EXCEPT ![r] = "lost"]
          /\ UNCHANGED run
    /\ UNCHANGED <<req, mine, mutex, job, conn, edited>>

\* The master restarts with no request under way and, before it serves, fails
\* the runs whose planning was cut off.
FailAbandonedPlanningRuns ==
    /\ \E r \in Requests : run[r].status = "PLANNING"
    /\ pc' = [r \in Requests |-> IF pc[r] = "idle" THEN "idle" ELSE "done"]
    /\ mutex' = NoOne
    /\ run' = [r \in Requests |->
                  IF run[r].status = "PLANNING" THEN [run[r] EXCEPT !.status = "FAILED"] ELSE run[r]]
    /\ UNCHANGED <<req, mine, job, conn, edited>>

\* The write of PUT /jobs/{id}, DELETE /jobs/{id} and DELETE /connections/{id}.
UpdateJob(r) ==
    /\ At(r, "write", "done") /\ req[r].kind = "put"
    /\ job' = IF job # NoOne /\ job.id = mine[r].id
              THEN [job EXCEPT !.src = req[r].src, !.dst = req[r].dst, !.cursor = req[r].cursor]
              ELSE job
    /\ UNCHANGED <<req, mine, mutex, conn, edited, run>>

\* PUT /connections/{id} with a secret: the operator's own change of DSN.
UpdateConnection(r) ==
    /\ At(r, "write", "done") /\ req[r].kind = "putConnection"
    /\ conn[req[r].src] # NoOne
    /\ \E dsn \in Sources : conn' = [conn EXCEPT ![req[r].src] = dsn]
    /\ edited' = edited \cup {req[r].src}
    /\ UNCHANGED <<req, mine, mutex, job, run>>

DeleteJob(r) ==
    /\ At(r, "write", "done") /\ req[r].kind = "deleteJob"
    /\ job' = IF job # NoOne /\ job.id = mine[r].id THEN NoOne ELSE job
    /\ UNCHANGED <<req, mine, mutex, conn, edited, run>>

DeleteConnection(r) ==
    /\ At(r, "write", "done") /\ req[r].kind = "deleteConnection"
    /\ conn' = [conn EXCEPT ![req[r].src] = NoOne]
    /\ UNCHANGED <<req, mine, mutex, job, edited, run>>

\* The DSN the workers of a run are handed, and the dataset they write: both
\* resolved from the snapshot, the DSN from the live connection row.
taskCredentials(r) == conn[run[r].snap.src]
Writes(r) == IF run[r].snap = NoOne THEN DatasetKey(r) ELSE run[r].snap.dst

\* The run reaches a terminal status (RunLifecycle models how).
RunEnds(r) ==
    /\ run[r].status = "RUNNING"
    /\ run' = [run EXCEPT ![r].status = "ENDED"]
    /\ UNCHANGED <<pc, req, mine, mutex, job, conn, edited>>

\* What may be asked.  A one-shot submit names the dataset its job name stands
\* for; a field a request does not have is left at one value.
SubmitTarget == CHOOSE d \in Datasets : TRUE
Asked(kind) ==
    [kind : {kind},
     src : IF kind \in {"submit", "put", "putConnection", "deleteConnection"} THEN Sources
           ELSE {CHOOSE s \in Sources : TRUE},
     dst : IF kind = "put" THEN Datasets ELSE {SubmitTarget},
     cursor : IF kind \in {"submit", "put"} THEN BOOLEAN ELSE {FALSE}]

HandlerStep(r) ==
    \/ upsertConnectionByName(r) \/ upsertJobByName(r) \/ PrepareFails(r)
    \/ GetJob(r) \/ CreateRun(r) \/ ValidateCursor(r) \/ persistTunedOptions(r)
    \/ StartRunWithTasks(r) \/ FailPlanning(r)
    \/ UpdateJob(r) \/ UpdateConnection(r) \/ DeleteJob(r) \/ DeleteConnection(r)

SubmissionNext ==
    \/ \E r \in Requests :
        \/ \E q \in UNION {Asked(kind) : kind \in Kinds} : Arrive(r, q)
        \/ Reject(r)
        \/ HandlerStep(r)
        \/ RunEnds(r)
    \/ FailAbandonedPlanningRuns

\* Go runs every handler to its end; planning has a deadline.
SubmissionFairness == \A r \in Requests : WF_subVars(HandlerStep(r))

SubmissionSpec == SubmissionInit /\ [][SubmissionNext]_subVars /\ SubmissionFairness

-----------------------------------------------------------------------------
\* Every variable holds a value of its kind, and only the holder of oneshotMu
\* is between the two upserts.
SubmissionTypeOK ==
    /\ pc \in [Requests -> Pcs]
    /\ job \in JobRows \cup {NoOne}
    /\ conn \in [Sources -> Sources \cup {NoOne}]
    /\ \A r \in Requests :
        /\ mine[r] \in JobRows \cup {NoOne}
        /\ run[r].status \in {"NONE", "PLANNING", "RUNNING", "FAILED", "ENDED"}
        /\ pc[r] = "job" <=> mutex = r

\* Workers read the source's credentials from the live connection row of the
\* snapshot: no submit made later makes a running run read another database
\* (sourceConnectionName scopes the row to its DSN); only an operator's own edit
\* of that connection does.
SourceStaysPut ==
    \A r \in Requests :
        run[r].status = "RUNNING" /\ run[r].snap.src \notin edited
            => taskCredentials(r) \in {run[r].dsn, NoOne}

\* One dataset has at most one active run: the dataset an active run writes,
\* which its snapshot names, is not written by another active run.
OneWriterPerDataset ==
    \A r, o \in Requests : r # o /\ Active(r) /\ Active(o) => Writes(r) # Writes(o)

\* A run the planner created is started or marked FAILED, whatever happens to
\* its job and its connections meanwhile; it does not hold its dataset forever.
\* Only a run whose failure the store refused waits for the next master.
InPlanning(r) == run[r].status = "PLANNING" /\ pc[r] # "lost"
PlanningEnds == \A r \in Requests : []<>~InPlanning(r)

=============================================================================
