------------------------------ MODULE MCWorker ------------------------------
(***************************************************************************)
(* What a job asks for and its caller is told, how its source is read and  *)
(* typed, and how a worker writes, uploads and cleans up, checked by TLC   *)
(* one component at a time:                                                *)
(* a behaviour runs the component that focus names.  The components share  *)
(* no state here, so their variables share the slots.                      *)
(***************************************************************************)
EXTENDS Naturals

CONSTANT NoOne   \* no request and no row

VARIABLES
    focus,   \* the component whose behaviour this is
    s1, s2, s3, s4, s5, s6, s7, s8, s9, s10, s11, s12, s13, s14   \* its variables, in their order

all == <<focus,
         s1, s2, s3, s4, s5, s6, s7, s8, s9, s10, s11, s12, s13, s14>>

\* The slots after the n-th hold nothing.
Idle13 == s14 = 0
Idle12 == s13 = 0 /\ Idle13
Idle11 == s12 = 0 /\ Idle12
Idle10 == s11 = 0 /\ Idle11
Idle9 == s10 = 0 /\ Idle10
Idle8 == s9 = 0 /\ Idle9
Idle7 == s8 = 0 /\ Idle8
Idle6 == s7 = 0 /\ Idle7

-----------------------------------------------------------------------------
\* Jobs that differ from the base job in one option, two runs each.
Jobs == INSTANCE JobOptions WITH
    Engines <- {"postgres", "mongodb", "flightsql"}, MaxFetchSize <- 3,
    MaxDeviations <- 1, Cpus <- {4}, Mems <- {8}, Workers <- {0, 3},
    TableSizes <- {2000}, RowCounts <- {5000}, MaxRuns <- 2,
    job <- s1, asked <- s2, sticky <- s3, run <- s4, last <- s5, runs <- s6
ASSUME Jobs!JobOptionsAssumption
JobsInit == focus = "jobs" /\ Jobs!JobsInit /\ Idle6
JobsNext ==
    /\ focus = "jobs" /\ Jobs!JobsNext
    /\ UNCHANGED <<focus, s7, s8, s9, s10, s11, s12, s13, s14>>

\* Two requests against one job, two databases and one dataset.
Submit == INSTANCE RunSubmission WITH
    Requests <- {"q1", "q2"}, Sources <- {"s1", "s2"}, Datasets <- {"d1"},
    NoOne <- NoOne,
    pc <- s1, req <- s2, mine <- s3, mutex <- s4, job <- s5, conn <- s6,
    edited <- s7, run <- s8
ASSUME Submit!SubmissionAssumption
SubmitInit == focus = "submission" /\ Submit!SubmissionInit /\ Idle8
SubmitNext ==
    /\ focus = "submission" /\ Submit!SubmissionNext
    /\ UNCHANGED <<focus, s9, s10, s11, s12, s13, s14>>

\* An interactive run and a submit with a watch, of one job.
Cli == INSTANCE ClientRuns WITH
    Clients <- {"c1", "c2"}, Interactive <- {"c1"}, Registers <- TRUE,
    ChanSize <- 3, MaxBreaks <- 1, NoOne <- "none",
    conn <- s1, job <- s2, run <- s3, reg <- s4, rows <- s5, unsent <- s6,
    client <- s7, breaks <- s8
ASSUME Cli!ClientAssumption
CliInit == focus = "client" /\ Cli!ClientsInit /\ Idle8
CliNext ==
    /\ focus = "client" /\ Cli!ClientsNext
    /\ UNCHANGED <<focus, s9, s10, s11, s12, s13, s14>>

\* Three cursor values, two row contents and a boundary that holds one hash:
\* ties at the mark, boundaries that overflow, late rows.
Increment == INSTANCE IncrementalExport WITH
    MaxCursor <- 3, Hashes <- {"h1", "h2"}, MaxCopies <- 3, MaxTasks <- 2,
    MaxRowHashes <- 1, MaxRuns <- 2, Engines <- {"sql"},
    Domains <- {"int64", "string"}, Lookbacks <- {0, 1},
    Checks <- {"off", "none", "immutable"},
    job <- s1, source <- s2, state <- s3, data <- s4, run <- s5, late <- s6,
    runs <- s7
ASSUME Increment!BoundsAssumption
IncrementInit == focus = "incremental" /\ Increment!Init /\ Idle7
IncrementNext ==
    /\ focus = "incremental" /\ Increment!Next
    /\ UNCHANGED <<focus, s8, s9, s10, s11, s12, s13, s14>>

\* Two rows that may move or turn NULL while two tasks read them.
Source == INSTANCE SourceRead WITH
    Engines <- {"postgres", "mysql", "mssql", "oracle", "clickhouse", "trino", "cassandra", "mongodb", "flightsql"},
    Modes <- {"table", "query"}, Strategies <- {"single", "ordered_cursor"},
    Types <- {"int", "blob"}, Snapshots <- {FALSE, TRUE},
    Rows <- {"r1", "r2"}, MaxCursor <- 2, MaxTasks <- 2, MaxChanges <- 1,
    job <- s1, table <- s2, phase <- s3, cursor <- s4, stats <- s5,
    snap <- s6, tasks <- s7, got <- s8, changes <- s9
SourceInit == focus = "source" /\ Source!ReadInit /\ Idle9
SourceNext ==
    /\ focus = "source" /\ Source!ReadNext
    /\ UNCHANGED <<focus, s10, s11, s12, s13, s14>>

\* Every kind of override, two runs of a Cassandra job, a source that changes
\* once.
Column == INSTANCE ColumnTypes WITH
    Engines <- {"sql", "cassandra"},
    Requests <- {"none", "source", "int", "uint", "decimal", "float", "string"}, MaxRuns <- 2,
    MaxChanges <- 1,
    col <- s1, rows <- s2, job <- s3, plan <- s4, files <- s5, table <- s6,
    queue <- s7, runs <- s8, changes <- s9
ColumnInit == focus = "columns" /\ Column!TypesInit /\ Idle9
ColumnNext ==
    /\ focus = "columns" /\ Column!TypesNext
    /\ UNCHANGED <<focus, s10, s11, s12, s13, s14>>

\* Two rows in batches of two; a file that may be replaced after its scan.
Doc == INSTANCE DocumentTypes WITH
    Formats <- {"csv", "json"}, MaxRows <- 2, BatchSize <- 2, MaxChanges <- 1,
    format <- s1, override <- s2, rows <- s3, scan <- s4, column <- s5,
    pos <- s6, buf <- s7, written <- s8, phase <- s9, changes <- s10
DocInit == focus = "documents" /\ Doc!DocInit /\ Idle10
DocNext ==
    /\ focus = "documents" /\ Doc!DocNext
    /\ UNCHANGED <<focus, s11, s12, s13, s14>>

\* A collection of two batches, so that the second may have other types and
\* fields than the first.
Mongo == INSTANCE DocumentTypes WITH
    Formats <- {"mongo"}, MaxRows <- 3, BatchSize <- 2, MaxChanges <- 0,
    format <- s1, override <- s2, rows <- s3, scan <- s4, column <- s5,
    pos <- s6, buf <- s7, written <- s8, phase <- s9, changes <- s10
MongoInit == focus = "collection" /\ Mongo!DocInit /\ Idle10
MongoNext ==
    /\ focus = "collection" /\ Mongo!DocNext
    /\ UNCHANGED <<focus, s11, s12, s13, s14>>

\* Two tasks of up to two files, with two failures.
Task == INSTANCE WorkerTask WITH
    MaxTasks <- 2, MaxFiles <- 2, MaxFaults <- 2,
    pc <- s1, task <- s2, attempt <- s3, due <- s4, leased <- s5, lost <- s6,
    files <- s7, slot <- s8, err <- s9, workspace <- s10, low <- s11,
    stop <- s12, faults <- s13
ASSUME Task!BoundsAssumption
TaskInit == focus = "task" /\ Task!Init /\ Idle13
TaskNext == focus = "task" /\ Task!Next /\ UNCHANGED <<focus, s14>>

\* Three partitions and two open files.
Output == INSTANCE ParquetOutput WITH
    Parts <- {"p1", "p2", "p3"}, MaxOpen <- 2, Target <- 10, Sizes <- {6},
    MaxBatches <- 3,
    writers <- s1, order <- s2, open <- s3, disk <- s4, last <- s5,
    rows <- s6, phase <- s7, batches <- s8
ASSUME Output!BoundsAssumption
OutputInit == focus = "output" /\ Output!Init /\ Idle8
OutputNext ==
    /\ focus = "output" /\ Output!Next
    /\ UNCHANGED <<focus, s9, s10, s11, s12, s13, s14>>

\* Two attempts want the one upload slot.
Slots == INSTANCE UploadCapacity WITH
    Attempts <- {"a1", "a2"}, Limit <- 1, MaxFaults <- 1,
    owned <- s1, row <- s2, wk <- s3, grant <- s4, answer <- s5, known <- s6,
    call <- s7, late <- s8, faults <- s9
ASSUME Slots!CapacityConstants
SlotsInit == focus = "capacity" /\ Slots!Init /\ Idle9
SlotsNext ==
    /\ focus = "capacity" /\ Slots!Next
    /\ UNCHANGED <<focus, s10, s11, s12, s13, s14>>

\* Two attempts of a task upload to one key.
Upload == INSTANCE TaskUpload WITH
    MaxAttempts <- 2, MaxCleanups <- 2, MaxFaults <- 2,
    run <- s1, att <- s2, task <- s3, pc <- s4, row <- s5, artifact <- s6,
    obj <- s7, open <- s8, cleaner <- s9, cand <- s10, sweeper <- s11,
    dryRun <- s12, checksums <- s13, faults <- s14
ASSUME Upload!UploadConstants
UploadInit == focus = "upload" /\ Upload!Init
UploadNext == focus = "upload" /\ Upload!Next /\ UNCHANGED <<focus>>

\* Two workspaces, one too large for a scan, and a crash.
Space == INSTANCE WorkerWorkspace WITH
    Attempts <- {"a1", "a2"}, Large <- {"a2"}, MaxCrashes <- 1,
    parent <- s1, dir <- s2, work <- s3, scan <- s4, removing <- s5,
    crashes <- s6
ASSUME Space!WorkspaceConstants
SpaceInit == focus = "workspace" /\ Space!Init /\ Idle6
SpaceNext ==
    /\ focus = "workspace" /\ Space!Next
    /\ UNCHANGED <<focus, s7, s8, s9, s10, s11, s12, s13, s14>>

-----------------------------------------------------------------------------
Init ==
    \/ JobsInit \/ SubmitInit \/ CliInit \/ IncrementInit \/ SourceInit \/ ColumnInit
    \/ DocInit \/ MongoInit \/ TaskInit \/ OutputInit \/ SlotsInit \/ UploadInit
    \/ SpaceInit

Next ==
    \/ JobsNext \/ SubmitNext \/ CliNext \/ IncrementNext \/ SourceNext \/ ColumnNext
    \/ DocNext \/ MongoNext \/ TaskNext \/ OutputNext \/ SlotsNext \/ UploadNext
    \/ SpaceNext

Spec == Init /\ [][Next]_all

-----------------------------------------------------------------------------

\* Every component keeps the types of its rows, files and processes.
WorkerTypesOK ==
    CASE focus = "workspace" -> Space!WorkspaceTypeOK
      [] focus = "documents" -> Doc!DocTypeOK
      [] focus = "columns" -> Column!TypesTypeOK
      [] focus = "upload" -> Upload!UploadTypeOK
      [] focus = "source" -> Source!ReadTypeOK
      [] focus = "incremental" -> Increment!IncrementalTypeOK
      [] focus = "capacity" -> Slots!CapacityTypeOK
      [] focus = "client" -> Cli!ClientsTypeOK
      [] focus = "jobs" -> Jobs!JobsTypeOK
      [] focus = "collection" -> Mongo!DocTypeOK
      [] focus = "task" -> Task!WorkerTaskTypeOK
      [] focus = "submission" -> Submit!SubmissionTypeOK
      [] focus = "output" -> TRUE

\* A run does what its caller asked for: the command line refuses what the master
\* would, a checked job plans, a later run is not planned from what an earlier one
\* resolved, and no other submit turns a running run to another database
\* (internal/jobopts, internal/planner, internal/http/api_runs.go).  The file size
\* is the exception: what the tuner infers when the caller left it open is written
\* back unmarked (autotune.go), so that a later run takes it for the caller's;
\* PlanIsCallers speaks of the jobs whose caller chose it.
RunsAsAsked ==
    /\ focus = "jobs" => Jobs!ClientSpecAccepted /\ Jobs!CheckedJobPlans /\ Jobs!PlanIsCallers
    /\ focus = "submission" => Submit!SourceStaysPut

\* A command line invocation that exits 0 followed a run that SUCCEEDED
\* (internal/orabbitcli).
ExitZeroMeansSucceeded == focus = "client" => Cli!ExitZeroMeansSucceeded

\* Incremental runs export each row exactly once: no boundary, skip set, lookback
\* or task range loses a row or, without lookback, repeats one
\* (internal/hwmboundary, internal/planner, internal/connectors).
EachRowOnce == focus = "incremental" => Increment!NoRowLost /\ Increment!NoRowTwice

\* A full export reads each row of an unchanged source once, and a snapshot is
\* read once whatever moves meanwhile (planner.go, the readers of the engines).
SourceReadOnce ==
    focus = "source" => Source!FullExportIsComplete /\ Source!SnapshotReadOnce


\* SUCCEEDED means that every file was uploaded and verified, and a success that
\* may have been recorded is not reported as a failure (task_execution.go).
SuccessIsTrue ==
    focus = "task" => Task!SuccessIsUploaded /\ Task!SuccessNotRetracted

\* The Parquet files of a closed task hold its rows, within the bound of open
\* files, and nothing else is left on disk (parquet_partitioned.go).
OutputHasEveryRow ==
    focus = "output" =>
        Output!OutputHasEveryRow /\ Output!OpenFilesBounded /\ Output!NothingLeftOnDisk

\* At most Limit workers upload within the deadline they know
\* (internal/db/upload_capacity.go).
UploadsWithinLimit == focus = "capacity" => Slots!UploadsWithinLimit

\* Cleanup deletes garbage only: no object an accepted or publishing run refers
\* to, and no workspace that a worker has locked (canceled_objects.go,
\* multipart.go, workspace.go).
DeletesOnlyGarbage ==
    [][/\ focus = "upload" => Upload!DeletesOnlyUnreferenced
       /\ focus = "workspace" => Space!LockedNeverDeleted]_all
=============================================================================
