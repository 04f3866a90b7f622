------------------------------ MODULE MCMaster ------------------------------
(***************************************************************************)
(* The components of the master and the local stack, checked by TLC one at *)
(* a time: a behaviour runs the component that focus names.  The           *)
(* components share no state here, so their variables share the slots.     *)
(***************************************************************************)
EXTENDS Naturals, Sequences, TLC

CONSTANTS
    x1, x2    \* the passes that may commit, or execute catalog work, at once

VARIABLES
    focus,   \* the component whose behaviour this is
    s1, s2, s3, s4, s5, s6, s7, s8, s9, s10, s11, s12, s13, s14, s15, s16, s17   \* its variables, in their order

all == <<focus,
         s1, s2, s3, s4, s5, s6, s7, s8, s9, s10, s11, s12, s13, s14, s15,
         s16, s17>>

\* The slots after the n-th hold nothing.
Idle16 == s17 = 0
Idle15 == s16 = 0 /\ Idle16
Idle14 == s15 = 0 /\ Idle15
Idle13 == s14 = 0 /\ Idle14
Idle12 == s13 = 0 /\ Idle13
Idle11 == s12 = 0 /\ Idle12
Idle10 == s11 = 0 /\ Idle11
Idle9 == s10 = 0 /\ Idle10
Idle8 == s9 = 0 /\ Idle9
Idle7 == s8 = 0 /\ Idle8
Idle6 == s7 = 0 /\ Idle7
Idle5 == s6 = 0 /\ Idle6
Idle4 == s5 = 0 /\ Idle5

-----------------------------------------------------------------------------
\* Two runs of a dataset, the second of which read only rows below the mark
\* of the first, and two committers.
Commit == INSTANCE RunCommit WITH
    Runs <- {1, 2}, Mark <- <<2, 1>>, Committers <- {x1, x2},
    MaxAttempts <- 2, MaxFaults <- 2, MaxLapses <- 1,
    status <- s1, intent <- s2, phase <- s3, tries <- s4, waiting <- s5,
    claim <- s6, claimLive <- s7, mirror <- s8, manifest <- s9, state <- s10,
    step <- s11, target <- s12, seen <- s13, plan <- s14, cause <- s15,
    faults <- s16, lapses <- s17
ASSUME Commit!CommitAssumption
CommitInit == focus = "commit" /\ Commit!Init
CommitNext == focus = "commit" /\ Commit!Next /\ UNCHANGED <<focus>>

\* Two runs of a dataset, the second without rows; two executors overlap
\* when a lease lapses.
Reg == INSTANCE Registration WITH
    Runs <- {"r1", "r2"}, NoRun <- "none", EmptyRuns <- {"r2"},
    Executors <- {x1, x2}, MaxAttempts <- 2, MaxObservations <- 1,
    MaxAmbiguities <- 1, MaxFaults <- 1, MaxLapses <- 1, MaxCommands <- 1,
    run <- s1, part <- s2, lastRun <- s3, reg <- s4, att <- s5, obs <- s6,
    exec <- s7, cat <- s8, sent <- s9, ice <- s10, faults <- s11,
    lapses <- s12, commands <- s13
ASSUME Reg!RegistrationConstants
RegInit == focus = "registration" /\ Reg!Init /\ Idle13
RegNext ==
    /\ focus = "registration" /\ Reg!Next
    /\ UNCHANGED <<focus, s14, s15, s16, s17>>

\* Two runs with rows: the order in which they enter the table.
Order == INSTANCE Registration WITH
    Runs <- {"r1", "r2"}, NoRun <- "none", EmptyRuns <- {},
    Executors <- {x1, x2}, MaxAttempts <- 2, MaxObservations <- 1,
    MaxAmbiguities <- 1, MaxFaults <- 1, MaxLapses <- 1, MaxCommands <- 0,
    run <- s1, part <- s2, lastRun <- s3, reg <- s4, att <- s5, obs <- s6,
    exec <- s7, cat <- s8, sent <- s9, ice <- s10, faults <- s11,
    lapses <- s12, commands <- s13
ASSUME Order!RegistrationConstants
OrderInit == focus = "order" /\ Order!Init /\ Idle13
OrderNext ==
    /\ focus = "order" /\ Order!Next
    /\ UNCHANGED <<focus, s14, s15, s16, s17>>

\* Two registered runs, a third export and a compaction; two masters process
\* one operation.
Maintain == INSTANCE TableMaintenance WITH
    MaxRuns <- 5, MaxExports <- 3, MaxOps <- 1, MaxFaults <- 1,
    Holders <- {"h1", "h2"}, RecheckEvery <- 1,
    runs <- s1, content <- s2, store <- s3, table <- s4, op <- s5, hold <- s6,
    commit <- s7, ops <- s8, faults <- s9
ASSUME Maintain!MaintenanceConstants
MaintainInit == focus = "maintenance" /\ Maintain!Init /\ Idle9
MaintainNext ==
    /\ focus = "maintenance" /\ Maintain!Next
    /\ UNCHANGED <<focus, s10, s11, s12, s13, s14, s15, s16, s17>>

\* Two runs over two keys and two days; one range accompanies an IN set of
\* two keys.
Ice == INSTANCE IcebergTable WITH
    Keys <- {1, 2}, Days <- {0, 1}, MaxRuns <- 2, MaxRows <- 2,
    MaxDeviations <- 1, DefaultUpsertMaxKeys <- 3, UpsertInPruneLimit <- 1,
    UpsertKeyRanges <- 1,
    base <- s1, table <- s2, run <- s3, phase <- s4, count <- s5
ASSUME Ice!IcebergAssumption
IceInit == focus = "iceberg" /\ Ice!IcebergInit /\ Idle5
IceNext ==
    /\ focus = "iceberg" /\ Ice!IcebergNext
    /\ UNCHANGED <<focus, s6, s7, s8, s9, s10, s11, s12, s13, s14, s15, s16, s17>>

\* Two masters on one database, with or without a file lock that works.
Leader == INSTANCE MasterLeadership WITH
    Masters <- {"m1", "m2"}, RecoverySteps <- 1, MaxStarts <- 2,
    MaxLeaseFaults <- 1,
    flockWorks <- s1, flock <- s2, lead <- s3, proc <- s4, written <- s5,
    starts <- s6, leaseFaults <- s7
LeaderInit == focus = "leadership" /\ Leader!Init /\ Idle7
LeaderNext ==
    /\ focus = "leadership" /\ Leader!Next
    /\ UNCHANGED <<focus, s8, s9, s10, s11, s12, s13, s14, s15, s16, s17>>

\* Two viewers of a small table, ring and channel.
Streams == INSTANCE EventStreams WITH
    Viewers <- {"v1", "v2"}, Kinds <- {"run", "master"}, MaxEvents <- 3,
    MaxLogs <- 3, Batch <- 1, Capacity <- 2, ChanSize <- 1, ReplayLimit <- 2,
    MaxStreams <- 1, Stored <- 1,
    rows <- s1, inserted <- s2, unsent <- s3, published <- s4, logSeq <- s5,
    live <- s6, view <- s7
ASSUME Streams!StreamsAssumption
StreamsInit == focus = "streams" /\ Streams!StreamsInit /\ Idle7
StreamsNext ==
    /\ focus = "streams" /\ Streams!StreamsNext
    /\ UNCHANGED <<focus, s8, s9, s10, s11, s12, s13, s14, s15, s16, s17>>

\* A deployment and a container action on a server that may be patched to
\* another host.
Remote == INSTANCE RemoteOperations WITH
    Ops <- {"o1", "o2"}, Deploys <- {"o1"}, Hosts <- {"h1", "h2"},
    MaxPatches <- 1, MaxChunks <- 1, TailLimit <- 1, MaxFaults <- 1,
    server <- s1, cred <- s2, patch <- s3, patches <- s4, born <- s5,
    op <- s6, exec <- s7, dep <- s8, faults <- s9
ASSUME Remote!RemoteAssumption
RemoteInit == focus = "remote" /\ Remote!RemoteInit /\ Idle9
RemoteNext ==
    /\ focus = "remote" /\ Remote!RemoteNext
    /\ UNCHANGED <<focus, s10, s11, s12, s13, s14, s15, s16, s17>>

\* Two workers share a token of two uses.
Identity == INSTANCE WorkerIdentity WITH
    Workers <- {"w1", "w2"}, Tokens <- {"t1"}, MaxUses <- 2, MaxSerials <- 3,
    MaxFaults <- 2,
    ca <- s1, up <- s2, token <- s3, ident <- s4, serials <- s5, clock <- s6,
    disk <- s7, proc <- s8, faults <- s9
ASSUME Identity!IdentityAssumption
IdentityInit == focus = "identity" /\ Identity!IdentityInit /\ Idle9
IdentityNext ==
    /\ focus = "identity" /\ Identity!IdentityNext
    /\ UNCHANGED <<focus, s10, s11, s12, s13, s14, s15, s16, s17>>

\* Three clients of limiters that track two.
Limits == INSTANCE ApiRequests WITH
    Clients <- {"c1", "c2", "c3"}, Callers <- {"c1"},
    Limiters <- {"requests", "workerFailures"}, Burst <- 2, MaxKeys <- 2,
    Scopes <- {}, LegacyTokens <- {}, MaxCreds <- 0, MaxRefills <- 1,
    bucket <- s1, cred <- s2, req <- s3, refills <- s4
ASSUME Limits!ApiAssumption
LimitsInit == focus = "limits" /\ Limits!ApiInit /\ Idle4
LimitsNext ==
    /\ focus = "limits" /\ Limits!ApiNext
    /\ UNCHANGED <<focus, s5, s6, s7, s8, s9, s10, s11, s12, s13, s14, s15, s16, s17>>

\* A caller, two credentials and a shared token for remote operations.
Api == INSTANCE ApiRequests WITH
    Clients <- {"c1"}, Callers <- {"c1"}, Limiters <- {"authFailures"},
    Burst <- 1, MaxKeys <- 1, Scopes <- {"remote_ops", "credentials:admin"},
    LegacyTokens <- {"remote"}, MaxCreds <- 2, MaxRefills <- 1,
    bucket <- s1, cred <- s2, req <- s3, refills <- s4
ASSUME Api!ApiAssumption
ApiInit == focus = "api" /\ Api!ApiInit /\ Idle4
ApiNext ==
    /\ focus = "api" /\ Api!ApiNext
    /\ UNCHANGED <<focus, s5, s6, s7, s8, s9, s10, s11, s12, s13, s14, s15, s16, s17>>

\* One value of each kind of column, two keys, two stops.
Seal == INSTANCE Secrets WITH
    Keys <- {"k1", "k2"}, Connections <- {"b1"}, Credentials <- {"b2"},
    Versions <- {"b3"}, Texts <- {"t1"}, CA <- "ca", TLS <- TRUE,
    NoKey <- "none", MaxCrashes <- 2,
    value <- s1, env <- s2, sure <- s3, lock <- s4, pc <- s5, key <- s6,
    target <- s7, crashes <- s8
ASSUME Seal!SecretsAssumption
SealInit == focus = "secrets" /\ Seal!SecretsInit /\ Idle8
SealNext ==
    /\ focus = "secrets" /\ Seal!SecretsNext
    /\ UNCHANGED <<focus, s9, s10, s11, s12, s13, s14, s15, s16, s17>>

\* A stack start, an interactive run with a local worker and a stack stop.
Stack == INSTANCE LocalStack WITH
    Pids <- {"p1", "p2"}, Starts <- {"s1"}, Runs <- {"r1"}, Stops <- {"k1"},
    Count <- 1, MaxLives <- 1, MaxDeaths <- 0, NoPid <- "none",
    proc <- s1, file <- s2, inv <- s3, thr <- s4, mu <- s5, deaths <- s6
ASSUME Stack!StackAssumption
StackInit == focus = "stack" /\ Stack!StackInit /\ Idle6
StackNext ==
    /\ focus = "stack" /\ Stack!StackNext
    /\ UNCHANGED <<focus, s7, s8, s9, s10, s11, s12, s13, s14, s15, s16, s17>>

\* A stack start and an interactive run, with a daemon or a command that ends by
\* itself and process ids that are used again.
Reuse == INSTANCE LocalStack WITH
    Pids <- {"p1", "p2"}, Starts <- {"s1"}, Runs <- {"r1"}, Stops <- {},
    Count <- 1, MaxLives <- 2, MaxDeaths <- 1, NoPid <- "none",
    proc <- s1, file <- s2, inv <- s3, thr <- s4, mu <- s5, deaths <- s6
ASSUME Reuse!StackAssumption
ReuseInit == focus = "reuse" /\ Reuse!StackInit /\ Idle6
ReuseNext ==
    /\ focus = "reuse" /\ Reuse!StackNext
    /\ UNCHANGED <<focus, s7, s8, s9, s10, s11, s12, s13, s14, s15, s16, s17>>

\* An interactive run that launches two workers and may trim one, and a stack
\* stop.
Trim == INSTANCE LocalStack WITH
    Pids <- {"p1", "p2"}, Starts <- {}, Runs <- {"r1"}, Stops <- {"k1"},
    Count <- 2, MaxLives <- 1, MaxDeaths <- 1, NoPid <- "none",
    proc <- s1, file <- s2, inv <- s3, thr <- s4, mu <- s5, deaths <- s6
ASSUME Trim!StackAssumption
TrimInit == focus = "trim" /\ Trim!StackInit /\ Idle6
TrimNext ==
    /\ focus = "trim" /\ Trim!StackNext
    /\ UNCHANGED <<focus, s7, s8, s9, s10, s11, s12, s13, s14, s15, s16, s17>>

\* A stack start with two workers, whose threads register at once, and a
\* stack stop.
Fleet == INSTANCE LocalStack WITH
    Pids <- {"p1", "p2", "p3"}, Starts <- {"s1"}, Runs <- {}, Stops <- {"k1"},
    Count <- 2, MaxLives <- 1, MaxDeaths <- 0, NoPid <- "none",
    proc <- s1, file <- s2, inv <- s3, thr <- s4, mu <- s5, deaths <- s6
ASSUME Fleet!StackAssumption
FleetInit == focus = "fleet" /\ Fleet!StackInit /\ Idle6
FleetNext ==
    /\ focus = "fleet" /\ Fleet!StackNext
    /\ UNCHANGED <<focus, s7, s8, s9, s10, s11, s12, s13, s14, s15, s16, s17>>

\* Databases of the releases at which a script changes more than a column.
Schema == INSTANCE Migration WITH
    Bases <- {0, 3, 4, 6, 7, 8, 9, 10, 11, 12, 16, 17, 27, 30, 34, 36},
    MaxCrashes <- 2,
    have <- s1, data <- s2, recorded <- s3, phase <- s4, applied <- s5,
    at <- s6, crashes <- s7
ASSUME Schema!MigrationAssumption
SchemaInit == focus = "migration" /\ Schema!MigrationInit /\ Idle7
SchemaNext ==
    /\ focus = "migration" /\ Schema!MigrationNext
    /\ UNCHANGED <<focus, s8, s9, s10, s11, s12, s13, s14, s15, s16, s17>>

-----------------------------------------------------------------------------
Init ==
    \/ CommitInit \/ RegInit \/ OrderInit \/ MaintainInit \/ IceInit
    \/ LeaderInit \/ StreamsInit \/ RemoteInit \/ IdentityInit \/ LimitsInit
    \/ ApiInit \/ SealInit \/ StackInit \/ ReuseInit \/ TrimInit
    \/ FleetInit \/ SchemaInit

Next ==
    \/ CommitNext \/ RegNext \/ OrderNext \/ MaintainNext \/ IceNext
    \/ LeaderNext \/ StreamsNext \/ RemoteNext \/ IdentityNext \/ LimitsNext
    \/ ApiNext \/ SealNext \/ StackNext \/ ReuseNext \/ TrimNext
    \/ FleetNext \/ SchemaNext

Spec == Init /\ [][Next]_all

Symmetry == Permutations({x1, x2})

-----------------------------------------------------------------------------

\* Every component keeps the types of its rows, files and processes.
MasterTypesOK ==
    CASE focus = "iceberg" -> Ice!IcebergTypeOK
      [] focus = "registration" -> Reg!RegistrationTypeOK
      [] focus = "commit" -> Commit!TypeOK
      [] focus = "migration" -> Schema!MigrationTypeOK
      [] focus = "leadership" -> Leader!LeadershipTypeOK
      [] focus = "streams" -> Streams!StreamsTypeOK
      [] focus = "remote" -> Remote!RemoteTypeOK
      [] focus = "identity" -> Identity!IdentityTypeOK
      [] focus = "order" -> Order!RegistrationTypeOK
      [] focus = "maintenance" -> Maintain!MaintenanceTypeOK
      [] focus = "fleet" -> Fleet!StackTypeOK
      [] focus = "stack" -> Stack!StackTypeOK
      [] focus = "api" -> Api!ApiTypeOK
      [] focus = "reuse" -> Reuse!StackTypeOK
      [] focus = "trim" -> Trim!StackTypeOK
      [] focus = "secrets" -> Seal!SecretsTypeOK
      [] focus = "limits" -> Limits!ApiTypeOK

\* A SUCCEEDED run is durable, one committer works on a run while claims do not
\* lapse, and no pass takes the state that another pass of its run wrote for a
\* conflict (internal/grpc/commit_run.go, commit_coordination.go).
SuccessIsDurable ==
    focus = "commit" =>
        Commit!SuccessIsDurable /\ Commit!OneCommitter /\ Commit!OwnStateIsNoConflict

\* What is over and what is published stands, whatever passes are late
\* (internal/grpc/commit_run.go, internal/db/commit_reconciliation.go).
PublicationStands == [][focus = "commit" => Commit!PublicationStands]_all

\* The data of a run enters the Iceberg table at most once, whatever is retried,
\* reconciled, replayed or left in flight (internal/icebergreg/manager.go).
CommittedOnce ==
    /\ focus = "registration" => Reg!CommittedOnce
    /\ focus = "order" => Order!CommittedOnce

\* What the registration rows say of the catalog is so: runs enter it in commit
\* order, a REGISTERED run can be queried, and a receipt once stored is true,
\* stays, and ends the sending of commits (internal/icebergreg/dataset_state.go,
\* internal/db/registrations.go).
CatalogIsHonest ==
    /\ [](/\ focus = "registration" => Reg!RegisteredIsQueryable
          /\ focus = "order" => Order!CatalogInOrder /\ Order!RegisteredIsQueryable)
    /\ [][/\ focus = "registration" => Reg!ReceiptForbidsReplay
          /\ focus = "order" => Order!ReceiptForbidsReplay]_all

\* Every file of the table can be read: orphan cleanup deletes none that a
\* snapshot references, and neither partition nor schema evolution leaves one
\* behind that the table's metadata misdescribes (internal/icebergreg).
TableFilesReadable ==
    /\ focus = "maintenance" => Maintain!ReferencedFilesExist
    /\ focus = "iceberg" => Ice!FilesStayReadable

\* The rows readers see change only as the committed run says, by append, upsert
\* or full refresh, and not at all by a compaction (restgo.go, upsert.go,
\* cmd/worker/compact.go).
RowsFollowRuns ==
    [][/\ focus = "iceberg" => Ice!RowsFollowRuns
       /\ focus = "maintenance" => Maintain!CompactionKeepsRows]_all

\* Writes reach the fenced tables epoch after epoch, repairs before service
\* (internal/db/leadership.go).
WritesInOrder == [][focus = "leadership" => Leader!WriteInOrder]_all

\* A replay joins its live stream without a gap, the tail of the master log
\* skips and repeats nothing, and the viewers are counted right (sse.go, logs.go).
StreamsLoseNothing ==
    focus = "streams" =>
        Streams!RunStreamHasNoGap /\ Streams!LogTailIsComplete /\ Streams!LogViewersCounted

\* A remote command runs where its credential was stored for, its deployment
\* shows its outcome, and a deleted server leaves no row (internal/ops,
\* internal/db/controlpanel.go).
RemoteRowsAreTrue ==
    focus = "remote" =>
        /\ Remote!RunsOnPinnedHost
        /\ Remote!DeletedServerLeavesNothing
        /\ Remote!DeploymentFollowsCommand

\* Access is what was issued and is still in force: tokens enroll as many workers
\* as they allow, remote_ops comes from the command line, and neither a revoked
\* identity, the anonymous API nor a drained budget comes back
\* (internal/db/worker_identity.go, internal/http/authn.go, internal/ratelimit).
AccessIsInForce ==
    /\ [](/\ focus = "identity" => Identity!TokenUsesCounted /\ Identity!OneIdentityPerWorker
          /\ focus = "api" => Api!RemoteOpsFromCommandLine)
    /\ [][/\ focus = "identity" => Identity!RevokedIsPermanent
          /\ focus = "api" => Api!ApiNeverReopens
          /\ focus = "limits" => Limits!ForgetsTheFullest]_all

\* The secrets of a database are under one key, and a serving master opens them
\* all (internal/db/key_rotation.go, secret_migration.go).
SecretsOpen ==
    focus = "secrets" => Seal!ServingMasterOpensAll /\ Seal!OneKeyAtATime

\* The daemons of the local stack are those the state file and the running
\* commands account for (internal/orabbitcli: main.go, supervisor.go,
\* localstate.go).
StackIsAccountedFor ==
    /\ focus = "stack" =>
         Stack!DaemonsEndWithStart /\ Stack!RegisteredIsListed /\ Stack!StoppedIsGone
    /\ focus = "reuse" => Reuse!DaemonsEndWithStart /\ Reuse!StoppedIsGone
    /\ focus = "trim" => Trim!StoppedIsGone
    /\ focus = "fleet" =>
         Fleet!DaemonsEndWithStart /\ Fleet!RegisteredIsListed /\ Fleet!StoppedIsGone

\* A database that comes up is the current one, whatever release it came from
\* and wherever its migration was stopped, and no stop loses the artifact rows
\* (internal/db/migrate.go).
MigrationIsSafe ==
    /\ [](focus = "migration" => Schema!UpMeansCurrent)
    /\ [][focus = "migration" => Schema!ArtifactRowsKept /\ Schema!MigratedStaysMigrated]_all
=============================================================================
