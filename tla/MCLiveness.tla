----------------------------- MODULE MCLiveness -----------------------------
(***************************************************************************)
(* What must eventually happen, checked by TLC one component at a time: a  *)
(* behaviour runs the component that focus names, under the fairness its   *)
(* own module states.  The components share no state here, so their        *)
(* variables share the slots.                                              *)
(***************************************************************************)
EXTENDS Naturals, Sequences

CONSTANT NoOne   \* no request and no row

VARIABLES
    focus,   \* the component whose behaviour this is
    s1, s2, s3, s4, s5, s6, s7, s8, s9, s10, s11, s12, s13, s14, s15, s16, s17   \* its variables, in their order

all == <<focus,
         s1, s2, s3, s4, s5, s6, s7, s8, s9, s10, s11, s12, s13, s14, s15,
         s16, s17>>

\* The slots after the n-th hold nothing.
Idle16 == s17 = 0
Idle15 == s16 = 0 /\ Idle16
Idle14 == s15 = 0 /\ Idle15
Idle13 == s14 = 0 /\ Idle14
Idle12 == s13 = 0 /\ Idle13
Idle11 == s12 = 0 /\ Idle12
Idle10 == s11 = 0 /\ Idle11
Idle9 == s10 = 0 /\ Idle10
Idle8 == s9 = 0 /\ Idle9
Idle7 == s8 = 0 /\ Idle8
Idle6 == s7 = 0 /\ Idle7

-----------------------------------------------------------------------------
\* Two runs, the second with the lower mark, and failures enough to exhaust
\* one.
Commit == INSTANCE RunCommit WITH
    Runs <- {1, 2}, Mark <- <<2, 1>>, Committers <- {"c1", "c2"},
    MaxAttempts <- 2, MaxFaults <- 3, MaxLapses <- 0,
    status <- s1, intent <- s2, phase <- s3, tries <- s4, waiting <- s5,
    claim <- s6, claimLive <- s7, mirror <- s8, manifest <- s9, state <- s10,
    step <- s11, target <- s12, seen <- s13, plan <- s14, cause <- s15,
    faults <- s16, lapses <- s17
ASSUME Commit!CommitAssumption
CommitInit == focus = "commit" /\ Commit!Init
CommitNext == focus = "commit" /\ Commit!Next /\ UNCHANGED <<focus>>

\* One run and two committers, whose claim may lapse while they work.
Contend == INSTANCE RunCommit WITH
    Runs <- {1}, Mark <- <<1>>, Committers <- {"c1", "c2"}, MaxAttempts <- 2,
    MaxFaults <- 2, MaxLapses <- 1,
    status <- s1, intent <- s2, phase <- s3, tries <- s4, waiting <- s5,
    claim <- s6, claimLive <- s7, mirror <- s8, manifest <- s9, state <- s10,
    step <- s11, target <- s12, seen <- s13, plan <- s14, cause <- s15,
    faults <- s16, lapses <- s17
ASSUME Contend!CommitAssumption
ContendInit == focus = "contention" /\ Contend!Init
ContendNext == focus = "contention" /\ Contend!Next /\ UNCHANGED <<focus>>

\* Two runs of a dataset, the second without rows.
Reg == INSTANCE Registration WITH
    Runs <- {"r1", "r2"}, NoRun <- "none", EmptyRuns <- {"r2"},
    Executors <- {"x1"}, MaxAttempts <- 2, MaxObservations <- 2,
    MaxAmbiguities <- 1, MaxFaults <- 1, MaxLapses <- 1, MaxCommands <- 0,
    run <- s1, part <- s2, lastRun <- s3, reg <- s4, att <- s5, obs <- s6,
    exec <- s7, cat <- s8, sent <- s9, ice <- s10, faults <- s11,
    lapses <- s12, commands <- s13
ASSUME Reg!RegistrationConstants
RegInit == focus = "registration" /\ Reg!Init /\ Idle13
RegNext ==
    /\ focus = "registration" /\ Reg!Next
    /\ UNCHANGED <<focus, s14, s15, s16, s17>>

\* Two masters on one database.
Leader == INSTANCE MasterLeadership WITH
    Masters <- {"m1", "m2"}, RecoverySteps <- 1, MaxStarts <- 1,
    MaxLeaseFaults <- 1,
    flockWorks <- s1, flock <- s2, lead <- s3, proc <- s4, written <- s5,
    starts <- s6, leaseFaults <- s7
LeaderInit == focus = "leadership" /\ Leader!Init /\ Idle7
LeaderNext ==
    /\ focus = "leadership" /\ Leader!Next
    /\ UNCHANGED <<focus, s8, s9, s10, s11, s12, s13, s14, s15, s16, s17>>

\* A deployment whose host may never answer.
Remote == INSTANCE RemoteOperations WITH
    Ops <- {"o1"}, Deploys <- {"o1"}, Hosts <- {"h1"}, MaxPatches <- 1,
    MaxChunks <- 1, TailLimit <- 1, MaxFaults <- 1,
    server <- s1, cred <- s2, patch <- s3, patches <- s4, born <- s5,
    op <- s6, exec <- s7, dep <- s8, faults <- s9
ASSUME Remote!RemoteAssumption
RemoteInit == focus = "remote" /\ Remote!RemoteInit /\ Idle9
RemoteNext ==
    /\ focus = "remote" /\ Remote!RemoteNext
    /\ UNCHANGED <<focus, s10, s11, s12, s13, s14, s15, s16, s17>>

\* Two requests for one dataset.
Submit == INSTANCE RunSubmission WITH
    Requests <- {"q1", "q2"}, Sources <- {"s1", "s2"}, Datasets <- {"d1"},
    NoOne <- NoOne,
    pc <- s1, req <- s2, mine <- s3, mutex <- s4, job <- s5, conn <- s6,
    edited <- s7, run <- s8
ASSUME Submit!SubmissionAssumption
SubmitInit == focus = "submission" /\ Submit!SubmissionInit /\ Idle8
SubmitNext ==
    /\ focus = "submission" /\ Submit!SubmissionNext
    /\ UNCHANGED <<focus, s9, s10, s11, s12, s13, s14, s15, s16, s17>>

\* Two attempts and one failure.
Task == INSTANCE WorkerTask WITH
    MaxTasks <- 2, MaxFiles <- 1, MaxFaults <- 1,
    pc <- s1, task <- s2, attempt <- s3, due <- s4, leased <- s5, lost <- s6,
    files <- s7, slot <- s8, err <- s9, workspace <- s10, low <- s11,
    stop <- s12, faults <- s13
ASSUME Task!BoundsAssumption
TaskInit == focus = "task" /\ Task!Init /\ Idle13
TaskNext ==
    /\ focus = "task" /\ Task!Next
    /\ UNCHANGED <<focus, s14, s15, s16, s17>>

\* Two attempts want the one upload slot.
Slots == INSTANCE UploadCapacity WITH
    Attempts <- {"a1", "a2"}, Limit <- 1, MaxFaults <- 1,
    owned <- s1, row <- s2, wk <- s3, grant <- s4, answer <- s5, known <- s6,
    call <- s7, late <- s8, faults <- s9
ASSUME Slots!CapacityConstants
SlotsInit == focus = "capacity" /\ Slots!Init /\ Idle9
SlotsNext ==
    /\ focus = "capacity" /\ Slots!Next
    /\ UNCHANGED <<focus, s10, s11, s12, s13, s14, s15, s16, s17>>

\* Two attempts of a task, one of which may be lost.
Upload == INSTANCE TaskUpload WITH
    MaxAttempts <- 2, MaxCleanups <- 1, MaxFaults <- 1,
    run <- s1, att <- s2, task <- s3, pc <- s4, row <- s5, artifact <- s6,
    obj <- s7, open <- s8, cleaner <- s9, cand <- s10, sweeper <- s11,
    dryRun <- s12, checksums <- s13, faults <- s14
ASSUME Upload!UploadConstants
UploadInit == focus = "upload" /\ Upload!Init /\ Idle14
UploadNext ==
    /\ focus = "upload" /\ Upload!Next
    /\ UNCHANGED <<focus, s15, s16, s17>>

\* A workspace and a crash.
Space == INSTANCE WorkerWorkspace WITH
    Attempts <- {"a1"}, Large <- {}, MaxCrashes <- 1,
    parent <- s1, dir <- s2, work <- s3, scan <- s4, removing <- s5,
    crashes <- s6
ASSUME Space!WorkspaceConstants
SpaceInit == focus = "workspace" /\ Space!Init /\ Idle6
SpaceNext ==
    /\ focus = "workspace" /\ Space!Next
    /\ UNCHANGED <<focus, s7, s8, s9, s10, s11, s12, s13, s14, s15, s16, s17>>

-----------------------------------------------------------------------------
Init ==
    \/ CommitInit \/ ContendInit \/ RegInit \/ LeaderInit \/ RemoteInit
    \/ SubmitInit \/ TaskInit \/ SlotsInit \/ UploadInit \/ SpaceInit

Next ==
    \/ CommitNext \/ ContendNext \/ RegNext \/ LeaderNext \/ RemoteNext
    \/ SubmitNext \/ TaskNext \/ SlotsNext \/ UploadNext \/ SpaceNext

(* The fairness of each module, in behaviours of that module. *)
CommitRest == focus = "commit" /\ UNCHANGED <<focus>>
CommitFairness ==
    /\ \A r \in {1, 2} :
        /\ WF_all(CommitRest /\ Commit!BackoffOver(r))
        /\ WF_all(CommitRest /\ Commit!DeadClaimLapses(r))
        /\ WF_all(CommitRest /\ Commit!SomeoneClaims(r))
    /\ \A c \in {"c1", "c2"} :
        /\ WF_all(CommitRest /\ Commit!Pass(c))

ContendRest == focus = "contention" /\ UNCHANGED <<focus>>
ContendFairness ==
    /\ WF_all(ContendRest /\ Contend!BackoffOver(1))
    /\ WF_all(ContendRest /\ Contend!DeadClaimLapses(1))
    /\ WF_all(ContendRest /\ Contend!SomeoneClaims(1))
    /\ \A c \in {"c1", "c2"} :
        /\ WF_all(ContendRest /\ Contend!Pass(c))

RegRest == focus = "registration" /\ UNCHANGED <<focus, s14, s15, s16, s17>>
RegFairness ==
    /\ WF_all(RegRest /\ Reg!Step("x1")) /\ WF_all(RegRest /\ Reg!Claim("x1"))
    /\ WF_all(RegRest /\ Reg!Expire) /\ WF_all(RegRest /\ Reg!SomeCommitApplies)

LeaderRest ==
    focus = "leadership" /\ UNCHANGED <<focus, s8, s9, s10, s11, s12, s13, s14, s15, s16, s17>>
LeaderFairness ==
    /\ \A p \in {"m1", "m2"} :
        /\ WF_all(LeaderRest /\ Leader!Recover(p))
        /\ WF_all(LeaderRest /\ Leader!SetReady(p))
        /\ WF_all(LeaderRest /\ Leader!Write(p))
        /\ WF_all(LeaderRest /\ Leader!ShutdownWhenDone(p))
        /\ WF_all(LeaderRest /\ Leader!StopController(p))

RemoteRest ==
    focus = "remote" /\ UNCHANGED <<focus, s10, s11, s12, s13, s14, s15, s16, s17>>
RemoteFairness ==
    /\ WF_all(RemoteRest /\ Remote!ExecuteCommand("o1"))
    /\ WF_all(RemoteRest /\ Remote!CommandTimesOut("o1"))
    /\ WF_all(RemoteRest /\ Remote!UpdateCommandExecutionStatus("o1"))
    /\ WF_all(RemoteRest /\ Remote!MarkCommandExecutionCompleted("o1"))
    /\ WF_all(RemoteRest /\ Remote!UpdateDeploymentStatus("o1"))

SubmitRest ==
    focus = "submission" /\ UNCHANGED <<focus, s9, s10, s11, s12, s13, s14, s15, s16, s17>>
SubmitFairness ==
    /\ \A r \in {"q1", "q2"} :
        /\ WF_all(SubmitRest /\ Submit!HandlerStep(r))

TaskRest == focus = "task" /\ UNCHANGED <<focus, s14, s15, s16, s17>>
TaskFairness ==
    /\ WF_all(TaskRest /\ Task!BodyStep)
    /\ WF_all(TaskRest /\ Task!ExpireTaskAttempts)
    /\ \A t \in 1 .. 2 :
        /\ WF_all(TaskRest /\ Task!UnrenewedLeaseDue(t))

SlotsRest ==
    focus = "capacity" /\ UNCHANGED <<focus, s10, s11, s12, s13, s14, s15, s16, s17>>
SlotsFairness ==
    /\ \A a \in {"a1", "a2"} :
        /\ WF_all(SlotsRest /\ Slots!Ask(a))
        /\ WF_all(SlotsRest /\ Slots!AnswerCall(a))
        /\ WF_all(SlotsRest /\ Slots!AnswerLateCall(a))
        /\ WF_all(SlotsRest /\ Slots!WorkerStep(a))
        /\ WF_all(SlotsRest /\ Slots!UploadsDone(a))
        /\ WF_all(SlotsRest /\ Slots!RowDeadlinePasses(a))

UploadRest == focus = "upload" /\ UNCHANGED <<focus, s15, s16, s17>>
UploadFairness ==
    /\ \A a \in 1 .. 2 :
        /\ WF_all(UploadRest /\ Upload!WorkerStep(a))
        /\ WF_all(UploadRest /\ Upload!LapsesWhenGone(a))
        /\ WF_all(UploadRest /\ Upload!ExpireTaskAttempt(a))
        /\ WF_all(UploadRest /\ Upload!ClaimMultipartCleanup(a))
        /\ WF_all(UploadRest /\ Upload!ClaimCanceledObjectCleanup(a))
    /\ WF_all(UploadRest /\ Upload!CleanerStep)
    /\ WF_all(UploadRest /\ Upload!ExpireMultipartCleanupClaims)
    /\ WF_all(UploadRest /\ Upload!SweeperStep)
    /\ WF_all(UploadRest /\ Upload!ExpireCanceledObjectCleanupAttempts)
    /\ WF_all(UploadRest /\ Upload!DiscoverOrphanedObjects)

SpaceRest ==
    focus = "workspace" /\ UNCHANGED <<focus, s7, s8, s9, s10, s11, s12, s13, s14, s15, s16, s17>>
SpaceFairness ==
    /\ WF_all(SpaceRest /\ Space!WorkerStep) /\ WF_all(SpaceRest /\ Space!ScanStep)
    /\ WF_all(SpaceRest /\ Space!StartScan) /\ WF_all(SpaceRest /\ Space!Ages("a1"))

Spec ==
    /\ Init /\ [][Next]_all
    /\ CommitFairness /\ ContendFairness /\ RegFairness /\ LeaderFairness
    /\ RemoteFairness /\ SubmitFairness /\ TaskFairness /\ SlotsFairness
    /\ UploadFairness /\ SpaceFairness

-----------------------------------------------------------------------------

\* No run stays COMMITTING: it is published or failed in the end, through failures,
\* lapsed claims and restarts (commit_coordination.go, commit_reconciliation.go).
CommitDecided ==
    /\ \A r \in {1, 2} : []<>(focus = "commit" => ~Commit!Committing(r))
    /\ []<>(focus = "contention" => ~Contend!Committing(1))

\* The registration at the head of its queue is decided or waits for an operator:
\* no attempt, observation or lease holds it for ever (registrations.go).
HeadIsDecided ==
    \A r \in {"r1", "r2"} : []<>(focus = "registration" /\ Reg!AtHead(r) => Reg!HeadSettled(r))

\* A master that lost its lease stops (leadership.go, cmd/master/main.go).
DeposedMasterStops ==
    \A p \in {"m1", "m2"} : []<>(focus = "leadership" => ~Leader!Deposed(p))

\* What a caller started through the API ends: no run stays in PLANNING, unless
\* the store refused the write of its failure, and the row of no launched command
\* stays RUNNING (internal/planner, internal/ops).
RequestsEnd ==
    /\ \A r \in {"q1", "q2"} : []<>(focus = "submission" => ~Submit!InPlanning(r))
    /\ []<>(focus = "remote" => ~Remote!ShownRunning("o1"))

\* Every attempt is settled, by a report or by its lease running out, and no
\* upload waits for capacity for ever (task_execution.go, internal/db/attempts.go,
\* internal/db/upload_capacity.go).
AttemptSettles ==
    /\ \A t \in 1 .. 2 : []<>(focus = "task" => ~Task!Open(t))
    /\ \A a \in {"a1", "a2"} : []<>(focus = "capacity" => ~Slots!Waiting(a))

\* What attempts leave behind goes: open uploads, objects nobody refers to, and
\* the workspaces of workers that died (multipart.go, canceled_objects.go,
\* internal/workerworkspace).
CleanupSettles ==
    /\ \A a \in 1 .. 2 :
        /\ []<>(focus = "upload" /\ Upload!RowOpen(a) => Upload!RowSettled(a))
        /\ []<>(focus = "upload" => ~Upload!Undecided(a))
    /\ []<>(focus = "workspace" => ~Space!LeftBehind("a1"))
=============================================================================
