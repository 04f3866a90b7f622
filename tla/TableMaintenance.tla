-------------------------- MODULE TableMaintenance --------------------------
(***************************************************************************)
(* Maintenance of a job's Iceberg table: orphan cleanup and compaction     *)
(* (grpc/maintenance.go, db/maintenance.go, icebergreg/maintenance.go),    *)
(* beside the exports and registrations that go on changing the table.     *)
(*                                                                         *)
(* Run k writes file k; the copy-on-write of an upsert writes file         *)
(* MaxRuns + k.  A file holds a set of rows, each row named by the run     *)
(* that first exported it.  The first two runs are already registered.     *)
(* Export and registration are modules RunLifecycle, RunCommit and         *)
(* Registration; here they are single steps.                               *)
(***************************************************************************)
EXTENDS Naturals, FiniteSets, Sequences

CONSTANTS
    MaxRuns,        \* bound: runs, the two registered ones included
    MaxExports,     \* bound: how many of them may be exports
    MaxOps,         \* bound: maintenance operations submitted
    MaxFaults,      \* bound: lapsed leases, failing calls, stops
    Holders,        \* masters that process operations: a deposed one and its successor
    RecheckEvery    \* candidates between two looks at the table (100 in the code)

MaintenanceConstants ==
    /\ MaxExports \in Nat /\ MaxExports >= 2
    /\ MaxOps \in Nat /\ MaxFaults \in Nat
    /\ MaxRuns \in Nat /\ MaxRuns >= MaxExports + MaxOps + MaxFaults
    /\ RecheckEvery \in Nat \ {0}

VARIABLES
    runs,       \* run -> [kind, status, reg, inputs]
    content,    \* file -> its rows
    store,      \* the objects under the table location
    table,      \* [ver, snaps]: metadata version; retained snapshots, the last is current
    op,         \* the job's newest maintenance operation
    hold,       \* holder -> where its pass is
    commit,     \* the commit of the compaction run: [step, run, ver, files, tries]
    ops, faults

vars == <<runs, content, store, table, op, hold, commit, ops, faults>>

Runs == 1 .. MaxRuns
Files == 1 .. 2 * MaxRuns
NoRun == 0

ActiveOp == {"PENDING", "RUNNING", "SUBMITTED"}
ActiveRun == {"PLANNING", "RUNNING", "COMMITTING"}

Current == table.snaps[Len(table.snaps)].files
Referenced == UNION {table.snaps[i].files : i \in 1 .. Len(table.snaps)}
DatasetActive == \E k \in Runs : runs[k].status \in ActiveRun

IdleHold == [step |-> "idle", token |-> 0, ver |-> 0, refs |-> {}, todo |-> {}, i |-> 0,
             failed |-> FALSE, run |-> NoRun]
IdleCommit == [step |-> "idle", run |-> NoRun, ver |-> 0, files |-> {}, tries |-> 0]
NoOp == [kind |-> "ORPHAN_CLEANUP", status |-> "NONE", token |-> 0, live |-> FALSE,
         run |-> NoRun, inputs |-> {}]

Init ==
    /\ runs = [k \in Runs |->
                 IF k <= 2 THEN [kind |-> "export", status |-> "SUCCEEDED", reg |-> "REGISTERED",
                                  inputs |-> {}]
                 ELSE [kind |-> "export", status |-> "NONE", reg |-> "", inputs |-> {}]]
    /\ content = [f \in Files |-> IF f <= 2 THEN {f} ELSE {}]
    /\ store = {1, 2}
    /\ table = [ver |-> 0, snaps |-> <<[files |-> {1, 2}, stamp |-> NoRun]>>]
    /\ op = NoOp
    /\ hold = [h \in Holders |-> IdleHold]
    /\ commit = IdleCommit
    /\ ops = 0
    /\ faults = 0

Fault == faults < MaxFaults /\ faults' = faults + 1

NewSnapshot(files, stamp) ==
    table' = [ver |-> table.ver + 1,
              snaps |-> Append(table.snaps, [files |-> files, stamp |-> stamp])]

-----------------------------------------------------------------------------
(* What else changes the table *)

NextRun(k) == runs[k].status = "NONE" /\ \A j \in 1 .. (k - 1) : runs[j].status # "NONE"

StartExport(k) ==
    /\ NextRun(k) /\ ~DatasetActive
    /\ Cardinality({j \in 1 .. (k - 1) : runs[j].kind = "export"}) < MaxExports
    /\ runs' = [runs EXCEPT ![k].status = "RUNNING"]
    /\ UNCHANGED <<content, store, table, op, hold, commit, ops, faults>>

FinishExport(k) ==
    /\ runs[k].kind = "export" /\ runs[k].status = "RUNNING"
    /\ content' = [content EXCEPT ![k] = {k}]
    /\ store' = store \cup {k}
    /\ \E outcome \in {<<"SUCCEEDED", "PENDING">>, <<"SUCCEEDED", "">>,
                       <<"FAILED", "">>, <<"CANCELED", "">>} :
         runs' = [runs EXCEPT ![k].status = outcome[1], ![k].reg = outcome[2]]
    /\ UNCHANGED <<table, op, hold, commit, ops, faults>>

\* The registration appends the file, replaces the whole table by it, or takes
\* a row out of one file by rewriting that file (copy-on-write).
Register(k) ==
    /\ runs[k].reg = "PENDING"
    /\ runs' = [runs EXCEPT ![k].reg = "REGISTERED"]
    /\ \/ /\ \E files \in {Current \cup {k}, {k}} : NewSnapshot(files, NoRun)
          /\ UNCHANGED <<content, store>>
       \/ \E f \in Current : \E row \in content[f] :
            /\ content' = [content EXCEPT ![MaxRuns + k] = content[f] \ {row}]
            /\ store' = store \cup {MaxRuns + k}
            /\ NewSnapshot((Current \ {f}) \cup {k, MaxRuns + k}, NoRun)
    /\ UNCHANGED <<op, hold, commit, ops, faults>>

\* A registration that failed can be requeued by hand.
RegistrationFails(k) ==
    /\ \/ runs[k].reg = "PENDING" /\ Fault /\ runs' = [runs EXCEPT ![k].reg = "FAILED"]
       \/ runs[k].reg = "FAILED" /\ runs' = [runs EXCEPT ![k].reg = "PENDING"] /\ UNCHANGED faults
    /\ UNCHANGED <<content, store, table, op, hold, commit, ops>>

\* Done by whoever owns the catalog; the code never expires snapshots.
ExpireSnapshot ==
    /\ Len(table.snaps) > 1
    /\ table' = [ver |-> table.ver + 1, snaps |-> Tail(table.snaps)]
    /\ UNCHANGED <<runs, content, store, op, hold, commit, ops, faults>>

-----------------------------------------------------------------------------
(* The operation's record and lease *)

CreateMaintenanceOperation(kind) ==
    /\ ops < MaxOps /\ ops' = ops + 1
    /\ op.status \notin ActiveOp
    /\ op' = [NoOp EXCEPT !.kind = kind, !.status = "PENDING", !.token = op.token]
    /\ UNCHANGED <<runs, content, store, table, hold, commit, faults>>

\* Tokens are random; a counter gives each claim one of its own.
ClaimMaintenanceOperation(h) ==
    /\ hold[h].step = "idle"
    /\ op.status = "PENDING" \/ (op.status = "RUNNING" /\ ~op.live)
    /\ op' = [op EXCEPT !.status = "RUNNING", !.token = @ + 1, !.live = TRUE]
    /\ hold' = [hold EXCEPT ![h] = [IdleHold EXCEPT !.token = op.token + 1,
                  !.step = IF op.kind = "COMPACTION" THEN "follow" ELSE "refs"]]
    /\ UNCHANGED <<runs, content, store, table, commit, ops, faults>>

\* The holder stopped, or it is slow or cut off and does not know.
MaintenanceLeaseLapses ==
    /\ op.status = "RUNNING" /\ op.live
    /\ Fault
    /\ op' = [op EXCEPT !.live = FALSE]
    /\ UNCHANGED <<runs, content, store, table, hold, commit, ops>>

HolderStops(h) ==
    /\ hold[h].step # "idle"
    /\ Fault
    /\ hold' = [hold EXCEPT ![h] = IdleHold]
    /\ op' = IF hold[h].token = op.token THEN [op EXCEPT !.live = FALSE] ELSE op
    /\ UNCHANGED <<runs, content, store, table, commit, ops>>

Holds(h) == op.status = "RUNNING" /\ op.token = hold[h].token
HoldsLease(h) == Holds(h) /\ op.live

\* FinishMaintenanceOperation checks the token only; fenced, nothing changes.
Finish(h, status) ==
    /\ op' = IF Holds(h) THEN [op EXCEPT !.status = status, !.live = FALSE] ELSE op
    /\ hold' = [hold EXCEPT ![h] = IdleHold]

GoOn(h, step) == hold' = [hold EXCEPT ![h].step = step]
GiveUp(h) == hold' = [hold EXCEPT ![h] = IdleHold]

-----------------------------------------------------------------------------
(* runOrphanCleanup *)

TableReferences(h) ==
    /\ hold[h].step = "refs"
    /\ hold' = [hold EXCEPT ![h].step = "list", ![h].refs = Referenced, ![h].ver = table.ver]
    /\ UNCHANGED <<runs, content, store, table, op, commit, ops, faults>>

\* maintenanceRunState: REGISTERED and FAILED runs need their files no more.
RunDone(k) ==
    \/ runs[k].status = "FAILED"
    \/ runs[k].status = "SUCCEEDED" /\ (runs[k].kind = "compaction" \/ runs[k].reg = "REGISTERED")

\* ClassifyOrphans, but for the age.
Unneeded(h) == {f \in store \ hold[h].refs : f \in Runs => RunDone(f)}

\* The listing and RecordMaintenancePlan.  What is younger than the minimum age
\* is kept, and in a dry run everything is.
ListAndClassify(h) ==
    /\ hold[h].step = "list"
    /\ \E kept \in SUBSET Unneeded(h) :
         LET orphans == Unneeded(h) \ kept
         IN  IF ~HoldsLease(h) THEN GiveUp(h) /\ UNCHANGED op
             ELSE IF orphans = {} THEN Finish(h, "SUCCEEDED")
             ELSE /\ hold' = [hold EXCEPT ![h].step = "busy", ![h].todo = orphans]
                  /\ UNCHANGED op
    /\ UNCHANGED <<runs, content, store, table, commit, ops, faults>>

\* datasetBusy
CheckBusy(h) ==
    /\ hold[h].step = "busy"
    /\ IF DatasetActive \/ \E k \in Runs : runs[k].reg = "PENDING"
       THEN Finish(h, "ABORTED")
       ELSE GoOn(h, "unchanged") /\ UNCHANGED op
    /\ UNCHANGED <<runs, content, store, table, commit, ops, faults>>

CheckUnchanged(h) ==
    /\ hold[h].step = "unchanged"
    /\ IF table.ver # hold[h].ver
       THEN Finish(h, "ABORTED")
       ELSE GoOn(h, "delete") /\ UNCHANGED op
    /\ UNCHANGED <<runs, content, store, table, commit, ops, faults>>

\* The top of the delete loop: renew the lease, now and then look at the table.
\* A pass that could not delete all of its orphans ends FAILED.
RenewMaintenanceLease(h) ==
    /\ hold[h].step = "delete"
    /\ IF hold[h].todo = {} THEN Finish(h, IF hold[h].failed THEN "FAILED" ELSE "SUCCEEDED")
       ELSE IF ~HoldsLease(h) THEN GiveUp(h) /\ UNCHANGED op
       ELSE IF /\ hold[h].i > 0 /\ hold[h].i % RecheckEvery = 0
               /\ table.ver # hold[h].ver
            THEN Finish(h, "ABORTED")
       ELSE GoOn(h, "remove") /\ UNCHANGED op
    /\ UNCHANGED <<runs, content, store, table, commit, ops, faults>>

\* deleteOrphan and SetMaintenanceCandidateStatus.
DeleteOrphan(h) ==
    /\ hold[h].step = "remove"
    /\ \E f \in hold[h].todo, failed \in BOOLEAN :
        /\ \/ ~failed /\ store' = store \ {f} /\ UNCHANGED faults
           \/ failed /\ UNCHANGED store /\ Fault
        /\ hold' = [hold EXCEPT ![h] =
                      IF HoldsLease(h)
                      THEN [hold[h] EXCEPT !.step = "delete", !.todo = @ \ {f}, !.i = @ + 1,
                                           !.failed = @ \/ failed]
                      ELSE IdleHold]
    /\ UNCHANGED <<runs, content, table, op, commit, ops>>

-----------------------------------------------------------------------------
(* planCompaction and startCompactionRun *)

\* An earlier holder's run is followed, not planned again.
FollowRun(h) ==
    /\ hold[h].step = "follow"
    /\ GoOn(h, IF op.run = NoRun THEN "plan"
               ELSE IF runs[op.run].status \in ActiveRun THEN "submit"
               ELSE IF runs[op.run].status = "SUCCEEDED" THEN "followed"
               ELSE "plan")
    /\ UNCHANGED <<runs, content, store, table, op, commit, ops, faults>>

FollowedRunSucceeded(h) ==
    /\ hold[h].step = "followed"
    /\ Finish(h, "SUCCEEDED")
    /\ UNCHANGED <<runs, content, store, table, commit, ops, faults>>

\* PlanCompaction takes small files that runs wrote, at least two, from the
\* current snapshot; which ones depends on sizes, partitions and options.
PlanCompaction(h) ==
    /\ hold[h].step = "plan"
    /\ \/ Finish(h, "SUCCEEDED")
       \/ \E inputs \in SUBSET (Current \cap Runs) :
            /\ Cardinality(inputs) >= 2
            /\ IF HoldsLease(h)
               THEN op' = [op EXCEPT !.inputs = inputs] /\ GoOn(h, "create")
               ELSE GiveUp(h) /\ UNCHANGED op
    /\ UNCHANGED <<runs, content, store, table, commit, ops, faults>>

\* The unique index on a dataset's active run.  A holder that was replaced is a
\* deposed master, whose writes to runs the leadership fence refuses.
CreateCompactionRun(h) ==
    /\ hold[h].step = "create"
    /\ IF ~Holds(h) THEN GiveUp(h) /\ UNCHANGED <<op, runs>>
       ELSE IF DatasetActive THEN Finish(h, "ABORTED") /\ UNCHANGED runs
       ELSE \E k \in Runs :
              /\ NextRun(k)
              /\ runs' = [runs EXCEPT ![k] = [kind |-> "compaction", status |-> "PLANNING",
                                              reg |-> "", inputs |-> op.inputs]]
              /\ hold' = [hold EXCEPT ![h].step = "link", ![h].run = k]
              /\ UNCHANGED op
    /\ UNCHANGED <<content, store, table, commit, ops, faults>>

SetMaintenanceRunID(h) ==
    /\ hold[h].step = "link"
    /\ IF HoldsLease(h)
       THEN op' = [op EXCEPT !.run = hold[h].run] /\ GoOn(h, "start") /\ UNCHANGED runs
       ELSE /\ GiveUp(h) /\ UNCHANGED op
            /\ runs' = [runs EXCEPT ![hold[h].run].status = "FAILED"]
    /\ UNCHANGED <<content, store, table, commit, ops, faults>>

StartRunWithTasks(h) ==
    /\ hold[h].step = "start"
    /\ IF runs[hold[h].run].status = "PLANNING"
       THEN /\ runs' = [runs EXCEPT ![hold[h].run].status = "RUNNING"]
            /\ GoOn(h, "submit") /\ UNCHANGED op
       ELSE Finish(h, "FAILED") /\ UNCHANGED runs
    /\ UNCHANGED <<content, store, table, commit, ops, faults>>

SubmitCompaction(h) ==
    /\ hold[h].step = "submit"
    /\ Finish(h, "SUBMITTED")
    /\ UNCHANGED <<runs, content, store, table, commit, ops, faults>>

\* A PLANNING run whose planner is gone is failed when a master starts.
FailAbandonedPlanningRun(k) ==
    /\ runs[k].status = "PLANNING"
    /\ \A h \in Holders : hold[h].run # k
    /\ runs' = [runs EXCEPT ![k].status = "FAILED"]
    /\ UNCHANGED <<content, store, table, op, hold, commit, ops, faults>>

\* A catalog or object store call of the pass fails.
MaintenanceFails(h) ==
    /\ hold[h].step \in {"refs", "list", "unchanged", "plan"}
    /\ Fault
    /\ Finish(h, "FAILED")
    /\ UNCHANGED <<runs, content, store, table, commit, ops>>

-----------------------------------------------------------------------------
(* The compaction run and its commit *)

\* compactInputs on the workers: every input must still be there.
CompactInputs(k) ==
    /\ runs[k].kind = "compaction" /\ runs[k].status = "RUNNING"
    /\ \/ /\ runs[k].inputs \subseteq store
          /\ content' = [content EXCEPT ![k] = UNION {content[f] : f \in runs[k].inputs}]
          /\ store' = store \cup {k}
          /\ \E status \in {"COMMITTING", "CANCELED", "FAILED"} :
               runs' = [runs EXCEPT ![k].status = status]
       \/ /\ runs' = [runs EXCEPT ![k].status = "FAILED"]
          /\ ~(runs[k].inputs \subseteq store)
          /\ UNCHANGED <<content, store>>
    /\ UNCHANGED <<table, op, hold, commit, ops, faults>>

RowCount(files) == Cardinality({p \in Files \X Runs : p[1] \in files /\ p[2] \in content[p[1]]})

\* The inputs the commit replaces are read from the operation that names the
\* run, not from the tasks.
CommitInputs(k) == IF op.run = k THEN op.inputs ELSE runs[k].inputs

CompactionCommitted(k) == \E i \in 1 .. Len(table.snaps) : table.snaps[i].stamp = k

\* CompleteCompactionOperation only touches a SUBMITTED operation.
CompleteCompactionOperation(k, status) ==
    op' = IF op.run = k /\ op.status = "SUBMITTED" THEN [op EXCEPT !.status = status] ELSE op

\* The top of CommitCompaction's loop: a stamp means an earlier try landed; a
\* missing input or a wrong row count ends the operation, not to be retried.
LoadForCommit(k) ==
    /\ runs[k].kind = "compaction" /\ runs[k].status = "COMMITTING"
    /\ commit.step = "idle" \/ (commit.step = "load" /\ commit.run = k)
    /\ IF CompactionCommitted(k)
       THEN commit' = [commit EXCEPT !.step = "landed", !.run = k] /\ UNCHANGED op
       ELSE IF /\ CommitInputs(k) \subseteq Current
               /\ RowCount(CommitInputs(k)) = RowCount({k})
       THEN /\ commit' = [commit EXCEPT !.step = "commit", !.run = k,
                                        !.ver = table.ver, !.files = Current]
            /\ UNCHANGED op
       ELSE commit' = [commit EXCEPT !.step = "refused", !.run = k]
            /\ CompleteCompactionOperation(k, "ABORTED")
    /\ UNCHANGED <<runs, content, store, table, hold, ops, faults>>

MaxCommitTries == 3

Again == commit' = IF commit.tries + 1 < MaxCommitTries
                   THEN [commit EXCEPT !.step = "load", !.tries = @ + 1]
                   ELSE IdleCommit

\* The catalog takes the replacement only on the metadata it was computed from.
\* An answer that is lost leads to a reload like a refusal.  After the last try
\* the run stays COMMITTING, for reconciliation to begin again.
CommitTransaction ==
    /\ commit.step = "commit"
    /\ IF commit.ver = table.ver
       THEN /\ NewSnapshot((commit.files \ CommitInputs(commit.run)) \cup {commit.run}, commit.run)
            /\ \/ commit' = [commit EXCEPT !.step = "landed"] /\ UNCHANGED faults
               \/ Again /\ Fault
       ELSE Again /\ UNCHANGED <<table, faults>>
    /\ UNCHANGED <<runs, content, store, op, hold, ops>>

\* SaveCommitIntent, SetCommitPhase, CompleteCompactionOperation.
RecordCompaction ==
    /\ commit.step = "landed"
    /\ CompleteCompactionOperation(commit.run, "SUCCEEDED")
    /\ commit' = [commit EXCEPT !.step = "recorded"]
    /\ UNCHANGED <<runs, content, store, table, hold, ops, faults>>

\* CompleteRunCommit, or the run's failure.
EndCompactionRun ==
    /\ commit.step \in {"recorded", "refused"}
    /\ runs' = [runs EXCEPT ![commit.run].status =
                  IF commit.step = "recorded" THEN "SUCCEEDED" ELSE "FAILED"]
    /\ commit' = IdleCommit
    /\ UNCHANGED <<content, store, table, op, hold, ops, faults>>

CommitStops ==
    /\ commit.step # "idle"
    /\ Fault
    /\ commit' = IdleCommit
    /\ UNCHANGED <<runs, content, store, table, op, hold, ops>>

\* Commit reconciliation runs out of attempts.
CommitExhausted(k) ==
    /\ runs[k].kind = "compaction" /\ runs[k].status = "COMMITTING"
    /\ commit.step = "idle"
    /\ Fault
    /\ runs' = [runs EXCEPT ![k].status = "FAILED"]
    /\ UNCHANGED <<content, store, table, op, hold, commit, ops>>

FailSubmittedCompactions ==
    /\ op.status = "SUBMITTED"
    /\ runs[op.run].status \in {"FAILED", "CANCELED"}
    /\ op' = [op EXCEPT !.status = IF runs[op.run].status = "CANCELED" THEN "ABORTED" ELSE "FAILED"]
    /\ UNCHANGED <<runs, content, store, table, hold, commit, ops, faults>>

-----------------------------------------------------------------------------
Pass(h) ==
    \/ TableReferences(h) \/ ListAndClassify(h) \/ CheckBusy(h) \/ CheckUnchanged(h)
    \/ RenewMaintenanceLease(h) \/ DeleteOrphan(h)
    \/ FollowRun(h) \/ FollowedRunSucceeded(h) \/ PlanCompaction(h) \/ CreateCompactionRun(h)
    \/ SetMaintenanceRunID(h) \/ StartRunWithTasks(h) \/ SubmitCompaction(h)

Commit == CommitTransaction \/ RecordCompaction \/ EndCompactionRun

Next ==
    \/ \E k \in Runs :
        \/ StartExport(k) \/ FinishExport(k) \/ Register(k) \/ RegistrationFails(k)
        \/ FailAbandonedPlanningRun(k) \/ CompactInputs(k) \/ LoadForCommit(k)
        \/ CommitExhausted(k)
    \/ \E h \in Holders :
        \/ ClaimMaintenanceOperation(h) \/ HolderStops(h) \/ Pass(h) \/ MaintenanceFails(h)
    \/ \E kind \in {"ORPHAN_CLEANUP", "COMPACTION"} : CreateMaintenanceOperation(kind)
    \/ ExpireSnapshot \/ MaintenanceLeaseLapses
    \/ Commit \/ CommitStops \/ FailSubmittedCompactions

Spec == Init /\ [][Next]_vars

-----------------------------------------------------------------------------
MaintenanceTypeOK ==
    /\ \A k \in Runs :
        /\ runs[k].status \in ActiveRun \cup {"NONE", "SUCCEEDED", "FAILED", "CANCELED"}
        /\ runs[k].reg \in {"", "PENDING", "FAILED", "REGISTERED"}
    /\ store \subseteq Files
    /\ op.status \in ActiveOp \cup {"NONE", "SUCCEEDED", "FAILED", "ABORTED"}
    /\ op.run \in Runs \cup {NoRun}
    /\ commit.tries \in 0 .. MaxCommitTries - 1

\* Whatever orphan cleanup deletes, and whoever deletes it, every file that a
\* retained snapshot of the table references is in the object store.
ReferencedFilesExist == Referenced \subseteq store

\* A compaction that lands neither loses a row of the table nor doubles one,
\* whatever was committed between its plan and its commit.
CompactionKeepsRows ==
    CommitTransaction /\ table' # table =>
        /\ UNION {content[f] : f \in Current'} = UNION {content[f] : f \in Current}
        /\ RowCount(Current') = RowCount(Current)
====
