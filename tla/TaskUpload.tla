----------------------------- MODULE TaskUpload -----------------------------
(***************************************************************************)
(* How the output file of a task reaches the object store, and how what is *)
(* left there is cleaned up.  One file of one task is followed: the        *)
(* attempts at the task share its object key (run, part and file number),  *)
(* so a lost attempt, its successor, the multipart cleanup and the         *)
(* canceled-object cleanup all meet at that key.                           *)
(*                                                                         *)
(*   worker    s3io/uploader.go, cmd/worker/task_execution.go              *)
(*   master    db/multipart.go, db/canceled_objects.go,                    *)
(*             grpc/cleanup_loops.go                                       *)
(*                                                                         *)
(* Every store transaction and every object-store call is one step.  The   *)
(* bytes and the metadata of an object are those of the attempt that wrote *)
(* it.  The lease protocol itself is module RunLifecycle, publication is   *)
(* module RunCommit.                                                       *)
(***************************************************************************)
EXTENDS Naturals, FiniteSets

CONSTANTS
    MaxAttempts,    \* ORABBIT_TASK_MAX_ATTEMPTS
    MaxCleanups,    \* multipartCleanupMax and canceledObjectMax
    MaxFaults       \* bound: lost workers, lapsed leases, failing store calls

UploadConstants ==
    /\ MaxAttempts \in Nat \ {0}
    /\ MaxCleanups \in Nat \ {0}
    /\ MaxFaults \in Nat

VARIABLES
    run,        \* [status, commit]: runs.status, and whether commit_id is set
    att,        \* attempt -> [status, live]: its row, and an unexpired lease
    task,       \* status of the task
    pc,         \* attempt -> where its worker is
    row,        \* attempt -> [status, id, claims]: its multipart_uploads row
    artifact,   \* the attempt whose artifact was accepted, 0 for none
    obj,        \* the object at the key: the attempt that wrote it, 0 for none
    open,       \* the multipart uploads open at the key, named by attempt
    cleaner,    \* [step, of, id]: the multipart cleanup pass
    cand,       \* attempt -> [status, digest, tries]: its cleanup candidate
    sweeper,    \* [step, of]: the canceled-object cleanup pass
    dryRun,     \* ORABBIT_CANCELED_OBJECT_DRY_RUN
    checksums,  \* the provider is not yet known to refuse checksums
    faults

vars == <<run, att, task, pc, row, artifact, obj, open, cleaner, cand, sweeper,
          dryRun, checksums, faults>>
masterVars == <<run, att, task, artifact>>
cleanupVars == <<cleaner, cand, sweeper, dryRun>>

Attempts == 1 .. MaxAttempts

RowStatus ==
    {"NONE", "PREPARED", "ACTIVE", "COMPLETING", "COMPLETION_AMBIGUOUS", "COMPLETED",
     "ABORT_PENDING", "ABORTING", "ABORT_FAILED", "ABORTED", "UNKNOWN_REVIEW"}
\* What no later event of the worker may change.
Sealed == {"COMPLETED", "ABORTED", "UNKNOWN_REVIEW"}

\* ABORTED and COMPLETED are the only statuses of an upload that is not open.
RowOpen(a) == row[a].status \notin {"NONE", "COMPLETED", "ABORTED"}

CandStatus ==
    {"NONE", "QUARANTINED", "BLOCKED_REFERENCED", "DELETE_PENDING", "DELETING",
     "DELETE_FAILED", "DELETE_AMBIGUOUS", "DELETED", "OPERATOR_REVIEW", "CANCELED_CLEANUP"}

Steps == {"idle", "upload", "put", "prepare", "create", "created", "parts", "completing",
          "complete", "completed", "verify", "conflict", "failing", "succeeding", "absent", "gone"}

NoEvidence == <<>>

Init ==
    /\ run = [status |-> "RUNNING", commit |-> FALSE]
    /\ att = [a \in Attempts |-> [status |-> "NONE", live |-> FALSE]]
    /\ task = "PENDING"
    /\ pc = [a \in Attempts |-> "idle"]
    /\ row = [a \in Attempts |-> [status |-> "NONE", id |-> 0, claims |-> 0]]
    /\ artifact = 0
    /\ obj = 0
    /\ open = {}
    /\ cleaner = [step |-> "idle", of |-> 0, id |-> 0]
    /\ cand = [a \in Attempts |-> [status |-> "NONE", digest |-> NoEvidence, tries |-> 0]]
    /\ sweeper = [step |-> "idle", of |-> 0]
    /\ dryRun \in BOOLEAN
    /\ checksums = TRUE
    /\ faults = 0

Fault == faults < MaxFaults /\ faults' = faults + 1

-----------------------------------------------------------------------------
(* The attempt: assignment, lease, result *)

\* The worker has extracted its rows and holds upload capacity; the rows may or
\* may not fill this file.
AssignTask(a) ==
    /\ run.status = "RUNNING" /\ task = "PENDING"
    /\ att[a].status = "NONE"
    /\ \A b \in 1 .. (a - 1) : att[b].status # "NONE"
    /\ att' = [att EXCEPT ![a] = [status |-> "ACTIVE", live |-> TRUE]]
    /\ task' = "RUNNING"
    /\ \E first \in {"upload", "absent"} : pc' = [pc EXCEPT ![a] = first]
    /\ UNCHANGED <<run, row, artifact, obj, open, cleanupVars, checksums, faults>>

Owned(a) == att[a].status = "ACTIVE" /\ att[a].live

\* Renewals stop coming: the worker is gone, or cut off, or paused.
LeaseLapses(a) ==
    /\ Owned(a)
    /\ IF pc[a] = "gone" THEN UNCHANGED faults ELSE Fault
    /\ att' = [att EXCEPT ![a].live = FALSE]
    /\ UNCHANGED <<run, task, pc, row, artifact, obj, open, cleanupVars, checksums>>

ExpireTaskAttempt(a) ==
    /\ att[a].status = "ACTIVE" /\ ~att[a].live
    /\ run.status = "RUNNING"
    /\ att' = [att EXCEPT ![a].status = "EXPIRED"]
    /\ IF a < MaxAttempts
       THEN task' = "PENDING" /\ UNCHANGED run
       ELSE task' = "QUARANTINED" /\ run' = [run EXCEPT !.status = "FAILED"]
    /\ UNCHANGED <<pc, row, artifact, obj, open, cleanupVars, checksums, faults>>

\* The worker process dies, or it learns that the task is not its own any more
\* and drops it: ownership lost, run canceled, or a success it could not report.
WorkerGone(a) ==
    /\ pc[a] \notin {"idle", "gone"}
    /\ IF Owned(a) THEN Fault ELSE UNCHANGED faults
    /\ pc' = [pc EXCEPT ![a] = "gone"]
    /\ UNCHANGED <<masterVars, row, obj, open, cleanupVars, checksums>>

\* ReportTaskResult SUCCEEDED; a refused report changes nothing.
ReportSuccess(a) ==
    /\ pc[a] \in {"succeeding", "absent"}
    /\ pc' = [pc EXCEPT ![a] = "gone"]
    /\ IF Owned(a) /\ run.status = "RUNNING"
       THEN /\ att' = [att EXCEPT ![a].status = "SUCCEEDED"]
            /\ task' = "SUCCEEDED"
            /\ artifact' = IF pc[a] = "succeeding" THEN a ELSE artifact
       ELSE UNCHANGED <<att, task, artifact>>
    /\ UNCHANGED <<run, row, obj, open, cleanupVars, checksums, faults>>

\* ReportTaskResult FAILED: the task is not tried again and the run fails.
ReportFailure(a) ==
    /\ pc[a] \in {"failing", "conflict"}
    /\ pc' = [pc EXCEPT ![a] = "gone"]
    /\ IF Owned(a) /\ run.status = "RUNNING"
       THEN /\ att' = [att EXCEPT ![a].status = "FAILED"]
            /\ task' = "FAILED"
            /\ run' = [run EXCEPT !.status = "FAILED"]
       ELSE UNCHANGED <<att, task, run>>
    /\ UNCHANGED <<row, artifact, obj, open, cleanupVars, checksums, faults>>

\* TryFinalizeRun starts the commit of a run whose tasks have all succeeded ...
BeginCommit ==
    /\ run.status = "RUNNING" /\ task = "SUCCEEDED"
    /\ run' = [status |-> "COMMITTING", commit |-> TRUE]
    /\ UNCHANGED <<att, task, artifact, pc, row, obj, open, cleanupVars, checksums, faults>>

\* ... whose verifyArtifacts compares the object with the accepted record.
CommitRun ==
    /\ run.status = "COMMITTING"
    /\ run' = [run EXCEPT !.status =
                 IF artifact \in {0, obj} THEN "SUCCEEDED" ELSE "FAILED"]
    /\ UNCHANGED <<att, task, artifact, pc, row, obj, open, cleanupVars, checksums, faults>>

-----------------------------------------------------------------------------
(* The upload: UploadFileVerifiedTracked and uploadFile *)

Goto(a, step) == pc' = [pc EXCEPT ![a] = step]

\* Another attempt's object at the key is EXISTING_OBJECT_CONFLICT; an object of
\* its own is verified and kept; otherwise the size of the file selects the call.
HeadObject(a) ==
    /\ pc[a] = "upload"
    /\ \/ obj = 0 /\ \E next \in {"put", "prepare"} : Goto(a, next)
       \/ obj = a /\ Goto(a, "verify")
       \/ obj \notin {0, a} /\ Goto(a, "conflict")
    /\ UNCHANGED <<masterVars, row, obj, open, cleanupVars, checksums, faults>>

\* HeadObject fails for another reason than a missing object.
HeadFails(a) ==
    /\ pc[a] = "upload"
    /\ Fault
    /\ Goto(a, "failing")
    /\ UNCHANGED <<masterVars, row, obj, open, cleanupVars, checksums>>

\* A failed PutObject may or may not have reached the store.
PutObject(a) ==
    /\ pc[a] = "put"
    /\ \/ obj' = a /\ Goto(a, "verify") /\ UNCHANGED faults
       \/ obj' \in {obj, a} /\ Goto(a, "failing") /\ Fault
    /\ UNCHANGED <<masterVars, row, open, cleanupVars, checksums>>

\* A lifecycle event is recorded for the owner of a live lease only.  PREPARED
\* finds the row of an earlier try of the same attempt and leaves it as it is.
PrepareMultipart(a) ==
    /\ pc[a] = "prepare"
    /\ \/ /\ Owned(a)
          /\ IF row[a].status = "NONE"
             THEN row' = [row EXCEPT ![a].status = "PREPARED"]
             ELSE UNCHANGED row
          /\ Goto(a, "create")
       \/ ~Owned(a) /\ Goto(a, "failing") /\ UNCHANGED row
    /\ UNCHANGED <<masterVars, obj, open, cleanupVars, checksums, faults>>

CreateMultipartUpload(a) ==
    /\ pc[a] = "create"
    /\ \/ open' = open \cup {a} /\ Goto(a, "created") /\ UNCHANGED faults
       \/ Goto(a, "failing") /\ Fault /\ UNCHANGED open
    /\ UNCHANGED <<masterVars, row, obj, cleanupVars, checksums>>

\* The CREATED event records the upload id; refused, the worker aborts the
\* upload, ignoring an error of the abort.
RecordCreated(a) ==
    /\ pc[a] = "created"
    /\ IF Owned(a) /\ row[a].status \in {"PREPARED", "ACTIVE"} /\ row[a].id \in {0, a}
       THEN /\ row' = [row EXCEPT ![a].status = "ACTIVE", ![a].id = a]
            /\ Goto(a, "parts")
            /\ UNCHANGED <<open, faults>>
       ELSE /\ Goto(a, "failing")
            /\ \/ open' = open \ {a} /\ UNCHANGED faults
               \/ Fault /\ UNCHANGED open
            /\ UNCHANGED row
    /\ UNCHANGED <<masterVars, obj, cleanupVars, checksums>>

\* updateMultipartOwned
Notified(a, status) ==
    IF Owned(a) /\ row[a].status \notin Sealed \cup {"NONE"}
    THEN [row EXCEPT ![a].status = status] ELSE row
Accepted(a) == Owned(a) /\ row[a].status \notin Sealed \cup {"NONE"}

UploadParts(a) ==
    /\ pc[a] = "parts" /\ a \in open
    /\ Goto(a, "completing")
    /\ UNCHANGED <<masterVars, row, obj, open, cleanupVars, checksums, faults>>

\* A part fails, always when the upload was aborted meanwhile: the worker says
\* so, or was stopped between two parts and does not, and tries to abort.
PartFails(a) ==
    /\ pc[a] = "parts"
    /\ IF a \in open THEN Fault ELSE UNCHANGED faults
    /\ row' \in {row, Notified(a, "ABORT_PENDING")}
    /\ open' \in {open, open \ {a}}
    /\ Goto(a, "failing")
    /\ UNCHANGED <<masterVars, obj, cleanupVars, checksums>>

\* A provider that turns out to refuse part checksums is tried again without.
ChecksumRefused(a) ==
    /\ pc[a] = "parts" /\ a \in open
    /\ checksums /\ checksums' = FALSE
    /\ Fault
    /\ row' = Notified(a, "ABORT_PENDING")
    /\ open' = open \ {a}
    /\ Goto(a, "prepare")
    /\ UNCHANGED <<masterVars, obj, cleanupVars>>

RecordCompleting(a) ==
    /\ pc[a] = "completing"
    /\ row' = Notified(a, "COMPLETING")
    /\ Goto(a, IF Accepted(a) THEN "complete" ELSE "failing")
    /\ UNCHANGED <<masterVars, obj, open, cleanupVars, checksums, faults>>

\* An error of CompleteMultipartUpload leaves its effect open.
CompleteMultipartUpload(a) ==
    /\ pc[a] = "complete"
    /\ LET Lands == obj' = a /\ open' = open \ {a}
       IN  \/ a \in open /\ Lands /\ Goto(a, "completed") /\ UNCHANGED <<row, faults>>
           \/ /\ \/ a \in open /\ Fault /\ (Lands \/ UNCHANGED <<obj, open>>)
                 \/ a \notin open /\ UNCHANGED <<obj, open, faults>>
              /\ row' = Notified(a, "COMPLETION_AMBIGUOUS")
              /\ Goto(a, "failing")
    /\ UNCHANGED <<masterVars, cleanupVars, checksums>>

RecordCompleted(a) ==
    /\ pc[a] = "completed"
    /\ row' = Notified(a, "COMPLETED")
    /\ Goto(a, IF Accepted(a) THEN "verify" ELSE "failing")
    /\ UNCHANGED <<masterVars, obj, open, cleanupVars, checksums, faults>>

\* verifyObject reads the object back: size, metadata and digest.
VerifyObject(a) ==
    /\ pc[a] = "verify"
    /\ \/ Goto(a, IF obj = a THEN "succeeding" ELSE "failing") /\ UNCHANGED faults
       \/ Goto(a, "failing") /\ Fault
    /\ UNCHANGED <<masterVars, row, obj, open, cleanupVars, checksums>>

-----------------------------------------------------------------------------
(* ProcessMultipartCleanupOnce: uploads no live attempt owns any more *)

workerVars == <<pc, obj, checksums>>
IdleCleaner == [step |-> "idle", of |-> 0, id |-> 0]

\* Mutant: an upload whose abort failed is not claimed again.
ClaimFirstAbort(a) ==
    /\ cleaner.step = "idle"
    /\ row[a].status \in {"PREPARED", "ACTIVE", "COMPLETING", "COMPLETION_AMBIGUOUS", "ABORT_PENDING"}
    /\ artifact = 0
    /\ ~Owned(a)
    /\ row' = [row EXCEPT ![a].status = "ABORTING", ![a].claims = @ + 1]
    /\ cleaner' = [step |-> "verify", of |-> a, id |-> row[a].id]
    /\ UNCHANGED <<masterVars, workerVars, open, cand, sweeper, dryRun, faults>>

\* Past the grace period, which is longer than any lease.
ClaimMultipartCleanup(a) ==
    /\ cleaner.step = "idle"
    /\ row[a].status \in {"PREPARED", "ACTIVE", "COMPLETING", "COMPLETION_AMBIGUOUS",
                          "ABORT_PENDING", "ABORT_FAILED"}
    /\ artifact = 0
    /\ ~Owned(a)
    /\ row' = [row EXCEPT ![a].status = "ABORTING", ![a].claims = @ + 1]
    /\ cleaner' = [step |-> "verify", of |-> a, id |-> row[a].id]
    /\ UNCHANGED <<masterVars, workerVars, open, cand, sweeper, dryRun, faults>>

FinishMultipartCleanup(status) ==
    /\ row' = [row EXCEPT ![cleaner.of].status = status]
    /\ cleaner' = IdleCleaner

\* VerifyTrackedFinalObject: the object is there, with this attempt's identity
\* or with another one.
VerifyFinalObject ==
    /\ cleaner.step = "verify"
    /\ \/ obj = cleaner.of /\ FinishMultipartCleanup("COMPLETED")
       \/ obj \notin {0, cleaner.of} /\ FinishMultipartCleanup("UNKNOWN_REVIEW")
       \/ /\ obj = 0
          /\ cleaner' = [cleaner EXCEPT !.step = IF cleaner.id = 0 THEN "list" ELSE "abort"]
          /\ UNCHANGED row
    /\ UNCHANGED <<masterVars, workerVars, open, cand, sweeper, dryRun, faults>>

\* The row has no upload id: look for the upload by its key, and adopt the only
\* one found (AdoptMultipartUploadForCleanup).
ListManagedMultipartUploads ==
    /\ cleaner.step = "list"
    /\ \/ open = {} /\ FinishMultipartCleanup("ABORTED")
       \/ Cardinality(open) > 1 /\ FinishMultipartCleanup("UNKNOWN_REVIEW")
       \/ \E u \in open :
            /\ open = {u}
            /\ row' = [row EXCEPT ![cleaner.of].id = u]
            /\ cleaner' = [cleaner EXCEPT !.step = "abort", !.id = u]
    /\ UNCHANGED <<masterVars, workerVars, open, cand, sweeper, dryRun, faults>>

\* An upload that is not there any more counts as aborted.
AbortTrackedMultipart ==
    /\ cleaner.step = "abort"
    /\ open' = open \ {cleaner.id}
    /\ FinishMultipartCleanup("ABORTED")
    /\ UNCHANGED <<masterVars, workerVars, cand, sweeper, dryRun, faults>>

\* A call of the pass fails: RETRY, and operator review when tries run out.
MultipartCleanupFails ==
    /\ cleaner.step # "idle"
    /\ Fault
    /\ FinishMultipartCleanup(
         IF row[cleaner.of].claims >= MaxCleanups THEN "UNKNOWN_REVIEW" ELSE "ABORT_FAILED")
    /\ UNCHANGED <<masterVars, workerVars, open, cand, sweeper, dryRun>>

\* The master stops; ExpireMultipartCleanupClaims of the next pass.
MultipartCleanupStops ==
    /\ cleaner.step # "idle"
    /\ Fault
    /\ cleaner' = IdleCleaner
    /\ UNCHANGED <<masterVars, workerVars, row, open, cand, sweeper, dryRun>>

ExpireMultipartCleanupClaims ==
    /\ cleaner.step = "idle"
    /\ \E a \in Attempts : row[a].status = "ABORTING"
    /\ row' = [a \in Attempts |-> IF row[a].status = "ABORTING"
                                  THEN [row[a] EXCEPT !.status = "ABORT_FAILED"] ELSE row[a]]
    /\ UNCHANGED <<masterVars, workerVars, open, cleanupVars, faults>>

-----------------------------------------------------------------------------
(* Objects nothing will ever reference: canceled_objects.go *)

Finished == {"SUCCEEDED", "FAILED", "CANCELED"}
Unpublished == run.status \in {"FAILED", "CANCELED"} /\ ~run.commit
Dead(a) == att[a].status \in {"CANCELED", "FAILED", "EXPIRED"}
NoCandidate == \A a \in Attempts : cand[a].status = "NONE"

Quarantine(S) ==
    [a \in Attempts |-> IF a \in S /\ cand[a].status = "NONE"
                        THEN [cand[a] EXCEPT !.status = "QUARANTINED"] ELSE cand[a]]

\* CancelRun with createCanceledObjectCandidatesTx.
CancelRun ==
    /\ run.status = "RUNNING"
    /\ run' = [run EXCEPT !.status = "CANCELED"]
    /\ att' = [a \in Attempts |-> IF att[a].status = "ACTIVE"
                                  THEN [att[a] EXCEPT !.status = "CANCELED"] ELSE att[a]]
    /\ task' = IF task \in {"PENDING", "RUNNING"} THEN "CANCELED" ELSE task
    /\ cand' = Quarantine({a \in Attempts :
                  /\ row[a].status = "COMPLETED"
                  /\ att'[a].status = "CANCELED"
                  /\ artifact = 0})
    /\ UNCHANGED <<artifact, workerVars, row, open, cleaner, sweeper, dryRun, faults>>

\* The two orphanDiscoveryQueries.
UnpublishedArtifacts ==
    {a \in Attempts :
        /\ a = artifact
        /\ Unpublished
        /\ \A b \in Attempts : att[b].status # "ACTIVE" /\ ~RowOpen(b)}

UnacceptedUploads ==
    {a \in Attempts :
        /\ run.status \in Finished
        /\ row[a].status = "COMPLETED"
        /\ Dead(a)
        /\ artifact = 0}

DiscoverOrphanedObjects ==
    /\ NoCandidate
    /\ UnpublishedArtifacts \cup UnacceptedUploads # {}
    /\ cand' = Quarantine(UnpublishedArtifacts \cup UnacceptedUploads)
    /\ UNCHANGED <<masterVars, workerVars, row, open, cleaner, sweeper, dryRun, faults>>

\* referenceEvidenceTx.  Its AMBIGUOUS outcome needs a registration of a run
\* that never began its commit, and registrations are made by the commit.
ReferenceDecision(a) ==
    IF run.status \notin Finished \/ att[a].status = "ACTIVE" THEN "ACTIVE"
    ELSE IF (run.commit /\ artifact # 0) \/ (~Unpublished /\ (artifact # 0 \/ ~Dead(a))) THEN "REFERENCED"
    ELSE IF \E b \in Attempts : RowOpen(b) THEN "ACTIVE" ELSE "UNREFERENCED"

ReferenceEvidence(a) ==
    <<run.status, run.commit, task, att[a].status, artifact # 0,
      \E b \in Attempts : RowOpen(b), ReferenceDecision(a)>>

IdleSweeper == [step |-> "idle", of |-> 0]
Claimable(a) == cand[a].status \in {"QUARANTINED", "DELETE_FAILED", "DELETE_AMBIGUOUS"}

\* Past the quarantine.  Evidence against deletion blocks the candidate for good.
ClaimCanceledObjectCleanup(a) ==
    /\ sweeper.step = "idle"
    /\ Claimable(a)
    /\ IF ReferenceDecision(a) # "UNREFERENCED"
       THEN /\ cand' = [cand EXCEPT ![a].status = "BLOCKED_REFERENCED"]
            /\ UNCHANGED sweeper
       ELSE /\ cand' = [cand EXCEPT ![a] =
                          [status |-> "DELETE_PENDING", digest |-> ReferenceEvidence(a),
                           tries |-> IF @.tries < MaxCleanups THEN @.tries + 1 ELSE @.tries]]
            /\ sweeper' = [step |-> "observe", of |-> a]
    /\ UNCHANGED <<masterVars, workerVars, row, open, cleaner, dryRun, faults>>

\* A result is recorded only for the candidate's current cleanup attempt.
FinishCanceledObjectCleanup(status) ==
    /\ sweeper' = IdleSweeper
    /\ IF cand[sweeper.of].status \in {"DELETE_PENDING", "DELETING"}
       THEN cand' = [cand EXCEPT ![sweeper.of].status = status]
       ELSE UNCHANGED cand

ObserveExactObject ==
    /\ sweeper.step = "observe"
    /\ \/ obj = 0 /\ FinishCanceledObjectCleanup("DELETED")
       \/ obj \notin {0, sweeper.of} /\ FinishCanceledObjectCleanup("OPERATOR_REVIEW")
       \/ obj = sweeper.of /\ sweeper' = [sweeper EXCEPT !.step = "authorize"] /\ UNCHANGED cand
    /\ UNCHANGED <<masterVars, workerVars, row, open, cleaner, dryRun, faults>>

\* The evidence must still be what it was; otherwise the pass gives up and its
\* claim is left to expire.
AuthorizeCanceledObjectDelete ==
    /\ sweeper.step = "authorize"
    /\ LET a == sweeper.of
       IN  IF /\ cand[a].status = "DELETE_PENDING"
              /\ ReferenceDecision(a) = "UNREFERENCED"
              /\ ReferenceEvidence(a) = cand[a].digest
           THEN IF dryRun
                THEN FinishCanceledObjectCleanup("QUARANTINED")
                ELSE /\ cand' = [cand EXCEPT ![a].status = "DELETING"]
                     /\ sweeper' = [sweeper EXCEPT !.step = "delete"]
           ELSE sweeper' = IdleSweeper /\ UNCHANGED cand
    /\ UNCHANGED <<masterVars, workerVars, row, open, cleaner, dryRun, faults>>

\* Without object versions the delete takes whatever is at the key.
DeleteExactObject ==
    /\ sweeper.step = "delete"
    /\ \/ obj' = 0 /\ UNCHANGED faults
       \/ obj' = obj /\ Fault
    /\ sweeper' = [sweeper EXCEPT !.step = "after"]
    /\ UNCHANGED <<masterVars, pc, checksums, row, open, cleaner, cand, dryRun>>

\* The object is looked for again before the result is recorded.
ConfirmDelete ==
    /\ sweeper.step = "after"
    /\ FinishCanceledObjectCleanup(
         CASE obj = 0 -> "DELETED"
           [] obj = sweeper.of -> IF cand[sweeper.of].tries >= MaxCleanups
                                  THEN "OPERATOR_REVIEW" ELSE "DELETE_FAILED"
           [] OTHER -> "DELETE_AMBIGUOUS")
    /\ UNCHANGED <<masterVars, workerVars, row, open, cleaner, dryRun, faults>>

\* A call of the pass fails before (FAILED) or after (AMBIGUOUS) the delete.
CanceledObjectCleanupFails ==
    /\ sweeper.step \in {"observe", "after"}
    /\ Fault
    /\ FinishCanceledObjectCleanup(
         CASE sweeper.step = "after" -> "DELETE_AMBIGUOUS"
           [] OTHER -> IF cand[sweeper.of].tries >= MaxCleanups
                       THEN "OPERATOR_REVIEW" ELSE "DELETE_FAILED")
    /\ UNCHANGED <<masterVars, workerVars, row, open, cleaner, dryRun>>

CanceledObjectCleanupStops ==
    /\ sweeper.step # "idle"
    /\ Fault
    /\ sweeper' = IdleSweeper
    /\ UNCHANGED <<masterVars, workerVars, row, open, cleaner, cand, dryRun>>

\* Claims whose pass is over and recorded nothing.
ExpireCanceledObjectCleanupAttempts ==
    /\ sweeper.step = "idle"
    /\ \E a \in Attempts : cand[a].status \in {"DELETE_PENDING", "DELETING"}
    /\ cand' = [a \in Attempts |-> IF cand[a].status \in {"DELETE_PENDING", "DELETING"}
                                   THEN [cand[a] EXCEPT !.status = "DELETE_AMBIGUOUS"]
                                   ELSE cand[a]]
    /\ UNCHANGED <<masterVars, workerVars, row, open, cleaner, sweeper, dryRun, faults>>

\* An operator keeps the object.
CancelCanceledObjectCleanup(a) ==
    /\ cand[a].status \notin {"NONE", "DELETED", "CANCELED_CLEANUP"}
    /\ cand' = [cand EXCEPT ![a].status = "CANCELED_CLEANUP"]
    /\ UNCHANGED <<masterVars, workerVars, row, open, cleaner, sweeper, dryRun, faults>>

-----------------------------------------------------------------------------
WorkerStep(a) ==
    \/ HeadObject(a) \/ PutObject(a) \/ PrepareMultipart(a) \/ CreateMultipartUpload(a)
    \/ RecordCreated(a) \/ UploadParts(a) \/ PartFails(a) \/ RecordCompleting(a)
    \/ CompleteMultipartUpload(a) \/ RecordCompleted(a) \/ VerifyObject(a)
    \/ ReportSuccess(a) \/ ReportFailure(a)

CleanerStep == VerifyFinalObject \/ ListManagedMultipartUploads \/ AbortTrackedMultipart
SweeperStep == ObserveExactObject \/ AuthorizeCanceledObjectDelete \/ DeleteExactObject \/ ConfirmDelete

Next ==
    \/ \E a \in Attempts :
        \/ AssignTask(a) \/ LeaseLapses(a) \/ ExpireTaskAttempt(a) \/ WorkerGone(a)
        \/ WorkerStep(a) \/ HeadFails(a) \/ ChecksumRefused(a)
        \/ ClaimMultipartCleanup(a) \/ ClaimCanceledObjectCleanup(a)
        \/ CancelCanceledObjectCleanup(a)
    \/ BeginCommit \/ CommitRun \/ CancelRun
    \/ CleanerStep \/ MultipartCleanupFails \/ MultipartCleanupStops \/ ExpireMultipartCleanupClaims
    \/ DiscoverOrphanedObjects
    \/ SweeperStep \/ CanceledObjectCleanupFails \/ CanceledObjectCleanupStops
    \/ ExpireCanceledObjectCleanupAttempts

\* The worker's call chain goes on or the worker is gone, a gone worker's lease
\* runs out, and the master's periodic loops keep passing.
LapsesWhenGone(a) == pc[a] = "gone" /\ LeaseLapses(a)

Fairness ==
    /\ \A a \in Attempts :
        /\ WF_vars(WorkerStep(a))
        /\ WF_vars(LapsesWhenGone(a))
        /\ WF_vars(ExpireTaskAttempt(a))
        /\ WF_vars(ClaimMultipartCleanup(a))
        /\ WF_vars(ClaimCanceledObjectCleanup(a))
    /\ WF_vars(CleanerStep) /\ WF_vars(ExpireMultipartCleanupClaims)
    /\ WF_vars(SweeperStep) /\ WF_vars(ExpireCanceledObjectCleanupAttempts)
    /\ WF_vars(DiscoverOrphanedObjects)

Spec == Init /\ [][Next]_vars /\ Fairness

-----------------------------------------------------------------------------
UploadTypeOK ==
    /\ run \in [status : {"RUNNING", "COMMITTING"} \cup Finished, commit : BOOLEAN]
    /\ att \in [Attempts -> [status : {"NONE", "ACTIVE", "SUCCEEDED"} \cup
                                      {"FAILED", "EXPIRED", "CANCELED"}, live : BOOLEAN]]
    /\ task \in {"PENDING", "RUNNING", "SUCCEEDED", "FAILED", "QUARANTINED", "CANCELED"}
    /\ pc \in [Attempts -> Steps]
    /\ \A a \in Attempts :
        /\ row[a].status \in RowStatus
        /\ row[a].id \in 0 .. MaxAttempts
        /\ cand[a].status \in CandStatus
    /\ artifact \in 0 .. MaxAttempts
    /\ obj \in 0 .. MaxAttempts
    /\ open \subseteq Attempts

\* Cleanup only ever deletes the object of a run that is over, and an accepted
\* object only if the run never began to publish: whatever happens between the
\* claim, the observation, the authorisation and the delete.  A dry run deletes
\* nothing.
DeletesOnlyUnreferenced ==
    obj # 0 /\ obj' = 0 =>
         /\ ~dryRun
         /\ run.status \in Finished
         /\ artifact # 0 => Unpublished

\* An upload whose row is open is settled in the end, unless an accepted artifact
\* holds the key; a candidate for deletion reaches a verdict, except in dry runs.
RowSettled(a) == row[a].status \in Sealed \/ artifact # 0
Undecided(a) == ~dryRun /\ (Claimable(a) \/ cand[a].status \in {"DELETE_PENDING", "DELETING"})
CleanupSettles ==
    \A a \in Attempts : []<>(RowOpen(a) => RowSettled(a)) /\ []<>~Undecided(a)

====
