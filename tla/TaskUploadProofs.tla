-------------------------- MODULE TaskUploadProofs --------------------------
(***************************************************************************)
(* The canceled-object cleanup deletes nothing that is or may still become *)
(* part of a published run, for any number of attempts, of tries and of    *)
(* failing calls.                                                          *)
(*                                                                         *)
(* Between the authorisation and the delete the pass holds nothing: no     *)
(* lock, no transaction, and the object may be any attempt's by then.  What *)
(* carries the evidence over that gap is that the run is finished: every   *)
(* transaction that accepts an artifact, starts a commit or ends a run     *)
(* asks for a run that is not.                                             *)
(***************************************************************************)
EXTENDS TaskUpload, TLAPS

\* What the authorisation found out: the run is over, and if an artifact was
\* accepted its run never began to publish.
NothingRefers == run.status \in Finished /\ (artifact # 0 => Unpublished)

SweepInv ==
    /\ sweeper \in [step : {"idle", "observe", "authorize", "delete", "after"},
                    of : Attempts \cup {0}]
    /\ sweeper.step = "delete" => NothingRefers /\ ~dryRun

-----------------------------------------------------------------------------
\* No transaction of the master changes a finished run, nor accepts an artifact
\* for it (the status conditions of internal/db/attempts.go and runs.go).
LEMMA FinishedStays ==
    ASSUME [Next]_vars, run.status \in Finished
    PROVE  UNCHANGED <<run, artifact>>
<1>1. run.status # "RUNNING" /\ run.status # "COMMITTING"
  BY Zenon DEF Finished
<1>2. ASSUME NEW a \in Attempts,
             \/ AssignTask(a) \/ LeaseLapses(a) \/ ExpireTaskAttempt(a) \/ WorkerGone(a)
             \/ ReportSuccess(a) \/ ReportFailure(a)
      PROVE  UNCHANGED <<run, artifact>>
  BY <1>1, <1>2, Zenon DEF AssignTask, LeaseLapses, ExpireTaskAttempt, WorkerGone,
     ReportSuccess, ReportFailure, masterVars
<1>3. ASSUME NEW a \in Attempts,
             \/ HeadObject(a) \/ PutObject(a) \/ PrepareMultipart(a) \/ CreateMultipartUpload(a)
             \/ RecordCreated(a) \/ UploadParts(a) \/ PartFails(a) \/ RecordCompleting(a)
             \/ CompleteMultipartUpload(a) \/ RecordCompleted(a) \/ VerifyObject(a)
             \/ HeadFails(a) \/ ChecksumRefused(a)
      PROVE  UNCHANGED <<run, artifact>>
  BY <1>3, Zenon DEF HeadObject, PutObject, PrepareMultipart, CreateMultipartUpload,
     RecordCreated, UploadParts, PartFails, RecordCompleting, CompleteMultipartUpload,
     RecordCompleted, VerifyObject, HeadFails, ChecksumRefused, masterVars
<1>4. ASSUME NEW a \in Attempts,
             \/ ClaimMultipartCleanup(a) \/ ClaimCanceledObjectCleanup(a)
             \/ CancelCanceledObjectCleanup(a)
      PROVE  UNCHANGED <<run, artifact>>
  BY <1>4, Zenon DEF ClaimMultipartCleanup, ClaimCanceledObjectCleanup,
     CancelCanceledObjectCleanup, masterVars
<1>5. CASE BeginCommit \/ CommitRun \/ CancelRun
  BY <1>1, <1>5, Zenon DEF BeginCommit, CommitRun, CancelRun
<1>6. CASE CleanerStep \/ MultipartCleanupFails \/ MultipartCleanupStops
           \/ ExpireMultipartCleanupClaims \/ DiscoverOrphanedObjects
  BY <1>6, Zenon DEF CleanerStep, VerifyFinalObject, ListManagedMultipartUploads,
     AbortTrackedMultipart, MultipartCleanupFails, MultipartCleanupStops,
     ExpireMultipartCleanupClaims, DiscoverOrphanedObjects, masterVars
<1>7. CASE SweeperStep \/ CanceledObjectCleanupFails \/ CanceledObjectCleanupStops
           \/ ExpireCanceledObjectCleanupAttempts
  BY <1>7, Zenon DEF SweeperStep, ObserveExactObject, AuthorizeCanceledObjectDelete,
     DeleteExactObject, ConfirmDelete, CanceledObjectCleanupFails,
     CanceledObjectCleanupStops, ExpireCanceledObjectCleanupAttempts, masterVars
<1>8. CASE UNCHANGED vars
  BY <1>8, Zenon DEF vars
<1> QED
  BY <1>2, <1>3, <1>4, <1>5, <1>6, <1>7, <1>8, Zenon DEF Next, WorkerStep

\* The evidence that authorises a delete (referenceEvidenceTx).
LEMMA UnreferencedMeans ==
    ASSUME NEW a, ReferenceDecision(a) = "UNREFERENCED"
    PROVE  NothingRefers
  BY Zenon DEF ReferenceDecision, NothingRefers

\* What the other parts of the system leave the pass as it is.
LEMMA OthersLeaveSweeper ==
    ASSUME [Next]_vars, ~SweeperStep, ~CanceledObjectCleanupFails, ~CanceledObjectCleanupStops,
           \A a \in Attempts : ~ClaimCanceledObjectCleanup(a)
    PROVE  UNCHANGED <<sweeper, dryRun>> /\ (obj # 0 => obj' # 0)
<1>0. \A a \in Attempts : a # 0
  BY DEF Attempts
<1>1. ASSUME NEW a \in Attempts,
             \/ AssignTask(a) \/ LeaseLapses(a) \/ ExpireTaskAttempt(a) \/ WorkerGone(a)
             \/ ReportSuccess(a) \/ ReportFailure(a)
      PROVE  UNCHANGED <<sweeper, dryRun, obj>>
  BY <1>1, Zenon DEF AssignTask, LeaseLapses, ExpireTaskAttempt, WorkerGone,
     ReportSuccess, ReportFailure, cleanupVars
<1>2. ASSUME NEW a \in Attempts,
             \/ HeadObject(a) \/ PrepareMultipart(a) \/ CreateMultipartUpload(a)
             \/ RecordCreated(a) \/ UploadParts(a) \/ PartFails(a) \/ RecordCompleting(a)
             \/ RecordCompleted(a) \/ VerifyObject(a) \/ HeadFails(a) \/ ChecksumRefused(a)
      PROVE  UNCHANGED <<sweeper, dryRun, obj>>
  BY <1>2, Zenon DEF HeadObject, PrepareMultipart, CreateMultipartUpload, RecordCreated,
     UploadParts, PartFails, RecordCompleting, RecordCompleted, VerifyObject, HeadFails,
     ChecksumRefused, cleanupVars
<1>3. ASSUME NEW a \in Attempts, PutObject(a) \/ CompleteMultipartUpload(a)
      PROVE  UNCHANGED <<sweeper, dryRun>> /\ (obj' = obj \/ obj' = a)
  BY <1>3, Zenon DEF PutObject, CompleteMultipartUpload, cleanupVars
<1>4. ASSUME NEW a \in Attempts, ClaimMultipartCleanup(a) \/ CancelCanceledObjectCleanup(a)
      PROVE  UNCHANGED <<sweeper, dryRun, obj>>
  BY <1>4, Zenon DEF ClaimMultipartCleanup, CancelCanceledObjectCleanup, workerVars
<1>5. CASE BeginCommit \/ CommitRun \/ CancelRun
  BY <1>5, Zenon DEF BeginCommit, CommitRun, CancelRun, cleanupVars, workerVars
<1>6. CASE CleanerStep \/ MultipartCleanupFails \/ MultipartCleanupStops
           \/ ExpireMultipartCleanupClaims \/ DiscoverOrphanedObjects
           \/ ExpireCanceledObjectCleanupAttempts
  BY <1>6, Zenon DEF CleanerStep, VerifyFinalObject, ListManagedMultipartUploads,
     AbortTrackedMultipart, MultipartCleanupFails, MultipartCleanupStops, cleanupVars,
     ExpireMultipartCleanupClaims, DiscoverOrphanedObjects,
     ExpireCanceledObjectCleanupAttempts, workerVars
<1>7. CASE UNCHANGED vars
  BY <1>7, Zenon DEF vars
<1> QED
  BY <1>0, <1>1, <1>2, <1>3, <1>4, <1>5, <1>6, <1>7, Zenon DEF Next, WorkerStep

LEMMA SweepStep == ASSUME SweepInv, [Next]_vars PROVE SweepInv'
<1>1. sweeper.step = "delete" => UNCHANGED <<run, artifact>>
  BY FinishedStays, Zenon DEF SweepInv, NothingRefers
<1>2. CASE UNCHANGED <<sweeper, dryRun>>
  BY <1>1, <1>2, Zenon DEF SweepInv, NothingRefers, Unpublished
<1>3. CASE sweeper' = IdleSweeper
  BY <1>3, Zenon DEF SweepInv, IdleSweeper
<1>4. ASSUME NEW a \in Attempts, sweeper' = [step |-> "observe", of |-> a] PROVE SweepInv'
  BY <1>4, Zenon DEF SweepInv
<1>5. CASE \E s \in {"authorize", "after"} : sweeper' = [sweeper EXCEPT !.step = s]
  BY <1>5, Zenon DEF SweepInv
<1>6. CASE /\ sweeper' = [sweeper EXCEPT !.step = "delete"]
           /\ NothingRefers /\ ~dryRun /\ UNCHANGED dryRun
  <2>1. UNCHANGED <<run, artifact>>
    BY <1>6, FinishedStays, Zenon DEF NothingRefers
  <2>2. NothingRefers'
    BY <1>6, <2>1, Zenon DEF NothingRefers, Unpublished
  <2> QED
    BY <1>6, <2>2, Zenon DEF SweepInv
<1>7. ASSUME NEW a \in Attempts, ClaimCanceledObjectCleanup(a) PROVE SweepInv'
  BY <1>2, <1>4, <1>7, Zenon DEF ClaimCanceledObjectCleanup
<1>8. CASE ObserveExactObject
  BY <1>3, <1>5, <1>8, Zenon DEF ObserveExactObject, FinishCanceledObjectCleanup
<1>9. CASE AuthorizeCanceledObjectDelete
  BY <1>3, <1>6, <1>9, UnreferencedMeans, Zenon
     DEF AuthorizeCanceledObjectDelete, FinishCanceledObjectCleanup
<1>10. CASE DeleteExactObject
  BY <1>5, <1>10, Zenon DEF DeleteExactObject
<1>11. CASE ConfirmDelete \/ CanceledObjectCleanupFails \/ CanceledObjectCleanupStops
  BY <1>3, <1>11, Zenon DEF ConfirmDelete, CanceledObjectCleanupFails,
     CanceledObjectCleanupStops, FinishCanceledObjectCleanup
<1> QED
  BY <1>2, <1>7, <1>8, <1>9, <1>10, <1>11, OthersLeaveSweeper, Zenon DEF SweeperStep

\* Only the delete of an authorised pass takes an object away.
LEMMA OnlyTheSweeperDeletes ==
    ASSUME [Next]_vars, obj # 0, obj' = 0 PROVE sweeper.step = "delete"
<1>1. ASSUME NEW a \in Attempts, ClaimCanceledObjectCleanup(a) PROVE FALSE
  BY <1>1, Zenon DEF ClaimCanceledObjectCleanup, workerVars
<1>2. CASE ObserveExactObject \/ AuthorizeCanceledObjectDelete \/ ConfirmDelete
           \/ CanceledObjectCleanupFails \/ CanceledObjectCleanupStops
  BY <1>2, Zenon DEF ObserveExactObject, AuthorizeCanceledObjectDelete, ConfirmDelete,
     CanceledObjectCleanupFails, CanceledObjectCleanupStops, workerVars
<1>3. CASE DeleteExactObject
  BY <1>3, Zenon DEF DeleteExactObject
<1> QED
  BY <1>1, <1>2, <1>3, OthersLeaveSweeper, Zenon DEF SweeperStep

\* The cleanup deletes an object only when its run is over, when an accepted
\* artifact will never be published, and not in a dry run: whatever workers,
\* commits, cancellations and other passes do between the claim, the
\* observation, the authorisation and the delete (canceled_objects.go,
\* cleanup_loops.go), for every number of attempts and failures.
THEOREM CleanupDeletesOnlyUnreferenced == Spec => [][DeletesOnlyUnreferenced]_vars
<1>1. Init => SweepInv
  BY DEF Init, SweepInv
<1>2. SweepInv /\ [Next]_vars => SweepInv'
  BY SweepStep, Zenon
<1>3. SweepInv /\ [Next]_vars => DeletesOnlyUnreferenced
  BY OnlyTheSweeperDeletes, Zenon DEF SweepInv, NothingRefers, DeletesOnlyUnreferenced
<1> QED
  BY <1>1, <1>2, <1>3, PTL DEF Spec
=============================================================================
