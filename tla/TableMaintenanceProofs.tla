----------------------- MODULE TableMaintenanceProofs -----------------------
(***************************************************************************)
(* Orphan cleanup never deletes a file that a retained snapshot references, *)
(* for any number of runs, of masters that work on the same operation, of  *)
(* files and of lapsed leases.                                             *)
(*                                                                         *)
(* The lease is no part of the argument: a deposed master that does not    *)
(* know it goes on deleting.  It is safe because what it deletes was not   *)
(* referenced at the version it compared with the table, and because no    *)
(* file of a run that is done can enter the table again: snapshots made    *)
(* after the comparison add files of runs that were not done only.         *)
(*                                                                         *)
(* A compaction that lands keeps every row of the table.  The tokens show  *)
(* that no holder plans anew while the run of the operation goes on, so    *)
(* the inputs that the commit replaces are those the run has read; what    *)
(* LoadForCommit compared holds as long as the table's version does; and   *)
(* a compaction that landed before is never in the table with its inputs,  *)
(* so it cannot land twice, even when its stamp has expired.               *)
(***************************************************************************)
EXTENDS TableMaintenance, FiniteSetTheorems, TLAPS

Run == [kind : {"export", "compaction"},
        status : {"NONE", "PLANNING", "RUNNING", "COMMITTING", "SUCCEEDED", "FAILED", "CANCELED"},
        reg : {"", "PENDING", "FAILED", "REGISTERED"},
        inputs : SUBSET Runs]
Snapshot == [files : SUBSET Files, stamp : Runs \cup {NoRun}]
Operation == [kind : {"ORPHAN_CLEANUP", "COMPACTION"},
              status : {"NONE", "PENDING", "RUNNING", "SUBMITTED", "SUCCEEDED", "FAILED", "ABORTED"},
              token : Nat, live : BOOLEAN, run : Runs \cup {NoRun}, inputs : SUBSET Runs]
PassState == [step : {"idle", "refs", "list", "busy", "unchanged", "delete", "remove", "follow",
                      "followed", "plan", "create", "link", "start", "submit"},
              token : Nat, ver : Nat, refs : SUBSET Files, todo : SUBSET Files, i : Nat,
              failed : BOOLEAN, run : Runs \cup {NoRun}]
CommitState == [step : {"idle", "load", "commit", "landed", "recorded", "refused"},
                run : Runs \cup {NoRun}, ver : Nat, files : SUBSET Files, tries : Nat]

Types ==
    /\ runs \in [Runs -> Run]
    /\ store \subseteq Files
    /\ table \in [ver : Nat, snaps : Seq(Snapshot)] /\ table.snaps # <<>>
    /\ op \in Operation
    /\ hold \in [Holders -> PassState]
    /\ commit \in CommitState

\* The files of a run may still enter the table: the run is not over, or its
\* registration is not.
MayEnter(k) ==
    \/ runs[k].reg \in {"PENDING", "FAILED"}
    \/ runs[k].status \in {"NONE", "PLANNING", "RUNNING", "COMMITTING"}

\* No run brings this file into the table any more.
Settled(f) == \A k \in Runs : f \in {k, MaxRuns + k} => ~MayEnter(k)

\* Registrations belong to exports that succeeded, commits to compactions.
RowsConsistent ==
    \A k \in Runs :
        /\ runs[k].reg # "" => runs[k].kind = "export" /\ runs[k].status = "SUCCEEDED"
        /\ runs[k].status = "COMMITTING" => runs[k].kind = "compaction"

\* What a run is about to bring into the table is in the store, and the rewritten
\* file of an upsert is there only after its registration.
FilesThere ==
    \A k \in Runs :
        /\ runs[k].reg \in {"PENDING", "FAILED"} \/ runs[k].status = "COMMITTING" => k \in store
        /\ MaxRuns + k \in store => ~MayEnter(k)

\* A compaction is computed from the table at the version it names.
CommitCurrent ==
    /\ commit.step # "idle" => commit.run \in Runs /\ runs[commit.run].status = "COMMITTING"
    /\ commit.step = "commit" =>
        commit.ver <= table.ver /\ (commit.ver = table.ver => commit.files = Current)

\* What a pass knows.  Before CheckUnchanged it is true of the version it read;
\* after it, of every later version too.
PassSafe(h) ==
    /\ hold[h].step = "list" =>
        hold[h].ver <= table.ver /\ (hold[h].ver = table.ver => Referenced \subseteq hold[h].refs)
    /\ hold[h].step \in {"busy", "unchanged"} =>
        hold[h].ver <= table.ver /\ (hold[h].ver = table.ver => hold[h].todo \cap Referenced = {})
    /\ hold[h].step \in {"delete", "remove"} => hold[h].todo \cap Referenced = {}
    /\ hold[h].step \in {"busy", "unchanged", "delete", "remove"} =>
        \A f \in hold[h].todo : Settled(f)

\* A compaction run that is being planned belongs to one pass.
Planning(h) == hold[h].step \in {"link", "start"}
PlansOwn ==
    \A h \in Holders : Planning(h) =>
        /\ hold[h].run \in Runs /\ runs[hold[h].run].status = "PLANNING"
        /\ \A g \in Holders \ {h} : Planning(g) => hold[g].run # hold[h].run

MaintInv ==
    /\ Types /\ RowsConsistent /\ FilesThere /\ CommitCurrent /\ PlansOwn
    /\ \A h \in Holders : PassSafe(h)
    /\ ReferencedFilesExist

-----------------------------------------------------------------------------
(* The table as a sequence of snapshots *)

LEMMA CurrentReferenced ==
    ASSUME Types PROVE Current \subseteq Referenced /\ Current \subseteq Files /\ Referenced \subseteq Files
<1>1. Len(table.snaps) \in 1 .. Len(table.snaps)
  BY DEF Types
<1>2. \A i \in 1 .. Len(table.snaps) : table.snaps[i].files \subseteq Files
  <2> TAKE i \in 1 .. Len(table.snaps)
  <2>1. table.snaps \in Seq(Snapshot)
    BY Zenon DEF Types
  <2>2. table.snaps[i] \in Snapshot
    BY <2>1
  <2> QED
    BY <2>2, Zenon DEF Snapshot
<1> QED
  BY <1>1, <1>2, Zenon DEF Current, Referenced

LEMMA SnapshotAdded ==
    ASSUME Types, NEW files \in SUBSET Files, NEW stamp \in Runs \cup {NoRun}, NewSnapshot(files, stamp)
    PROVE  /\ table' \in [ver : Nat, snaps : Seq(Snapshot)] /\ table'.snaps # <<>>
           /\ table'.ver = table.ver + 1
           /\ Referenced' = Referenced \cup files
<1> DEFINE s == [files |-> files, stamp |-> stamp]
<1>1. s \in Snapshot
  BY Zenon DEF Snapshot
<1>2. table.ver \in Nat /\ table.snaps \in Seq(Snapshot)
  BY Zenon DEF Types
<1>3. table'.ver = table.ver + 1 /\ table'.snaps = Append(table.snaps, s)
  BY Zenon DEF NewSnapshot
<1>4. Append(table.snaps, s) \in Seq(Snapshot) /\ Append(table.snaps, s) # <<>>
  BY <1>1, <1>2
<1>5. table' \in [ver : Nat, snaps : Seq(Snapshot)]
  BY <1>2, <1>4 DEF NewSnapshot
<1>6. /\ Len(table'.snaps) = Len(table.snaps) + 1
      /\ table'.snaps[Len(table.snaps) + 1] = s
      /\ \A i \in 1 .. Len(table.snaps) : table'.snaps[i] = table.snaps[i]
  BY <1>1, <1>2, <1>3
<1>7. Len(table.snaps) \in Nat
  BY <1>2
<1>8. 1 .. (Len(table.snaps) + 1) = (1 .. Len(table.snaps)) \cup {Len(table.snaps) + 1}
  BY <1>7
<1>9. s.files = files
  BY Zenon
<1>10. ASSUME NEW f PROVE f \in Referenced' <=> f \in Referenced \cup files
  <2>1. f \in Referenced' <=> \E i \in 1 .. (Len(table.snaps) + 1) : f \in table'.snaps[i].files
    BY <1>6, Zenon DEF Referenced
  <2>2. f \in Referenced <=> \E i \in 1 .. Len(table.snaps) : f \in table.snaps[i].files
    BY Zenon DEF Referenced
  <2> QED
    BY <1>6, <1>8, <1>9, <2>1, <2>2, Zenon
<1>11. Referenced' = Referenced \cup files
  BY <1>10, Zenon
<1> QED
  BY <1>3, <1>4, <1>5, <1>11, Zenon

LEMMA SnapshotExpired ==
    ASSUME Types, ExpireSnapshot
    PROVE  /\ table' \in [ver : Nat, snaps : Seq(Snapshot)] /\ table'.snaps # <<>>
           /\ table'.ver = table.ver + 1
           /\ Referenced' \subseteq Referenced
<1>1. table.ver \in Nat /\ table.snaps \in Seq(Snapshot) /\ Len(table.snaps) > 1
  BY Zenon DEF Types, ExpireSnapshot
<1>2. table'.ver = table.ver + 1 /\ table'.snaps = Tail(table.snaps)
  BY Zenon DEF ExpireSnapshot
<1>3. /\ Tail(table.snaps) \in Seq(Snapshot) /\ Tail(table.snaps) # <<>>
      /\ Len(Tail(table.snaps)) = Len(table.snaps) - 1
      /\ \A i \in 1 .. Len(Tail(table.snaps)) : Tail(table.snaps)[i] = table.snaps[i + 1]
  <2> DEFINE s == table.snaps
  <2>1. s \in Seq(Snapshot) /\ Len(s) > 1
    BY <1>1, Zenon
  <2> HIDE DEF s
  <2>2. Len(s) \in Nat /\ s # <<>>
    BY <2>1
  <2>3. Tail(s) \in Seq(Snapshot) /\ Len(Tail(s)) = Len(s) - 1
    BY <2>1, <2>2
  <2>4. Tail(s) # <<>>
    <3>1. Len(Tail(s)) # 0
      BY <2>1, <2>2, <2>3
    <3>2. Len(<<>>) = 0
      BY Zenon
    <3> QED
      BY <3>1, <3>2, Zenon
  <2>5. \A i \in 1 .. Len(Tail(s)) : Tail(s)[i] = s[i + 1]
    BY <2>1, <2>2, <2>3
  <2> QED
    BY <2>3, <2>4, <2>5, Zenon DEF s
<1>4. table' \in [ver : Nat, snaps : Seq(Snapshot)]
  BY <1>1, <1>3 DEF ExpireSnapshot
<1>5. \A i \in 1 .. Len(Tail(table.snaps)) : i + 1 \in 1 .. Len(table.snaps)
  BY <1>1, <1>3
<1>6. ASSUME NEW f \in Referenced' PROVE f \in Referenced
  <2>1. PICK i \in 1 .. Len(Tail(table.snaps)) : f \in Tail(table.snaps)[i].files
    BY <1>2, <1>6, Zenon DEF Referenced
  <2>2. f \in table.snaps[i + 1].files /\ i + 1 \in 1 .. Len(table.snaps)
    BY <1>3, <1>5, <2>1, Zenon
  <2> QED
    BY <2>2, Zenon DEF Referenced
<1> QED
  BY <1>2, <1>3, <1>4, <1>6, Zenon

-----------------------------------------------------------------------------
(* What the actions leave alone *)

\* The exports, and the runs of compactions.
RunAction(k) ==
    \/ StartExport(k) \/ FinishExport(k) \/ RegistrationFails(k)
    \/ FailAbandonedPlanningRun(k) \/ CompactInputs(k) \/ CommitExhausted(k)

\* The passes, but for those that write runs or delete.
QuietPass(h) ==
    \/ ClaimMaintenanceOperation(h) \/ HolderStops(h) \/ MaintenanceFails(h)
    \/ TableReferences(h) \/ ListAndClassify(h) \/ CheckBusy(h) \/ CheckUnchanged(h)
    \/ RenewMaintenanceLease(h) \/ FollowRun(h) \/ FollowedRunSucceeded(h)
    \/ PlanCompaction(h) \/ SubmitCompaction(h)

OperationAction ==
    \/ \E kind \in {"ORPHAN_CLEANUP", "COMPACTION"} : CreateMaintenanceOperation(kind)
    \/ MaintenanceLeaseLapses \/ FailSubmittedCompactions

CommitAction == (\E k \in Runs : LoadForCommit(k)) \/ RecordCompaction \/ CommitStops

LEMMA RunActionLeaves ==
    ASSUME NEW k \in Runs, RunAction(k) PROVE UNCHANGED <<table, op, hold, commit>>
  BY Zenon DEF RunAction, StartExport, FinishExport, RegistrationFails,
     FailAbandonedPlanningRun, CompactInputs, CommitExhausted

LEMMA QuietPassLeaves ==
    ASSUME NEW h \in Holders, QuietPass(h) PROVE UNCHANGED <<runs, store, table, commit>>
  BY Zenon DEF QuietPass, ClaimMaintenanceOperation, HolderStops, MaintenanceFails,
     TableReferences, ListAndClassify, CheckBusy, CheckUnchanged, RenewMaintenanceLease,
     FollowRun, FollowedRunSucceeded, PlanCompaction, SubmitCompaction

LEMMA OperationActionLeaves ==
    ASSUME OperationAction PROVE UNCHANGED <<runs, store, table, hold, commit>>
  BY Zenon DEF OperationAction, CreateMaintenanceOperation, MaintenanceLeaseLapses,
     FailSubmittedCompactions

LEMMA CommitActionLeaves ==
    ASSUME CommitAction PROVE UNCHANGED <<runs, store, table, hold>>
  BY Zenon DEF CommitAction, LoadForCommit, RecordCompaction, CommitStops

\* The actions, for the case distinctions below.
LEMMA Actions ==
    ASSUME Next
    PROVE  \/ \E k \in Runs : RunAction(k) \/ Register(k)
           \/ \E h \in Holders :
                QuietPass(h) \/ DeleteOrphan(h) \/ CreateCompactionRun(h)
                \/ SetMaintenanceRunID(h) \/ StartRunWithTasks(h)
           \/ OperationAction \/ CommitAction \/ ExpireSnapshot
           \/ CommitTransaction \/ EndCompactionRun
  BY Zenon DEF Next, Pass, Commit, RunAction, QuietPass, OperationAction, CommitAction

-----------------------------------------------------------------------------
(* Types *)

LEMMA FinishTyped ==
    ASSUME Types, NEW h \in Holders,
           NEW status \in {"SUCCEEDED", "FAILED", "ABORTED", "SUBMITTED"}, Finish(h, status)
    PROVE  op' \in Operation /\ hold' \in [Holders -> PassState]
<1>1. IdleHold \in PassState
  BY Zenon DEF IdleHold, PassState, NoRun
<1>2. op \in Operation /\ hold \in [Holders -> PassState]
  BY Zenon DEF Types
<1>3. op' \in Operation
  BY <1>2, Zenon DEF Finish, Operation
<1>4. hold' \in [Holders -> PassState]
  BY <1>1, <1>2, Zenon DEF Finish
<1> QED
  BY <1>3, <1>4, Zenon

LEMMA PassTyped ==
    ASSUME Types, NEW h \in Holders, QuietPass(h)
    PROVE  op' \in Operation /\ hold' \in [Holders -> PassState]
<1>1. IdleHold \in PassState
  BY Zenon DEF IdleHold, PassState, NoRun
<1>2. op \in Operation /\ hold \in [Holders -> PassState] /\ hold[h] \in PassState
  BY Zenon DEF Types
<1>3. table.ver \in Nat /\ Referenced \subseteq Files /\ Current \subseteq Files /\ store \subseteq Files
  BY CurrentReferenced, Zenon DEF Types
<1>4. ASSUME NEW step \in {"list", "unchanged", "delete", "remove", "plan", "create", "submit", "followed"},
             GoOn(h, step)
      PROVE  hold' \in [Holders -> PassState]
  BY <1>2, <1>4, Zenon DEF GoOn, PassState
<1>5. GiveUp(h) => hold' \in [Holders -> PassState]
  BY <1>1, <1>2, Zenon DEF GiveUp
<1>6. CASE ClaimMaintenanceOperation(h)
  <2>1. PICK t \in Nat, s \in {"follow", "refs"} :
           /\ op' = [op EXCEPT !.status = "RUNNING", !.token = t, !.live = TRUE]
           /\ hold' = [hold EXCEPT ![h] = [IdleHold EXCEPT !.token = t, !.step = s]]
    <3>1. op.token + 1 \in Nat
      BY <1>2 DEF Operation
    <3> QED
      BY <1>6, <3>1, Zenon DEF ClaimMaintenanceOperation
  <2>2. op' \in Operation
    BY <1>2, <2>1, Zenon DEF Operation
  <2>3. [IdleHold EXCEPT !.token = t, !.step = s] \in PassState
    BY Zenon DEF IdleHold, PassState, NoRun
  <2> QED
    BY <1>2, <2>1, <2>2, <2>3, Zenon
<1>7. CASE HolderStops(h)
  <2>1. op' \in Operation
    BY <1>2, <1>7, Zenon DEF HolderStops, Operation
  <2> QED
    BY <1>1, <1>2, <1>7, <2>1, Zenon DEF HolderStops
<1>8. CASE MaintenanceFails(h) \/ FollowedRunSucceeded(h) \/ SubmitCompaction(h)
  BY <1>8, FinishTyped, Zenon DEF MaintenanceFails, FollowedRunSucceeded, SubmitCompaction
<1>9. CASE TableReferences(h)
  <2>1. hold' \in [Holders -> PassState]
    BY <1>2, <1>3, <1>9, Zenon DEF TableReferences, PassState
  <2> QED
    BY <1>2, <1>9, <2>1, Zenon DEF TableReferences
<1>10. CASE ListAndClassify(h)
  <2>1. PICK kept \in SUBSET Unneeded(h) :
           LET orphans == Unneeded(h) \ kept
           IN  IF ~HoldsLease(h) THEN GiveUp(h) /\ UNCHANGED op
               ELSE IF orphans = {} THEN Finish(h, "SUCCEEDED")
               ELSE /\ hold' = [hold EXCEPT ![h].step = "busy", ![h].todo = orphans]
                    /\ UNCHANGED op
    BY <1>10, Zenon DEF ListAndClassify
  <2>2. Unneeded(h) \ kept \subseteq Files
    BY <1>3, Zenon DEF Unneeded
  <2>3. CASE hold' = [hold EXCEPT ![h].step = "busy", ![h].todo = Unneeded(h) \ kept] /\ UNCHANGED op
    <3>1. hold' \in [Holders -> PassState]
      BY <1>2, <2>2, <2>3, Zenon DEF PassState
    <3> QED
      BY <1>2, <2>3, <3>1, Zenon
  <2>4. CASE GiveUp(h) /\ UNCHANGED op
    BY <1>2, <1>5, <2>4, Zenon
  <2>5. CASE Finish(h, "SUCCEEDED")
    BY <2>5, FinishTyped, Zenon
  <2> QED
    BY <2>1, <2>3, <2>4, <2>5, Zenon
<1>11. CASE CheckBusy(h) \/ CheckUnchanged(h)
  BY <1>2, <1>4, <1>11, FinishTyped, Zenon DEF CheckBusy, CheckUnchanged
<1>12. CASE RenewMaintenanceLease(h)
  <2>1. \/ Finish(h, "SUCCEEDED") \/ Finish(h, "FAILED") \/ Finish(h, "ABORTED")
        \/ (GiveUp(h) /\ UNCHANGED op) \/ (GoOn(h, "remove") /\ UNCHANGED op)
    BY <1>12, Zenon DEF RenewMaintenanceLease
  <2> QED
    BY <1>2, <1>4, <1>5, <2>1, FinishTyped, Zenon
<1>13. CASE FollowRun(h)
  BY <1>2, <1>4, <1>13, Zenon DEF FollowRun
<1>14. CASE PlanCompaction(h)
  <2>1. CASE Finish(h, "SUCCEEDED")
    BY <2>1, FinishTyped, Zenon
  <2>2. CASE GiveUp(h) /\ UNCHANGED op
    BY <1>2, <1>5, <2>2, Zenon
  <2>3. ASSUME NEW inputs \in SUBSET (Current \cap Runs),
               op' = [op EXCEPT !.inputs = inputs], GoOn(h, "create")
        PROVE  op' \in Operation /\ hold' \in [Holders -> PassState]
    <3>1. op' \in Operation
      BY <1>2, <2>3, Zenon DEF Operation
    <3> QED
      BY <1>4, <2>3, <3>1, Zenon
  <2> QED
    BY <1>14, <2>1, <2>2, <2>3, Zenon DEF PlanCompaction
<1> QED
  BY <1>6, <1>7, <1>8, <1>9, <1>10, <1>11, <1>12, <1>13, <1>14, Zenon DEF QuietPass

-----------------------------------------------------------------------------
(* Runs: one row moves at a time, and only one that may still enter the table *)

LEMMA FileNames ==
    ASSUME MaintenanceConstants, NEW k \in Runs
    PROVE  /\ k \in Files /\ MaxRuns + k \in Files /\ k # NoRun
           /\ \A j \in Runs : k # MaxRuns + j
  BY DEF MaintenanceConstants, Runs, Files, NoRun

RunMove(k) ==
    /\ runs' \in [Runs -> Run]
    /\ \A j \in Runs \ {k} : runs'[j] = runs[j]
    /\ MayEnter(k)
    /\ runs'[k].reg # "" => runs'[k].kind = "export" /\ runs'[k].status = "SUCCEEDED"
    /\ runs'[k].status = "COMMITTING" => runs'[k].kind = "compaction"
    /\ runs'[k].reg \in {"PENDING", "FAILED"} \/ runs'[k].status = "COMMITTING" => k \in store'

\* Neither the run that is being committed nor one that is being planned moves.
Untouched(k) ==
    /\ commit.step # "idle" => k # commit.run
    /\ \A h \in Holders : Planning(h) => hold[h].run # k

\* A change of the status of one run.
LEMMA StatusMoves ==
    ASSUME MaintInv, NEW k \in Runs,
           runs[k].status \in {"NONE", "PLANNING", "RUNNING", "COMMITTING"},
           NEW status \in {"RUNNING", "COMMITTING", "SUCCEEDED", "FAILED", "CANCELED"},
           runs' = [runs EXCEPT ![k].status = status],
           status = "COMMITTING" => runs[k].kind = "compaction" /\ k \in store'
    PROVE  RunMove(k)
<1>1. runs \in [Runs -> Run] /\ runs[k] \in Run
  BY Zenon DEF MaintInv, Types
<1>2. runs' \in [Runs -> Run] /\ \A j \in Runs \ {k} : runs'[j] = runs[j]
  BY <1>1, Zenon DEF Run
<1>3. /\ runs'[k].reg = runs[k].reg /\ runs'[k].kind = runs[k].kind
      /\ runs'[k].status = status
  BY <1>1, Zenon DEF Run
<1>4. runs[k].reg = ""
  BY <1>1, Zenon DEF MaintInv, RowsConsistent
<1> QED
  BY <1>2, <1>3, <1>4, Zenon DEF RunMove, MayEnter

\* The row of a run that is not COMMITTING or PLANNING is nobody's.
LEMMA OtherRunsUntouched ==
    ASSUME MaintInv, NEW k \in Runs, runs[k].status \notin {"COMMITTING", "PLANNING"}
    PROVE  Untouched(k)
  BY Zenon DEF MaintInv, CommitCurrent, PlansOwn, Untouched

LEMMA RunActionMoves ==
    ASSUME MaintenanceConstants, MaintInv, NEW k \in Runs, RunAction(k)
    PROVE  RunMove(k) /\ Untouched(k) /\ store' \in {store, store \cup {k}}
<1>1. runs \in [Runs -> Run] /\ runs[k] \in Run
  BY Zenon DEF MaintInv, Types
<1>2. CASE StartExport(k)
  BY <1>2, StatusMoves, OtherRunsUntouched, Zenon DEF StartExport, NextRun
<1>3. CASE FinishExport(k)
  <2>1. PICK outcome \in {<<"SUCCEEDED", "PENDING">>, <<"SUCCEEDED", "">>,
                          <<"FAILED", "">>, <<"CANCELED", "">>} :
           runs' = [runs EXCEPT ![k].status = outcome[1], ![k].reg = outcome[2]]
    BY <1>3, Zenon DEF FinishExport
  <2>2. /\ outcome[1] \in {"SUCCEEDED", "FAILED", "CANCELED"} /\ outcome[2] \in {"", "PENDING"}
        /\ outcome[2] = "PENDING" => outcome[1] = "SUCCEEDED"
    <3>1. CASE outcome = <<"SUCCEEDED", "PENDING">>
      BY <3>1, Zenon
    <3>2. CASE outcome = <<"SUCCEEDED", "">>
      BY <3>2, Zenon
    <3>3. CASE outcome = <<"FAILED", "">>
      BY <3>3, Zenon
    <3>4. CASE outcome = <<"CANCELED", "">>
      BY <3>4, Zenon
    <3> QED
      BY <2>1, <3>1, <3>2, <3>3, <3>4, Zenon
  <2>3. runs' \in [Runs -> Run] /\ \A j \in Runs \ {k} : runs'[j] = runs[j]
    BY <1>1, <2>1, <2>2, Zenon DEF Run
  <2>4. /\ runs'[k].reg = outcome[2] /\ runs'[k].kind = runs[k].kind
        /\ runs'[k].status = outcome[1]
    BY <1>1, <2>1, Zenon DEF Run
  <2>5. /\ runs[k].kind = "export" /\ runs[k].status = "RUNNING" /\ store' = store \cup {k}
    BY <1>3, Zenon DEF FinishExport
  <2>6. RunMove(k)
    BY <2>2, <2>3, <2>4, <2>5, Zenon DEF RunMove, MayEnter
  <2>7. Untouched(k)
    BY <2>5, OtherRunsUntouched, Zenon
  <2> QED
    BY <2>5, <2>6, <2>7, Zenon
<1>4. CASE RegistrationFails(k)
  <2>1. PICK reg \in {"PENDING", "FAILED"} : runs' = [runs EXCEPT ![k].reg = reg]
    BY <1>4, Zenon DEF RegistrationFails
  <2>2. runs[k].reg \in {"PENDING", "FAILED"} /\ UNCHANGED store
    BY <1>4, Zenon DEF RegistrationFails
  <2>3. runs' \in [Runs -> Run] /\ \A j \in Runs \ {k} : runs'[j] = runs[j]
    BY <1>1, <2>1, Zenon DEF Run
  <2>4. /\ runs'[k].reg = reg /\ runs'[k].kind = runs[k].kind
        /\ runs'[k].status = runs[k].status
    BY <1>1, <2>1, Zenon DEF Run
  <2>5. runs[k].kind = "export" /\ runs[k].status = "SUCCEEDED" /\ k \in store
    BY <2>2, Zenon DEF MaintInv, RowsConsistent, FilesThere
  <2>6. RunMove(k)
    BY <2>2, <2>3, <2>4, <2>5, Zenon DEF RunMove, MayEnter
  <2>7. Untouched(k)
    BY <2>5, OtherRunsUntouched, Zenon
  <2> QED
    BY <2>2, <2>6, <2>7, Zenon
<1>5. CASE FailAbandonedPlanningRun(k)
  <2>1. /\ runs[k].status = "PLANNING" /\ runs' = [runs EXCEPT ![k].status = "FAILED"]
        /\ \A h \in Holders : hold[h].run # k
        /\ UNCHANGED store
    BY <1>5, Zenon DEF FailAbandonedPlanningRun
  <2>2. RunMove(k)
    BY <2>1, StatusMoves, Zenon
  <2>3. Untouched(k)
    BY <2>1, Zenon DEF Untouched, MaintInv, CommitCurrent
  <2> QED
    BY <2>1, <2>2, <2>3, Zenon
<1>6. CASE CompactInputs(k)
  <2>1. /\ runs[k].kind = "compaction" /\ runs[k].status = "RUNNING"
        /\ \/ /\ store' = store \cup {k}
              /\ \E status \in {"COMMITTING", "CANCELED", "FAILED"} :
                   runs' = [runs EXCEPT ![k].status = status]
           \/ store' = store /\ runs' = [runs EXCEPT ![k].status = "FAILED"]
    BY <1>6, Zenon DEF CompactInputs
  <2>2. RunMove(k)
    <3>1. CASE store' = store /\ runs' = [runs EXCEPT ![k].status = "FAILED"]
      BY <2>1, <3>1, StatusMoves, Zenon
    <3>2. CASE /\ store' = store \cup {k}
               /\ \E status \in {"COMMITTING", "CANCELED", "FAILED"} :
                    runs' = [runs EXCEPT ![k].status = status]
      BY <2>1, <3>2, StatusMoves, Zenon
    <3> QED
      BY <2>1, <3>1, <3>2, Zenon
  <2>3. Untouched(k)
    BY <2>1, OtherRunsUntouched, Zenon
  <2> QED
    BY <2>1, <2>2, <2>3, Zenon
<1>7. CASE CommitExhausted(k)
  <2>1. /\ runs[k].status = "COMMITTING" /\ commit.step = "idle"
        /\ runs' = [runs EXCEPT ![k].status = "FAILED"] /\ UNCHANGED store
    BY <1>7, Zenon DEF CommitExhausted
  <2>2. RunMove(k)
    BY <2>1, StatusMoves, Zenon
  <2>3. Untouched(k)
    BY <2>1, Zenon DEF Untouched, MaintInv, PlansOwn
  <2> QED
    BY <2>1, <2>2, <2>3, Zenon
<1> QED
  BY <1>2, <1>3, <1>4, <1>5, <1>6, <1>7, Zenon DEF RunAction

\* What the passes that write runs do to them.
LEMMA PlannedRunMoves ==
    ASSUME MaintenanceConstants, MaintInv, NEW h \in Holders,
           CreateCompactionRun(h) \/ SetMaintenanceRunID(h) \/ StartRunWithTasks(h)
    PROVE  UNCHANGED runs \/ \E k \in Runs : RunMove(k)
<1>1. runs \in [Runs -> Run] /\ op \in Operation
  BY Zenon DEF MaintInv, Types
<1>2. UNCHANGED store
  BY Zenon DEF CreateCompactionRun, SetMaintenanceRunID, StartRunWithTasks
<1>3. ASSUME NEW k \in Runs, NextRun(k),
             runs' = [runs EXCEPT ![k] = [kind |-> "compaction", status |-> "PLANNING",
                                          reg |-> "", inputs |-> op.inputs]]
      PROVE  RunMove(k)
  <2>1. [kind |-> "compaction", status |-> "PLANNING", reg |-> "", inputs |-> op.inputs] \in Run
    BY <1>1, Zenon DEF Run, Operation
  <2>2. /\ runs' \in [Runs -> Run] /\ \A j \in Runs \ {k} : runs'[j] = runs[j]
        /\ runs'[k] = [kind |-> "compaction", status |-> "PLANNING", reg |-> "", inputs |-> op.inputs]
    BY <1>1, <1>3, <2>1, Zenon
  <2>3. runs[k].status = "NONE"
    BY <1>3, Zenon DEF NextRun
  <2>4. runs'[k].reg = "" /\ runs'[k].status = "PLANNING"
    <3>1. ASSUME NEW r, r = [kind |-> "compaction", status |-> "PLANNING",
                             reg |-> "", inputs |-> op.inputs]
          PROVE  r.reg = "" /\ r.status = "PLANNING"
      BY <3>1, Zenon
    <3> QED
      BY <2>2, <3>1, Zenon
  <2> QED
    BY <2>2, <2>3, <2>4, Zenon DEF RunMove, MayEnter
<1>4. Planning(h) => hold[h].run \in Runs /\ runs[hold[h].run].status = "PLANNING"
  BY Zenon DEF MaintInv, PlansOwn
<1>5. ASSUME Planning(h), NEW status \in {"RUNNING", "FAILED"},
             runs' = [runs EXCEPT ![hold[h].run].status = status]
      PROVE  \E k \in Runs : RunMove(k)
  BY <1>4, <1>5, StatusMoves, Zenon
<1>6. CASE CreateCompactionRun(h)
  BY <1>3, <1>6, Zenon DEF CreateCompactionRun
<1>7. CASE SetMaintenanceRunID(h)
  BY <1>5, <1>7, Zenon DEF SetMaintenanceRunID, Planning
<1>8. CASE StartRunWithTasks(h)
  BY <1>5, <1>8, Zenon DEF StartRunWithTasks, Planning
<1> QED
  BY <1>6, <1>7, <1>8, Zenon

LEMMA RegisterMoves ==
    ASSUME MaintInv, NEW k \in Runs, Register(k)
    PROVE  RunMove(k) /\ Untouched(k) /\ ~MayEnter(k)' /\ MayEnter(k) /\ k \in store
<1>1. runs \in [Runs -> Run] /\ runs[k] \in Run
  BY Zenon DEF MaintInv, Types
<1>2. runs[k].reg = "PENDING" /\ runs' = [runs EXCEPT ![k].reg = "REGISTERED"]
  BY Zenon DEF Register
<1>3. runs' \in [Runs -> Run] /\ \A j \in Runs \ {k} : runs'[j] = runs[j]
  BY <1>1, <1>2, Zenon DEF Run
<1>4. /\ runs'[k].reg = "REGISTERED" /\ runs'[k].kind = runs[k].kind
      /\ runs'[k].status = runs[k].status
  BY <1>1, <1>2, Zenon DEF Run
<1>5. runs[k].kind = "export" /\ runs[k].status = "SUCCEEDED" /\ k \in store
  BY <1>2, Zenon DEF MaintInv, RowsConsistent, FilesThere
<1>6. RunMove(k)
  BY <1>2, <1>3, <1>4, <1>5, Zenon DEF RunMove, MayEnter
<1>7. Untouched(k)
  BY <1>5, OtherRunsUntouched, Zenon
<1>8. ~MayEnter(k)' /\ MayEnter(k)
  BY <1>2, <1>4, <1>5, Zenon DEF MayEnter
<1> QED
  BY <1>5, <1>6, <1>7, <1>8, Zenon

LEMMA CompactionEnds ==
    ASSUME MaintInv, EndCompactionRun
    PROVE  /\ RunMove(commit.run) /\ commit.run \in Runs
           /\ \A h \in Holders : Planning(h) => hold[h].run # commit.run
<1>1. commit.run \in Runs /\ runs[commit.run].status = "COMMITTING"
  BY Zenon DEF EndCompactionRun, MaintInv, CommitCurrent
<1>2. \E status \in {"SUCCEEDED", "FAILED"} : runs' = [runs EXCEPT ![commit.run].status = status]
  BY Zenon DEF EndCompactionRun
<1>3. RunMove(commit.run)
  BY <1>1, <1>2, StatusMoves, Zenon
<1>4. \A h \in Holders : Planning(h) => hold[h].run # commit.run
  BY <1>1, Zenon DEF MaintInv, PlansOwn
<1> QED
  BY <1>1, <1>3, <1>4, Zenon

-----------------------------------------------------------------------------
(* What follows from the shape of a step *)

\* No run begins to enter the table again.
RunsStep == \A k \in Runs : MayEnter(k)' => MayEnter(k)

LEMMA RowsKept ==
    ASSUME MaintInv, UNCHANGED runs \/ \E k \in Runs : RunMove(k),
           \A f \in store \ store' : Settled(f),
           \A j \in Runs : MaxRuns + j \in store' \ store => ~MayEnter(j)'
    PROVE  RunsStep /\ RowsConsistent' /\ FilesThere'
<1>1. CASE UNCHANGED runs
  <2>1. RunsStep /\ RowsConsistent'
    BY <1>1, Zenon DEF RunsStep, MayEnter, MaintInv, RowsConsistent
  <2>2. ASSUME NEW j \in Runs, MayEnter(j), j \in store PROVE j \in store'
    BY <2>2, Zenon DEF Settled
  <2>3. FilesThere'
    BY <1>1, <2>2, Zenon DEF FilesThere, MayEnter, MaintInv
  <2> QED
    BY <2>1, <2>3, Zenon
<1>2. ASSUME NEW k \in Runs, RunMove(k) PROVE RunsStep /\ RowsConsistent' /\ FilesThere'
  <2>1. /\ \A j \in Runs \ {k} : runs'[j] = runs[j] /\ (MayEnter(j)' <=> MayEnter(j))
        /\ MayEnter(k)
    BY <1>2, Zenon DEF RunMove, MayEnter
  <2>2. RunsStep
    BY <2>1, Zenon DEF RunsStep
  <2>3. RowsConsistent'
    <3>1. ASSUME NEW j \in Runs
          PROVE  /\ runs'[j].reg # "" => runs'[j].kind = "export" /\ runs'[j].status = "SUCCEEDED"
                 /\ runs'[j].status = "COMMITTING" => runs'[j].kind = "compaction"
      <4>1. CASE j = k
        BY <1>2, <4>1, Zenon DEF RunMove
      <4>2. CASE j # k
        <5>1. runs'[j] = runs[j]
          BY <2>1, <4>2, Zenon
        <5> QED
          BY <5>1, Zenon DEF MaintInv, RowsConsistent
      <4> QED
        BY <4>1, <4>2, Zenon
    <3> QED
      BY <3>1, Zenon DEF RowsConsistent
  <2>4. ASSUME NEW j \in Runs, MayEnter(j), j \in store PROVE j \in store'
    BY <2>4, Zenon DEF Settled
  <2>5. ASSUME NEW j \in Runs,
               runs'[j].reg \in {"PENDING", "FAILED"} \/ runs'[j].status = "COMMITTING"
        PROVE  j \in store'
    <3>1. CASE j = k
      BY <1>2, <2>5, <3>1, Zenon DEF RunMove
    <3>2. CASE j # k
      <4>1. runs[j].reg \in {"PENDING", "FAILED"} \/ runs[j].status = "COMMITTING"
        BY <2>1, <2>5, <3>2, Zenon
      <4>2. j \in store /\ MayEnter(j)
        BY <4>1, Zenon DEF MaintInv, FilesThere, MayEnter
      <4> QED
        BY <2>4, <4>2, Zenon
    <3> QED
      BY <3>1, <3>2, Zenon
  <2>6. ASSUME NEW j \in Runs, MaxRuns + j \in store' PROVE ~MayEnter(j)'
    BY <2>2, <2>6, Zenon DEF RunsStep, MaintInv, FilesThere
  <2> QED
    BY <2>2, <2>3, <2>5, <2>6, Zenon DEF FilesThere
<1> QED
  BY <1>1, <1>2, Zenon

\* The table stays as it is, or a new version adds files of runs that were not
\* done at most.
TableStep ==
    \/ UNCHANGED table
    \/ /\ table'.ver = table.ver + 1
       /\ \A f \in Referenced' : f \in Referenced \/ ~Settled(f)

\* A pass that does nothing stays safe.
LEMMA PassKept ==
    ASSUME MaintInv, RunsStep, TableStep, NEW h \in Holders, hold'[h] = hold[h]
    PROVE  PassSafe(h)'
<1>1. table.ver \in Nat /\ hold[h].ver \in Nat /\ PassSafe(h)
  BY Zenon DEF MaintInv, Types, PassState
<1>2. \A f : Settled(f) => Settled(f)'
  BY Zenon DEF Settled, RunsStep
<1>3. CASE UNCHANGED table
  <2>1. Referenced' = Referenced
    BY <1>3, Zenon DEF Referenced
  <2> QED
    BY <1>1, <1>2, <1>3, <2>1, Zenon DEF PassSafe
<1>4. CASE /\ table'.ver = table.ver + 1
           /\ \A f \in Referenced' : f \in Referenced \/ ~Settled(f)
  <2>1. hold[h].ver <= table.ver => hold[h].ver <= table'.ver /\ hold[h].ver # table'.ver
    BY <1>1, <1>4
  <2>2. hold[h].step \in {"delete", "remove"} => hold[h].todo \cap Referenced' = {}
    BY <1>1, <1>4, Zenon DEF PassSafe
  <2> QED
    BY <1>1, <1>2, <2>1, <2>2, Zenon DEF PassSafe
<1> QED
  BY <1>3, <1>4, Zenon DEF TableStep

\* A pass that is over, or is planning a compaction, has nothing to keep.
\* What ListAndClassify may delete will not enter the table again.
LEMMA UnneededSettled ==
    ASSUME MaintInv, NEW h \in Holders, NEW f \in Unneeded(h) PROVE Settled(f)
<1> SUFFICES ASSUME NEW k \in Runs, f \in {k, MaxRuns + k} PROVE ~MayEnter(k)
  BY Zenon DEF Settled
<1>1. runs[k] \in Run
  BY Zenon DEF MaintInv, Types
<1>2. CASE f = k
  <2>1. RunDone(k)
    BY <1>2, Zenon DEF Unneeded
  <2> QED
    BY <1>1, <2>1, Zenon DEF RunDone, MayEnter, MaintInv, RowsConsistent, Run
<1>3. CASE f = MaxRuns + k
  BY <1>3, Zenon DEF Unneeded, MaintInv, FilesThere
<1> QED
  BY <1>2, <1>3, Zenon

LEMMA QuietPassSafe ==
    ASSUME MaintInv, NEW h \in Holders, QuietPass(h)
    PROVE  PlansOwn' /\ \A g \in Holders : PassSafe(g)'
<1>1. hold \in [Holders -> PassState] /\ hold[h] \in PassState /\ table.ver \in Nat
  BY Zenon DEF MaintInv, Types
<1>2. UNCHANGED <<runs, store, table, commit>>
  BY QuietPassLeaves, Zenon
<1>3. /\ RunsStep /\ TableStep /\ Referenced' = Referenced
      /\ \A f : Settled(f)' <=> Settled(f)
  BY <1>2, Zenon DEF RunsStep, TableStep, Referenced, MayEnter, Settled
<1>4. \A g \in Holders \ {h} : hold'[g] = hold[g]
  BY <1>1, Zenon DEF QuietPass, ClaimMaintenanceOperation, HolderStops, MaintenanceFails,
     TableReferences, ListAndClassify, CheckBusy, CheckUnchanged, RenewMaintenanceLease,
     FollowRun, FollowedRunSucceeded, PlanCompaction, SubmitCompaction, Finish, GiveUp, GoOn
<1>5. IdleHold.step = "idle"
  BY Zenon DEF IdleHold
<1>6. ASSUME NEW status, Finish(h, status)
      PROVE  hold'[h].step \notin {"list", "busy", "unchanged", "delete", "remove", "link", "start"}
  BY <1>1, <1>5, <1>6, Zenon DEF Finish
<1>7. ASSUME GiveUp(h)
      PROVE  hold'[h].step \notin {"list", "busy", "unchanged", "delete", "remove", "link", "start"}
  BY <1>1, <1>5, <1>7, Zenon DEF GiveUp
<1>8. ASSUME NEW step, GoOn(h, step)
      PROVE  /\ hold'[h].step = step /\ hold'[h].ver = hold[h].ver
             /\ hold'[h].todo = hold[h].todo
  BY <1>1, <1>8, Zenon DEF GoOn, PassState
<1>9. PassSafe(h)
  BY Zenon DEF MaintInv
<1>10. PassSafe(h)' /\ ~Planning(h)'
  <2>1. ASSUME hold'[h].step \notin {"list", "busy", "unchanged", "delete", "remove", "link", "start"}
        PROVE  PassSafe(h)' /\ ~Planning(h)'
    BY <2>1, Zenon DEF PassSafe, Planning
  <2>2. CASE ClaimMaintenanceOperation(h)
    <3>1. hold'[h].step \in {"follow", "refs"}
      BY <1>1, <2>2, Zenon DEF ClaimMaintenanceOperation, IdleHold
    <3> QED
      BY <2>1, <3>1, Zenon
  <2>3. CASE HolderStops(h)
    BY <1>1, <1>5, <2>1, <2>3, Zenon DEF HolderStops
  <2>4. CASE MaintenanceFails(h) \/ FollowedRunSucceeded(h) \/ SubmitCompaction(h)
    BY <1>6, <2>1, <2>4, Zenon DEF MaintenanceFails, FollowedRunSucceeded, SubmitCompaction
  <2>5. CASE FollowRun(h)
    <3>1. \E step \in {"plan", "submit", "followed"} : GoOn(h, step)
      BY <2>5, Zenon DEF FollowRun
    <3>2. hold'[h].step \in {"plan", "submit", "followed"}
      BY <1>8, <3>1, Zenon
    <3> QED
      BY <2>1, <3>2, Zenon
  <2>6. CASE PlanCompaction(h)
    <3>1. Finish(h, "SUCCEEDED") \/ GiveUp(h) \/ GoOn(h, "create")
      BY <2>6, Zenon DEF PlanCompaction
    <3> QED
      BY <1>6, <1>7, <1>8, <2>1, <3>1
  <2>7. CASE TableReferences(h)
    <3>1. hold'[h].step = "list" /\ hold'[h].refs = Referenced /\ hold'[h].ver = table.ver
      BY <1>1, <2>7, Zenon DEF TableReferences, PassState
    <3> QED
      BY <1>1, <1>2, <1>3, <3>1 DEF PassSafe, Planning
  <2>8. CASE ListAndClassify(h)
    <3>1. hold[h].step = "list"
      BY <2>8, Zenon DEF ListAndClassify
    <3>2. ASSUME NEW todo \in SUBSET Unneeded(h),
                 hold' = [hold EXCEPT ![h].step = "busy", ![h].todo = todo]
          PROVE  PassSafe(h)' /\ ~Planning(h)'
      <4>1. hold'[h].step = "busy" /\ hold'[h].todo = todo /\ hold'[h].ver = hold[h].ver
        BY <1>1, <3>2, Zenon DEF PassState
      <4>2. \A f \in todo : Settled(f) /\ f \notin hold[h].refs
        BY UnneededSettled, Zenon DEF Unneeded
      <4>3. hold[h].ver <= table.ver /\ (hold[h].ver = table.ver => todo \cap Referenced = {})
        BY <1>9, <3>1, <4>2, Zenon DEF PassSafe
      <4> QED
        BY <1>2, <1>3, <4>1, <4>2, <4>3, Zenon DEF PassSafe, Planning
    <3>3. \/ GiveUp(h) \/ Finish(h, "SUCCEEDED")
          \/ \E todo \in SUBSET Unneeded(h) :
               hold' = [hold EXCEPT ![h].step = "busy", ![h].todo = todo]
      BY <2>8, Zenon DEF ListAndClassify
    <3> QED
      BY <1>6, <1>7, <2>1, <3>2, <3>3, Zenon
  <2>9. CASE CheckBusy(h)
    <3>1. hold[h].step = "busy" /\ (Finish(h, "ABORTED") \/ GoOn(h, "unchanged"))
      BY <2>9, Zenon DEF CheckBusy
    <3>2. CASE GoOn(h, "unchanged")
      BY <1>2, <1>3, <1>8, <1>9, <3>1, <3>2 DEF PassSafe, Planning
    <3> QED
      BY <1>6, <2>1, <3>1, <3>2, Zenon
  <2>10. CASE CheckUnchanged(h)
    <3>1. /\ hold[h].step = "unchanged"
          /\ Finish(h, "ABORTED") \/ (GoOn(h, "delete") /\ table.ver = hold[h].ver)
      BY <2>10, Zenon DEF CheckUnchanged
    <3>2. CASE GoOn(h, "delete") /\ table.ver = hold[h].ver
      BY <1>2, <1>3, <1>8, <1>9, <3>1, <3>2 DEF PassSafe, Planning
    <3> QED
      BY <1>6, <2>1, <3>1, <3>2, Zenon
  <2>11. CASE RenewMaintenanceLease(h)
    <3>1. /\ hold[h].step = "delete"
          /\ \/ Finish(h, "SUCCEEDED") \/ Finish(h, "FAILED") \/ Finish(h, "ABORTED")
             \/ GiveUp(h) \/ GoOn(h, "remove")
      BY <2>11, Zenon DEF RenewMaintenanceLease
    <3>2. CASE GoOn(h, "remove")
      BY <1>2, <1>3, <1>8, <1>9, <3>1, <3>2 DEF PassSafe, Planning
    <3> QED
      BY <1>6, <1>7, <2>1, <3>1, <3>2, Zenon
  <2> QED
    BY <2>2, <2>3, <2>4, <2>5, <2>6, <2>7, <2>8, <2>9, <2>10, <2>11, Zenon DEF QuietPass
<1>11. \A g \in Holders : PassSafe(g)'
  BY <1>3, <1>4, <1>10, PassKept, Zenon
<1>12. PlansOwn'
  BY <1>2, <1>4, <1>10, Zenon DEF MaintInv, PlansOwn, Planning
<1> QED
  BY <1>11, <1>12, Zenon

-----------------------------------------------------------------------------
(* Every step keeps the invariant *)

LEMMA CommitKept ==
    ASSUME MaintInv, UNCHANGED <<table, commit>>,
           commit.step # "idle" => runs'[commit.run] = runs[commit.run]
    PROVE  CommitCurrent'
  BY Zenon DEF MaintInv, CommitCurrent, Current

LEMMA PlansKept ==
    ASSUME MaintInv, UNCHANGED hold,
           \A h \in Holders : Planning(h) => runs'[hold[h].run] = runs[hold[h].run]
    PROVE  PlansOwn'
  BY Zenon DEF MaintInv, PlansOwn, Planning

\* Exports, registrations that fail or are requeued, and compaction runs.
LEMMA RunActionKeeps ==
    ASSUME MaintenanceConstants, MaintInv, NEW k \in Runs, RunAction(k) PROVE MaintInv'
<1>1. RunMove(k) /\ Untouched(k) /\ store' \in {store, store \cup {k}}
  BY RunActionMoves, Zenon
<1>2. UNCHANGED <<table, op, hold, commit>>
  BY RunActionLeaves, Zenon
<1>3. /\ store \ store' = {} /\ store \subseteq store' /\ store' \subseteq Files
      /\ \A j \in Runs : MaxRuns + j \notin store' \ store
  BY <1>1, FileNames, Zenon DEF MaintInv, Types
<1>4. Types'
  BY <1>1, <1>2, <1>3, Zenon DEF MaintInv, Types, RunMove
<1>5. RunsStep /\ RowsConsistent' /\ FilesThere'
  BY <1>1, <1>3, RowsKept, Zenon
<1>6. \A j \in Runs \ {k} : runs'[j] = runs[j]
  BY <1>1, Zenon DEF RunMove
<1>7. CommitCurrent'
  BY <1>1, <1>2, <1>6, CommitKept, Zenon DEF Untouched, MaintInv, CommitCurrent
<1>8. PlansOwn'
  BY <1>1, <1>2, <1>6, PlansKept, Zenon DEF Untouched, MaintInv, PlansOwn
<1>9. \A h \in Holders : PassSafe(h)'
  BY <1>2, <1>5, PassKept, Zenon DEF TableStep
<1>10. ReferencedFilesExist'
  BY <1>2, <1>3, Zenon DEF MaintInv, ReferencedFilesExist, Referenced
<1> QED
  BY <1>4, <1>5, <1>7, <1>8, <1>9, <1>10, Zenon DEF MaintInv

\* A registration adds files of a run that was not done, and they are there.
LEMMA RegisterKeeps ==
    ASSUME MaintenanceConstants, MaintInv, NEW k \in Runs, Register(k) PROVE MaintInv'
<1>1. RunMove(k) /\ Untouched(k) /\ ~MayEnter(k)' /\ MayEnter(k) /\ k \in store
  BY RegisterMoves, Zenon
<1>2. UNCHANGED <<op, hold, commit>>
  BY Zenon DEF Register
<1>3. /\ Current \subseteq Referenced /\ Current \subseteq Files
      /\ k \in Files /\ MaxRuns + k \in Files /\ NoRun \in Runs \cup {NoRun}
  BY CurrentReferenced, FileNames, Zenon DEF MaintInv
<1>4. PICK files \in SUBSET Files :
         /\ NewSnapshot(files, NoRun)
         /\ files \subseteq Current \cup {k, MaxRuns + k}
         /\ \/ UNCHANGED store /\ files \subseteq Current \cup {k}
            \/ store' = store \cup {MaxRuns + k}
  <2>1. CASE /\ \E files \in {Current \cup {k}, {k}} : NewSnapshot(files, NoRun)
             /\ UNCHANGED store
    BY <1>3, <2>1, Zenon
  <2>2. CASE \E f \in Current :
               /\ store' = store \cup {MaxRuns + k}
               /\ NewSnapshot((Current \ {f}) \cup {k, MaxRuns + k}, NoRun)
    BY <1>3, <2>2, Zenon
  <2> QED
    BY <2>1, <2>2, Zenon DEF Register
<1>5. /\ table' \in [ver : Nat, snaps : Seq(Snapshot)] /\ table'.snaps # <<>>
      /\ table'.ver = table.ver + 1
      /\ Referenced' = Referenced \cup files
  BY <1>3, <1>4, SnapshotAdded, Zenon DEF MaintInv
<1>6. store \subseteq store' /\ store' \subseteq Files /\ store' \subseteq store \cup {MaxRuns + k}
  BY <1>3, <1>4, Zenon DEF MaintInv, Types
<1>7. \A j \in Runs : MaxRuns + j \in store' \ store => j = k
  <2>1. \A j \in Runs : MaxRuns + j = MaxRuns + k => j = k
    BY DEF MaintenanceConstants, Runs
  <2> QED
    BY <1>6, <2>1, Zenon
<1>8. RunsStep /\ RowsConsistent' /\ FilesThere'
  BY <1>1, <1>6, <1>7, RowsKept, Zenon
<1>9. ~Settled(k) /\ ~Settled(MaxRuns + k)
  BY <1>1, Zenon DEF Settled
<1>10. TableStep
  BY <1>3, <1>4, <1>5, <1>9, Zenon DEF TableStep
<1>11. Types'
  BY <1>1, <1>2, <1>5, <1>6, Zenon DEF MaintInv, Types, RunMove
<1>12. \A j \in Runs \ {k} : runs'[j] = runs[j]
  BY <1>1, Zenon DEF RunMove
<1>13. CommitCurrent'
  <2>1. commit.step = "commit" => commit.ver <= table'.ver /\ commit.ver # table'.ver
    BY <1>5 DEF MaintInv, Types, CommitState, CommitCurrent
  <2> QED
    BY <1>1, <1>2, <1>12, <2>1, Zenon DEF Untouched, MaintInv, CommitCurrent
<1>14. PlansOwn'
  BY <1>1, <1>2, <1>12, PlansKept, Zenon DEF Untouched, MaintInv, PlansOwn
<1>15. \A h \in Holders : PassSafe(h)'
  BY <1>2, <1>8, <1>10, PassKept, Zenon
<1>16. ReferencedFilesExist'
  BY <1>1, <1>3, <1>4, <1>5, <1>6, Zenon DEF MaintInv, ReferencedFilesExist
<1> QED
  BY <1>8, <1>11, <1>13, <1>14, <1>15, <1>16, Zenon DEF MaintInv

LEMMA ExpireKeeps == ASSUME MaintInv, ExpireSnapshot PROVE MaintInv'
<1>1. UNCHANGED <<runs, store, op, hold, commit>>
  BY Zenon DEF ExpireSnapshot
<1>2. /\ table' \in [ver : Nat, snaps : Seq(Snapshot)] /\ table'.snaps # <<>>
      /\ table'.ver = table.ver + 1
      /\ Referenced' \subseteq Referenced
  BY SnapshotExpired, Zenon DEF MaintInv
<1>3. RunsStep /\ RowsConsistent' /\ FilesThere'
  BY <1>1, RowsKept, Zenon
<1>4. Types'
  BY <1>1, <1>2, Zenon DEF MaintInv, Types
<1>5. CommitCurrent'
  <2>1. commit.step = "commit" => commit.ver <= table'.ver /\ commit.ver # table'.ver
    BY <1>2 DEF MaintInv, Types, CommitState, CommitCurrent
  <2> QED
    BY <1>1, <2>1, Zenon DEF MaintInv, CommitCurrent
<1>6. PlansOwn'
  BY <1>1, PlansKept, Zenon
<1>7. \A h \in Holders : PassSafe(h)'
  BY <1>1, <1>2, <1>3, PassKept, Zenon DEF TableStep
<1>8. ReferencedFilesExist'
  BY <1>1, <1>2, Zenon DEF MaintInv, ReferencedFilesExist
<1> QED
  BY <1>3, <1>4, <1>5, <1>6, <1>7, <1>8, Zenon DEF MaintInv

LEMMA SameRowsAndTable ==
    ASSUME MaintInv, UNCHANGED <<runs, store, table>>
    PROVE  /\ RunsStep /\ RowsConsistent' /\ FilesThere'
           /\ ReferencedFilesExist' /\ TableStep
<1>1. RunsStep /\ RowsConsistent' /\ FilesThere'
  BY RowsKept, Zenon
<1> QED
  BY <1>1, Zenon DEF MaintInv, ReferencedFilesExist, Referenced, TableStep

LEMMA QuietPassKeeps ==
    ASSUME MaintInv, NEW h \in Holders, QuietPass(h) PROVE MaintInv'
<1>1. UNCHANGED <<runs, store, table, commit>>
  BY QuietPassLeaves, Zenon
<1>2. op' \in Operation /\ hold' \in [Holders -> PassState]
  BY PassTyped, Zenon DEF MaintInv
<1>3. Types' /\ CommitCurrent'
  BY <1>1, <1>2, CommitKept, Zenon DEF MaintInv, Types
<1> QED
  BY <1>1, <1>3, SameRowsAndTable, QuietPassSafe, Zenon DEF MaintInv

LEMMA OperationActionKeeps == ASSUME MaintInv, OperationAction PROVE MaintInv'
<1>1. UNCHANGED <<runs, store, table, hold, commit>>
  BY OperationActionLeaves, Zenon
<1>2. op \in Operation
  BY Zenon DEF MaintInv, Types
<1>3. op' \in Operation
  <2>1. ASSUME NEW kind \in {"ORPHAN_CLEANUP", "COMPACTION"}, CreateMaintenanceOperation(kind)
        PROVE  op' \in Operation
    BY <1>2, <2>1, Zenon DEF CreateMaintenanceOperation, NoOp, NoRun, Operation
  <2>2. CASE MaintenanceLeaseLapses
    BY <1>2, <2>2, Zenon DEF MaintenanceLeaseLapses, Operation
  <2>3. CASE FailSubmittedCompactions
    BY <1>2, <2>3, Zenon DEF FailSubmittedCompactions, Operation
  <2> QED
    BY <2>1, <2>2, <2>3, Zenon DEF OperationAction
<1>4. Types' /\ CommitCurrent' /\ PlansOwn'
  BY <1>1, <1>3, CommitKept, PlansKept, Zenon DEF MaintInv, Types
<1>5. \A h \in Holders : PassSafe(h)'
  BY <1>1, SameRowsAndTable, PassKept, Zenon
<1> QED
  BY <1>1, <1>4, <1>5, SameRowsAndTable, Zenon DEF MaintInv

LEMMA OperationCompleted ==
    ASSUME op \in Operation, NEW k, NEW status \in {"SUCCEEDED", "ABORTED"},
           CompleteCompactionOperation(k, status)
    PROVE  op' \in Operation
  BY Zenon DEF CompleteCompactionOperation, Operation

LEMMA CommitActionKeeps == ASSUME MaintInv, CommitAction PROVE MaintInv'
<1>1. UNCHANGED <<runs, store, table, hold>>
  BY CommitActionLeaves, Zenon
<1>2. op \in Operation /\ commit \in CommitState /\ table.ver \in Nat /\ Current \subseteq Files
  BY CurrentReferenced, Zenon DEF MaintInv, Types
<1>3. Current' = Current
  BY <1>1, Zenon DEF Current
<1>4. op' \in Operation /\ commit' \in CommitState /\ CommitCurrent'
  <2>1. ASSUME NEW k \in Runs, LoadForCommit(k)
        PROVE  op' \in Operation /\ commit' \in CommitState /\ CommitCurrent'
    <3>1. runs'[k].status = "COMMITTING"
      BY <1>1, <2>1, Zenon DEF LoadForCommit
    <3>2. ASSUME NEW step \in {"landed", "refused"},
                 commit' = [commit EXCEPT !.step = step, !.run = k]
          PROVE  commit' \in CommitState /\ CommitCurrent'
      <4>1. commit' \in CommitState /\ commit'.step = step /\ commit'.run = k
        BY <1>2, <3>2, Zenon DEF CommitState
      <4> QED
        BY <3>1, <4>1, Zenon DEF CommitCurrent
    <3>3. ASSUME commit' = [commit EXCEPT !.step = "commit", !.run = k,
                                          !.ver = table.ver, !.files = Current]
          PROVE  commit' \in CommitState /\ CommitCurrent'
      <4>1. /\ commit' \in CommitState /\ commit'.run = k
            /\ commit'.ver = table.ver /\ commit'.files = Current
        BY <1>2, <3>3, Zenon DEF CommitState
      <4>2. commit'.ver <= table'.ver
        BY <1>1, <1>2, <4>1
      <4> QED
        BY <1>3, <3>1, <4>1, <4>2, Zenon DEF CommitCurrent
    <3>4. op' \in Operation
      BY <1>2, <2>1, OperationCompleted, Zenon DEF LoadForCommit
    <3> QED
      BY <2>1, <3>2, <3>3, <3>4, Zenon DEF LoadForCommit
  <2>2. CASE RecordCompaction
    <3>1. op' \in Operation
      BY <1>2, <2>2, OperationCompleted, Zenon DEF RecordCompaction
    <3>2. /\ commit' \in CommitState /\ commit'.step = "recorded" /\ commit'.run = commit.run
          /\ commit.step # "idle"
      BY <1>2, <2>2, Zenon DEF RecordCompaction, CommitState
    <3> QED
      BY <1>1, <3>1, <3>2, Zenon DEF CommitCurrent, MaintInv
  <2>3. CASE CommitStops
    <3>1. op' = op /\ commit' = IdleCommit
      BY <2>3, Zenon DEF CommitStops
    <3>2. IdleCommit \in CommitState /\ IdleCommit.step = "idle"
      BY Zenon DEF IdleCommit, CommitState, NoRun
    <3> QED
      BY <1>2, <3>1, <3>2, Zenon DEF CommitCurrent
  <2> QED
    BY <2>1, <2>2, <2>3, Zenon DEF CommitAction
<1>5. Types' /\ PlansOwn'
  BY <1>1, <1>4, PlansKept, Zenon DEF MaintInv, Types
<1>6. \A h \in Holders : PassSafe(h)'
  BY <1>1, SameRowsAndTable, PassKept, Zenon
<1> QED
  BY <1>1, <1>4, <1>5, <1>6, SameRowsAndTable, Zenon DEF MaintInv

\* A compaction lands: its file was written, and its run was not done.
LEMMA CommitTransactionKeeps ==
    ASSUME MaintenanceConstants, MaintInv, CommitTransaction PROVE MaintInv'
<1> DEFINE k == commit.run
<1>1. UNCHANGED <<runs, store, op, hold>> /\ commit.step = "commit"
  BY Zenon DEF CommitTransaction
<1>2. k \in Runs /\ runs[k].status = "COMMITTING"
  BY <1>1, Zenon DEF MaintInv, CommitCurrent
<1>3. k \in store /\ ~Settled(k) /\ k \in Files
  BY <1>2, FileNames, Zenon DEF MaintInv, FilesThere, Settled, MayEnter
<1>4. /\ Current \subseteq Referenced /\ Current \subseteq Files
      /\ table.ver \in Nat /\ commit \in CommitState
  BY CurrentReferenced, Zenon DEF MaintInv, Types
<1>5. \/ UNCHANGED table
      \/ \E files \in SUBSET Files :
           files \subseteq Current \cup {k} /\ NewSnapshot(files, k)
  <2>1. CASE commit.ver = table.ver
    <3> DEFINE files == (commit.files \ CommitInputs(k)) \cup {k}
    <3>1. NewSnapshot(files, k) /\ commit.files = Current
      BY <1>1, <2>1, Zenon DEF CommitTransaction, MaintInv, CommitCurrent
    <3>2. files \in SUBSET Files /\ files \subseteq Current \cup {k}
      BY <1>3, <1>4, <3>1, Zenon
    <3> QED
      BY <3>1, <3>2, Zenon
  <2>2. CASE commit.ver # table.ver
    BY <2>2, Zenon DEF CommitTransaction
  <2> QED
    BY <2>1, <2>2, Zenon
<1>6. /\ table' \in [ver : Nat, snaps : Seq(Snapshot)] /\ table'.snaps # <<>>
      /\ TableStep /\ ReferencedFilesExist'
  <2>1. CASE UNCHANGED table
    BY <1>1, <2>1, Zenon DEF MaintInv, Types, TableStep, ReferencedFilesExist, Referenced
  <2>2. ASSUME NEW files \in SUBSET Files, files \subseteq Current \cup {k}, NewSnapshot(files, k)
        PROVE  /\ table' \in [ver : Nat, snaps : Seq(Snapshot)] /\ table'.snaps # <<>>
               /\ TableStep /\ ReferencedFilesExist'
    <3>1. /\ table' \in [ver : Nat, snaps : Seq(Snapshot)] /\ table'.snaps # <<>>
          /\ table'.ver = table.ver + 1
          /\ Referenced' = Referenced \cup files
      BY <1>2, <2>2, SnapshotAdded, Zenon DEF MaintInv
    <3> QED
      BY <1>1, <1>3, <1>4, <2>2, <3>1, Zenon DEF MaintInv, TableStep, ReferencedFilesExist
  <2> QED
    BY <1>5, <2>1, <2>2, Zenon
<1>7. commit' \in CommitState /\ commit'.step \in {"idle", "load", "landed"}
      /\ (commit'.step # "idle" => commit'.run = commit.run)
  <2>1. CASE commit' = [commit EXCEPT !.step = "landed"]
    BY <1>4, <2>1, Zenon DEF CommitState
  <2>2. CASE commit' = [commit EXCEPT !.step = "load", !.tries = @ + 1]
    <3>1. commit.tries + 1 \in Nat
      BY <1>4 DEF CommitState
    <3> QED
      BY <1>4, <2>2, <3>1, Zenon DEF CommitState
  <2>3. CASE commit' = IdleCommit
    <3>1. IdleCommit \in CommitState /\ IdleCommit.step = "idle"
      BY Zenon DEF IdleCommit, CommitState, NoRun
    <3> QED
      BY <2>3, <3>1, Zenon
  <2> QED
    BY <2>1, <2>2, <2>3, Zenon DEF CommitTransaction, Again
<1>8. CommitCurrent'
  BY <1>1, <1>2, <1>7, Zenon DEF CommitCurrent
<1>9. RunsStep /\ RowsConsistent' /\ FilesThere'
  BY <1>1, RowsKept, Zenon
<1>10. Types' /\ PlansOwn'
  BY <1>1, <1>6, <1>7, PlansKept, Zenon DEF MaintInv, Types
<1>11. \A h \in Holders : PassSafe(h)'
  BY <1>1, <1>6, <1>9, PassKept, Zenon
<1> QED
  BY <1>6, <1>8, <1>9, <1>10, <1>11, Zenon DEF MaintInv

LEMMA EndCompactionRunKeeps == ASSUME MaintInv, EndCompactionRun PROVE MaintInv'
<1>1. UNCHANGED <<store, table, op, hold>> /\ commit' = IdleCommit
  BY Zenon DEF EndCompactionRun
<1>2. /\ RunMove(commit.run) /\ commit.run \in Runs
      /\ \A h \in Holders : Planning(h) => hold[h].run # commit.run
  BY CompactionEnds, Zenon
<1>3. RunsStep /\ RowsConsistent' /\ FilesThere'
  BY <1>1, <1>2, RowsKept, Zenon
<1>4. IdleCommit \in CommitState /\ IdleCommit.step = "idle"
  BY Zenon DEF IdleCommit, CommitState, NoRun
<1>5. CommitCurrent'
  BY <1>1, <1>4, Zenon DEF CommitCurrent
<1>6. Types'
  BY <1>1, <1>2, <1>4, Zenon DEF MaintInv, Types, RunMove
<1>7. PlansOwn'
  <2>1. ASSUME NEW h \in Holders, Planning(h) PROVE runs'[hold[h].run] = runs[hold[h].run]
    BY <1>2, <2>1, Zenon DEF RunMove, MaintInv, PlansOwn
  <2> QED
    BY <1>1, <2>1, PlansKept, Zenon
<1>8. (\A h \in Holders : PassSafe(h)') /\ ReferencedFilesExist'
  BY <1>1, <1>3, PassKept, Zenon DEF TableStep, MaintInv, ReferencedFilesExist, Referenced
<1> QED
  BY <1>3, <1>5, <1>6, <1>7, <1>8, Zenon DEF MaintInv

\* The deletion itself: the file is in no snapshot and no run brings it back.
LEMMA DeleteOrphanKeeps ==
    ASSUME MaintInv, NEW h \in Holders, DeleteOrphan(h) PROVE MaintInv'
<1>1. UNCHANGED <<runs, table, op, commit>> /\ hold[h].step = "remove"
  BY Zenon DEF DeleteOrphan
<1>2. hold \in [Holders -> PassState] /\ hold[h] \in PassState
  BY Zenon DEF MaintInv, Types
<1>3. PICK f \in hold[h].todo, failed \in BOOLEAN :
        /\ store' \in {store, store \ {f}}
        /\ hold' = [hold EXCEPT ![h] =
                      IF HoldsLease(h)
                      THEN [hold[h] EXCEPT !.step = "delete", !.todo = @ \ {f}, !.i = @ + 1,
                                           !.failed = @ \/ failed]
                      ELSE IdleHold]
  BY Zenon DEF DeleteOrphan
<1>4. /\ hold' \in [Holders -> PassState]
      /\ \A g \in Holders \ {h} : hold'[g] = hold[g]
      /\ \/ hold'[h].step = "delete" /\ hold'[h].todo \subseteq hold[h].todo
         \/ hold'[h].step = "idle"
  <2>1. IdleHold \in PassState /\ IdleHold.step = "idle"
    BY Zenon DEF IdleHold, PassState, NoRun
  <2> DEFINE p == [hold[h] EXCEPT !.step = "delete", !.todo = @ \ {f}, !.i = @ + 1,
                                  !.failed = @ \/ failed]
  <2>2. hold[h].i + 1 \in Nat
    BY <1>2 DEF PassState
  <2>3. p \in PassState /\ p.step = "delete" /\ p.todo \subseteq hold[h].todo
    BY <1>2, <2>2, Zenon DEF PassState
  <2>4. hold' = [hold EXCEPT ![h] = p] \/ hold' = [hold EXCEPT ![h] = IdleHold]
    <3>1. CASE HoldsLease(h)
      BY <1>3, <3>1, Zenon
    <3>2. CASE ~HoldsLease(h)
      BY <1>3, <3>2, Zenon
    <3> QED
      BY <3>1, <3>2, Zenon
  <2> HIDE DEF p
  <2> QED
    BY <1>2, <2>1, <2>3, <2>4, Zenon
<1>5. f \notin Referenced /\ Settled(f)
  BY <1>1, <1>3, Zenon DEF MaintInv, PassSafe
<1>6. /\ store' \subseteq store /\ store' \subseteq Files
      /\ \A g \in store \ store' : g = f
  BY <1>3, Zenon DEF MaintInv, Types
<1>7. RunsStep /\ RowsConsistent' /\ FilesThere'
  BY <1>1, <1>5, <1>6, RowsKept, Zenon
<1>8. Types' /\ CommitCurrent'
  BY <1>1, <1>4, <1>6, CommitKept, Zenon DEF MaintInv, Types
<1>9. PlansOwn'
  <2>1. ~Planning(h)'
    BY <1>4, Zenon DEF Planning
  <2>2. \A g \in Holders : Planning(g)' => hold'[g] = hold[g] /\ Planning(g)
    BY <1>4, <2>1, Zenon DEF Planning
  <2> QED
    BY <1>1, <2>2, Zenon DEF MaintInv, PlansOwn
<1>10. Referenced' = Referenced /\ \A g : Settled(g)' <=> Settled(g)
  BY <1>1, Zenon DEF Referenced, Settled, MayEnter
<1>11. PassSafe(h)'
  BY <1>1, <1>4, <1>10, Zenon DEF MaintInv, PassSafe
<1>12. \A g \in Holders : PassSafe(g)'
  BY <1>1, <1>4, <1>7, <1>11, PassKept, Zenon DEF TableStep
<1>13. ReferencedFilesExist'
  BY <1>5, <1>6, <1>10, Zenon DEF MaintInv, ReferencedFilesExist
<1> QED
  BY <1>7, <1>8, <1>9, <1>12, <1>13, Zenon DEF MaintInv

\* The passes that create the run of a compaction, link it and start it.
LEMMA PlanningKeeps ==
    ASSUME MaintenanceConstants, MaintInv, NEW h \in Holders,
           CreateCompactionRun(h) \/ SetMaintenanceRunID(h) \/ StartRunWithTasks(h)
    PROVE  MaintInv'
<1>1. UNCHANGED <<store, table, commit>>
  BY Zenon DEF CreateCompactionRun, SetMaintenanceRunID, StartRunWithTasks
<1>2. hold \in [Holders -> PassState] /\ hold[h] \in PassState /\ op \in Operation
  BY Zenon DEF MaintInv, Types
<1>3. UNCHANGED runs \/ \E k \in Runs : RunMove(k)
  BY PlannedRunMoves, Zenon
<1>4. RunsStep /\ RowsConsistent' /\ FilesThere'
  BY <1>1, <1>3, RowsKept, Zenon
<1>5. runs' \in [Runs -> Run]
  BY <1>3, Zenon DEF RunMove, MaintInv, Types
<1>6. Planning(h) => /\ hold[h].run \in Runs /\ runs[hold[h].run].status = "PLANNING"
                     /\ \A g \in Holders \ {h} : Planning(g) => hold[g].run # hold[h].run
  BY Zenon DEF MaintInv, PlansOwn
<1>7. IdleHold \in PassState /\ IdleHold.step = "idle"
  BY Zenon DEF IdleHold, PassState, NoRun
\* What the pass does to itself: it gives up, goes on, or takes a run it created.
<1>8. /\ op' \in Operation
      /\ hold' \in [Holders -> PassState]
      /\ \A g \in Holders \ {h} : hold'[g] = hold[g]
      /\ \/ hold'[h].step = "idle" \/ hold'[h].step = "submit"
         \/ /\ Planning(h) /\ UNCHANGED runs
            /\ hold'[h].step = "start" /\ hold'[h].run = hold[h].run
         \/ /\ hold'[h].run \in Runs /\ hold'[h].step = "link"
            /\ runs[hold'[h].run].status = "NONE" /\ runs'[hold'[h].run].status = "PLANNING"
  <2>1. ASSUME NEW status \in {"ABORTED", "FAILED"}, Finish(h, status)
        PROVE  /\ op' \in Operation /\ hold' \in [Holders -> PassState]
               /\ \A g \in Holders \ {h} : hold'[g] = hold[g]
               /\ hold'[h].step = "idle"
    <3>1. op' \in Operation /\ hold' \in [Holders -> PassState]
      BY <2>1, FinishTyped, Zenon DEF MaintInv
    <3> QED
      BY <1>2, <1>7, <2>1, <3>1, Zenon DEF Finish
  <2>2. ASSUME GiveUp(h)
        PROVE  /\ hold' \in [Holders -> PassState]
               /\ \A g \in Holders \ {h} : hold'[g] = hold[g]
               /\ hold'[h].step = "idle"
    BY <1>2, <1>7, <2>2, Zenon DEF GiveUp
  <2>3. ASSUME NEW step \in {"start", "submit"}, GoOn(h, step)
        PROVE  /\ hold' \in [Holders -> PassState]
               /\ \A g \in Holders \ {h} : hold'[g] = hold[g]
               /\ hold'[h].step = step /\ hold'[h].run = hold[h].run
    BY <1>2, <2>3, Zenon DEF GoOn, PassState
  <2>4. CASE CreateCompactionRun(h)
    <3>1. ASSUME NEW k \in Runs, NextRun(k), UNCHANGED op,
                 runs' = [runs EXCEPT ![k] = [kind |-> "compaction", status |-> "PLANNING",
                                              reg |-> "", inputs |-> op.inputs]],
                 hold' = [hold EXCEPT ![h].step = "link", ![h].run = k]
          PROVE  /\ hold' \in [Holders -> PassState]
                 /\ \A g \in Holders \ {h} : hold'[g] = hold[g]
                 /\ hold'[h].run = k /\ hold'[h].step = "link"
                 /\ runs[k].status = "NONE" /\ runs'[k].status = "PLANNING"
      <4>1. /\ hold' \in [Holders -> PassState]
            /\ \A g \in Holders \ {h} : hold'[g] = hold[g]
            /\ hold'[h].run = k /\ hold'[h].step = "link"
        BY <1>2, <3>1, Zenon DEF PassState
      <4>2. ASSUME NEW r, r = [kind |-> "compaction", status |-> "PLANNING",
                               reg |-> "", inputs |-> op.inputs]
            PROVE  r.status = "PLANNING"
        BY <4>2, Zenon
      <4>3. runs'[k].status = "PLANNING"
        BY <3>1, <4>2, Zenon DEF MaintInv, Types
      <4> QED
        BY <3>1, <4>1, <4>3, Zenon DEF NextRun
    <3> QED
      BY <1>2, <2>1, <2>2, <2>4, <3>1, Zenon DEF CreateCompactionRun
  <2>5. CASE SetMaintenanceRunID(h)
    <3>1. CASE HoldsLease(h)
      <4>1. op' = [op EXCEPT !.run = hold[h].run] /\ GoOn(h, "start") /\ UNCHANGED runs /\ Planning(h)
        BY <2>5, <3>1, Zenon DEF SetMaintenanceRunID, Planning
      <4>2. op' \in Operation
        BY <1>2, <4>1, Zenon DEF Operation, PassState
      <4> QED
        BY <2>3, <4>1, <4>2, Zenon
    <3>2. CASE ~HoldsLease(h)
      BY <1>2, <2>2, <2>5, <3>2, Zenon DEF SetMaintenanceRunID
    <3> QED
      BY <3>1, <3>2, Zenon
  <2>6. CASE StartRunWithTasks(h)
    BY <1>2, <2>1, <2>3, <2>6, Zenon DEF StartRunWithTasks
  <2> QED
    BY <2>4, <2>5, <2>6, Zenon
\* Of the runs that are being planned, only its own changes.
<1>9. \A k \in Runs : runs[k].status \in {"PLANNING", "COMMITTING"} =>
         runs'[k] = runs[k] \/ (Planning(h) /\ k = hold[h].run)
  <2>1. runs \in [Runs -> Run]
    BY Zenon DEF MaintInv, Types
  <2>2. CASE CreateCompactionRun(h)
    BY <2>1, <2>2, Zenon DEF CreateCompactionRun, NextRun
  <2>3. CASE SetMaintenanceRunID(h) \/ StartRunWithTasks(h)
    BY <2>1, <2>3, Zenon DEF SetMaintenanceRunID, StartRunWithTasks, Planning
  <2> QED
    BY <2>2, <2>3, Zenon
<1>10. \A g \in Holders \ {h} : Planning(g) =>
         hold[g].run \in Runs /\ runs'[hold[g].run] = runs[hold[g].run]
  BY <1>6, <1>9, Zenon DEF MaintInv, PlansOwn
<1>11. PlansOwn'
  <2>1. ASSUME NEW g \in Holders \ {h}, Planning(g)'
        PROVE  /\ Planning(g) /\ hold'[g].run = hold[g].run
               /\ hold[g].run \in Runs /\ runs'[hold[g].run].status = "PLANNING"
    <3>1. Planning(g) /\ hold'[g] = hold[g]
      BY <1>8, <2>1, Zenon DEF Planning
    <3> QED
      BY <1>10, <3>1, Zenon DEF MaintInv, PlansOwn
  <2>2. ASSUME Planning(h)'
        PROVE  /\ hold'[h].run \in Runs /\ runs'[hold'[h].run].status = "PLANNING"
               /\ \A g \in Holders \ {h} : Planning(g) => hold[g].run # hold'[h].run
    <3>1. CASE Planning(h) /\ UNCHANGED runs /\ hold'[h].run = hold[h].run
      BY <1>6, <3>1, Zenon
    <3>2. CASE /\ hold'[h].run \in Runs
               /\ runs[hold'[h].run].status = "NONE" /\ runs'[hold'[h].run].status = "PLANNING"
      <4>1. \A g \in Holders \ {h} : Planning(g) => runs[hold[g].run].status = "PLANNING"
        BY Zenon DEF MaintInv, PlansOwn
      <4>2. \A g \in Holders \ {h} : Planning(g) => hold[g].run # hold'[h].run
        BY <3>2, <4>1, Zenon
      <4> QED
        BY <3>2, <4>2, Zenon
    <3>3. hold'[h].step \notin {"idle", "submit"}
      BY <2>2, Zenon DEF Planning
    <3> QED
      BY <1>8, <3>1, <3>2, <3>3, Zenon
  <2>3. ASSUME NEW g \in Holders, Planning(g)'
        PROVE  /\ hold'[g].run \in Runs /\ runs'[hold'[g].run].status = "PLANNING"
               /\ \A i \in Holders \ {g} : Planning(i)' => hold'[i].run # hold'[g].run
    <3>1. CASE g = h
      BY <2>1, <2>2, <2>3, <3>1, Zenon
    <3>2. CASE g # h
      <4>1. ASSUME NEW i \in Holders \ {g}, Planning(i)' PROVE hold'[i].run # hold'[g].run
        <5>1. CASE i = h
          BY <2>1, <2>2, <2>3, <3>2, <4>1, <5>1, Zenon
        <5>2. CASE i # h
          BY <2>1, <2>3, <3>2, <4>1, <5>2, Zenon DEF MaintInv, PlansOwn
        <5> QED
          BY <5>1, <5>2, Zenon
      <4> QED
        BY <2>1, <2>3, <3>2, <4>1, Zenon
    <3> QED
      BY <3>1, <3>2, Zenon
  <2> QED
    BY <2>3, Zenon DEF PlansOwn
<1>12. CommitCurrent'
  <2>1. commit.step # "idle" => /\ commit.run \in Runs /\ runs[commit.run].status = "COMMITTING"
                                /\ (Planning(h) => commit.run # hold[h].run)
    BY <1>6, Zenon DEF MaintInv, CommitCurrent
  <2> QED
    BY <1>1, <1>9, <2>1, CommitKept, Zenon
<1>13. PassSafe(h)'
  <2>1. hold'[h].step \notin {"list", "busy", "unchanged", "delete", "remove"}
    BY <1>8, Zenon
  <2> QED
    BY <2>1, Zenon DEF PassSafe
<1>14. \A g \in Holders : PassSafe(g)'
  BY <1>1, <1>4, <1>8, <1>13, PassKept, Zenon DEF TableStep
<1>15. Types' /\ ReferencedFilesExist'
  <2>1. op' \in Operation /\ hold' \in [Holders -> PassState]
    BY <1>8, Zenon
  <2>2. Types'
    BY <1>1, <1>5, <2>1, Zenon DEF MaintInv, Types
  <2>3. ReferencedFilesExist'
    BY <1>1, Zenon DEF MaintInv, ReferencedFilesExist, Referenced
  <2> QED
    BY <2>2, <2>3, Zenon
<1> QED
  BY <1>4, <1>11, <1>12, <1>14, <1>15, Zenon DEF MaintInv

-----------------------------------------------------------------------------
LEMMA MaintStart == ASSUME MaintenanceConstants, Init PROVE MaintInv
<1>1. MaxRuns \in Nat /\ MaxRuns >= 2 /\ 1 \in Runs /\ 2 \in Runs
  BY DEF MaintenanceConstants, Runs
<1>2. {1, 2} \subseteq Files
  BY <1>1 DEF Files
<1>3. runs \in [Runs -> Run]
  BY Zenon DEF Init, Run
<1>4. /\ op \in Operation /\ commit \in CommitState /\ commit.step = "idle"
  BY Zenon DEF Init, NoOp, IdleCommit, Operation, CommitState, NoRun
<1>5. IdleHold \in PassState /\ IdleHold.step = "idle"
  BY Zenon DEF IdleHold, PassState, NoRun
<1>6. hold \in [Holders -> PassState] /\ \A h \in Holders : hold[h].step = "idle"
  BY <1>5, Zenon DEF Init
<1>7. PICK s \in Snapshot : s.files = {1, 2} /\ table = [ver |-> 0, snaps |-> <<s>>]
  <2> DEFINE s == [files |-> {1, 2}, stamp |-> NoRun]
  <2>1. s \in Snapshot /\ s.files = {1, 2}
    BY <1>2, Zenon DEF Snapshot
  <2>2. table = [ver |-> 0, snaps |-> <<s>>]
    BY Zenon DEF Init
  <2> HIDE DEF s
  <2> QED
    BY <2>1, <2>2, Zenon
<1>8. table \in [ver : Nat, snaps : Seq(Snapshot)] /\ table.snaps = <<s>>
  BY <1>7
<1>9. table.snaps # <<>> /\ Len(table.snaps) = 1 /\ table.snaps[1].files = {1, 2}
  BY <1>7, <1>8, Zenon
<1>10. Types
  <2>1. store \subseteq Files
    BY <1>2, Zenon DEF Init
  <2> QED
    BY <1>3, <1>4, <1>6, <1>8, <1>9, <2>1, Zenon DEF Types
<1>11. Referenced \subseteq store
  <2>1. \A i \in 1 .. Len(table.snaps) : i = 1
    BY <1>9
  <2> QED
    BY <1>9, <2>1, Zenon DEF Referenced, Init
<1>12. \A k \in Runs :
         /\ k <= 2 => runs[k].kind = "export" /\ runs[k].status = "SUCCEEDED" /\ runs[k].reg = "REGISTERED"
         /\ ~(k <= 2) => runs[k].kind = "export" /\ runs[k].status = "NONE" /\ runs[k].reg = ""
  BY Zenon DEF Init
<1>13. \A k \in Runs : MaxRuns + k \notin store
  <2>1. store = {1, 2}
    BY Zenon DEF Init
  <2>2. \A k \in Runs : MaxRuns + k > 2
    BY <1>1 DEF Runs
  <2> QED
    BY <2>1, <2>2
<1>14. RowsConsistent /\ FilesThere
  BY <1>12, <1>13, Zenon DEF RowsConsistent, FilesThere
<1>15. CommitCurrent /\ PlansOwn /\ \A h \in Holders : PassSafe(h)
  BY <1>4, <1>6, Zenon DEF CommitCurrent, PlansOwn, Planning, PassSafe
<1> QED
  BY <1>10, <1>11, <1>14, <1>15, Zenon DEF MaintInv, ReferencedFilesExist

LEMMA MaintStep == ASSUME MaintenanceConstants, MaintInv, [Next]_vars PROVE MaintInv'
<1>1. CASE UNCHANGED vars
  <2>1. UNCHANGED <<runs, store, table, op, hold, commit>>
    BY <1>1, Zenon DEF vars
  <2>2. Types' /\ CommitCurrent' /\ PlansOwn'
    BY <2>1, CommitKept, PlansKept, Zenon DEF MaintInv, Types
  <2>3. \A h \in Holders : PassSafe(h)'
    BY <2>1, SameRowsAndTable, PassKept, Zenon
  <2> QED
    BY <2>1, <2>2, <2>3, SameRowsAndTable, Zenon DEF MaintInv
<1>2. CASE Next
  BY <1>2, Actions, RunActionKeeps, RegisterKeeps, QuietPassKeeps, DeleteOrphanKeeps,
     PlanningKeeps, OperationActionKeeps, CommitActionKeeps, ExpireKeeps,
     CommitTransactionKeeps, EndCompactionRunKeeps, Zenon
<1> QED
  BY <1>1, <1>2, Zenon

\* Orphan cleanup never takes a file away that a retained snapshot of the table
\* references: not when several masters work on the same operation, not when the
\* lease of one lapses in the middle of its deletions, not when exports register
\* or a compaction lands between two of them (runOrphanCleanup and
\* CommitCompaction of internal/grpc/maintenance.go).
THEOREM OrphanCleanupKeepsTheTable ==
    ASSUME MaintenanceConstants PROVE Spec => []ReferencedFilesExist
<1>1. Init => MaintInv
  BY MaintStart, Zenon
<1>2. MaintInv /\ [Next]_vars => MaintInv'
  BY MaintStep, Zenon
<1>3. MaintInv => ReferencedFilesExist
  BY Zenon DEF MaintInv
<1> QED
  BY <1>1, <1>2, <1>3, PTL DEF Spec


-----------------------------------------------------------------------------
(* Compaction: what a run was planned from is what its commit replaces *)

\* The file of this run is written and not waiting for its registration.
Entered(k) ==
    /\ runs[k].status \notin {"NONE", "PLANNING", "RUNNING"}
    /\ runs[k].reg \notin {"PENDING", "FAILED"}

\* The unique index on a dataset's active run.
OneActive ==
    \A j, k \in Runs : runs[j].status \in ActiveRun /\ runs[k].status \in ActiveRun => j = k

\* The files of runs in the table, and all inputs, are written for good.
Written ==
    /\ \A f \in Current \cap Runs : Entered(f)
    /\ \A f \in op.inputs : Entered(f)
    /\ \A k \in Runs : \A f \in runs[k].inputs : Entered(f)

\* Each claim has a token of its own.
OwnTokens ==
    /\ \A h \in Holders : hold[h].token <= op.token
    /\ \A g, h \in Holders :
        hold[g].step # "idle" /\ hold[h].step # "idle" /\ hold[g].token = hold[h].token => g = h

\* While the run an operation names goes on, the operation has its inputs.
OperationAgrees ==
    op.run # NoRun =>
        /\ runs[op.run].status # "NONE"
        /\ runs[op.run].status \in ActiveRun => op.inputs = runs[op.run].inputs

\* A holder plans only when no run of the operation goes on.
HolderAgrees(h) ==
    Holds(h) =>
        /\ hold[h].step \in {"plan", "create", "link"} =>
            op.run = NoRun \/ runs[op.run].status \notin ActiveRun
        /\ hold[h].step \in {"create", "link"} => op.inputs # {}
        /\ hold[h].step = "link" => runs[hold[h].run].inputs = op.inputs

\* A compaction's file has the rows of its inputs, and is never in the table
\* together with them.
Compacted ==
    \A k \in Runs :
        /\ runs[k].kind = "compaction" => runs[k].inputs # {}
        /\ runs[k].status = "COMMITTING" =>
            /\ k \notin runs[k].inputs
            /\ content[k] = UNION {content[f] : f \in runs[k].inputs}
            /\ k \in Current => runs[k].inputs \cap Current = {}

\* What LoadForCommit compared holds as long as the version does.
Compared ==
    commit.step = "commit" /\ commit.ver = table.ver =>
        /\ runs[commit.run].inputs \subseteq Current
        /\ RowCount(runs[commit.run].inputs) = RowCount({commit.run})

CompactInv ==
    /\ content \in [Files -> SUBSET Runs]
    /\ OneActive /\ Written /\ OwnTokens /\ OperationAgrees
    /\ \A h \in Holders : HolderAgrees(h)
    /\ Compacted /\ Compared

-----------------------------------------------------------------------------
LEMMA CurrentAfter ==
    ASSUME Types, NEW files \in SUBSET Files, NEW stamp \in Runs \cup {NoRun}, NewSnapshot(files, stamp)
    PROVE  Current' = files /\ table'.ver = table.ver + 1
<1>1. PICK s \in Snapshot : s.files = files /\ table' = [ver |-> table.ver + 1, snaps |-> Append(table.snaps, s)]
  <2> DEFINE s == [files |-> files, stamp |-> stamp]
  <2>1. s \in Snapshot /\ s.files = files
    BY Zenon DEF Snapshot
  <2>2. table' = [ver |-> table.ver + 1, snaps |-> Append(table.snaps, s)]
    BY Zenon DEF NewSnapshot
  <2> HIDE DEF s
  <2> QED
    BY <2>1, <2>2, Zenon
<1>2. table.snaps \in Seq(Snapshot)
  BY Zenon DEF Types
<1>3. table'.snaps = Append(table.snaps, s) /\ table'.ver = table.ver + 1
  BY <1>1, Zenon
<1>4. table'.snaps[Len(table'.snaps)] = s
  BY <1>2, <1>3
<1> QED
  BY <1>1, <1>3, <1>4, Zenon DEF Current

LEMMA CurrentExpired ==
    ASSUME Types, ExpireSnapshot PROVE Current' = Current /\ table'.ver = table.ver + 1
<1> DEFINE s == table.snaps
<1>1. s \in Seq(Snapshot) /\ Len(s) > 1
  BY Zenon DEF Types, ExpireSnapshot
<1>2. table'.snaps = Tail(s) /\ table'.ver = table.ver + 1
  BY Zenon DEF ExpireSnapshot
<1> HIDE DEF s
<1>3. Len(s) \in Nat /\ s # <<>>
  BY <1>1
<1>4. Len(Tail(s)) = Len(s) - 1 /\ Len(s) - 1 \in 1 .. Len(Tail(s))
  BY <1>1, <1>3
<1>5. Tail(s)[Len(s) - 1] = s[(Len(s) - 1) + 1]
  BY <1>1, <1>3, <1>4
<1>6. (Len(s) - 1) + 1 = Len(s)
  BY <1>3
<1>7. Tail(s)[Len(Tail(s))] = s[Len(s)]
  BY <1>4, <1>5, <1>6, Zenon
<1> QED
  BY <1>2, <1>7, Zenon DEF Current, s

-----------------------------------------------------------------------------
(* What a step does to runs and files *)

\* One row at most moves; a row that exists keeps its kind and inputs; what is
\* written stays; a run becomes active only when none is.
Forward ==
    /\ \E k \in Runs : \A j \in Runs \ {k} : runs'[j] = runs[j]
    /\ content' \in [Files -> SUBSET Runs]
    /\ \A k \in Runs :
        /\ runs[k].status # "NONE" =>
            runs'[k].status # "NONE" /\ runs'[k].kind = runs[k].kind /\ runs'[k].inputs = runs[k].inputs
        /\ \/ runs'[k].kind = runs[k].kind /\ runs'[k].inputs = runs[k].inputs
           \/ runs'[k].inputs = op.inputs /\ op.inputs # {}
        /\ Entered(k) => Entered(k)' /\ content'[k] = content[k]
        /\ runs'[k].status \in ActiveRun =>
            runs[k].status \in ActiveRun \/ (runs[k].status = "NONE" /\ ~DatasetActive)

\* The commit is about to begin with the file CompactInputs has written.
Compacts(k) ==
    /\ ~Entered(k)
    /\ runs'[k].inputs = runs[k].inputs
    /\ content'[k] = UNION {content[f] : f \in runs[k].inputs}

Arrives == \A k \in Runs : runs'[k].status = "COMMITTING" =>
              runs[k].status = "COMMITTING" \/ (Compacts(k) /\ UNCHANGED table)

LEMMA NothingMoves ==
    ASSUME MaintenanceConstants, CompactInv, UNCHANGED <<runs, content>>
    PROVE  Forward /\ Arrives
<1>1. 1 \in Runs
  BY DEF MaintenanceConstants, Runs
<1> QED
  BY <1>1, Zenon DEF CompactInv, Forward, Arrives, Entered

\* A change of status.
LEMMA StatusForward ==
    ASSUME MaintInv, CompactInv, NEW k \in Runs,
           NEW status \in {"RUNNING", "SUCCEEDED", "FAILED", "CANCELED"},
           runs' = [runs EXCEPT ![k].status = status],
           UNCHANGED content,
           \/ runs[k].status = "NONE" /\ ~DatasetActive
           \/ runs[k].status = "PLANNING"
           \/ runs[k].status \in {"RUNNING", "COMMITTING"} /\ status # "RUNNING"
    PROVE  Forward /\ Arrives
<1>1. runs \in [Runs -> Run] /\ runs[k] \in Run
  BY Zenon DEF MaintInv, Types
<1>2. \A j \in Runs \ {k} : runs'[j] = runs[j]
  BY <1>1, Zenon
<1>3. /\ runs'[k].reg = runs[k].reg /\ runs'[k].kind = runs[k].kind
      /\ runs'[k].status = status /\ runs'[k].inputs = runs[k].inputs
  BY <1>1, Zenon DEF Run
<1>4. runs[k].status \in ActiveRun \/ (runs[k].status = "NONE" /\ ~DatasetActive)
  BY Zenon DEF ActiveRun
<1>5. Entered(k) => Entered(k)'
  BY <1>3, Zenon DEF Entered
<1>6. \A j \in Runs \ {k} : Entered(j) => Entered(j)'
  BY <1>2, Zenon DEF Entered
<1>7. status # "NONE" /\ status # "COMMITTING"
  BY Zenon
<1>8. Arrives
  BY <1>2, <1>3, <1>7, Zenon DEF Arrives
<1>9. content' \in [Files -> SUBSET Runs]
  BY Zenon DEF CompactInv
<1>10. ASSUME NEW j \in Runs
       PROVE  /\ runs[j].status # "NONE" =>
                 runs'[j].status # "NONE" /\ runs'[j].kind = runs[j].kind /\ runs'[j].inputs = runs[j].inputs
              /\ runs'[j].kind = runs[j].kind /\ runs'[j].inputs = runs[j].inputs
              /\ Entered(j) => Entered(j)' /\ content'[j] = content[j]
              /\ runs'[j].status \in ActiveRun =>
                  runs[j].status \in ActiveRun \/ (runs[j].status = "NONE" /\ ~DatasetActive)
  <2>1. CASE j = k
    BY <1>3, <1>4, <1>5, <1>7, <2>1, Zenon
  <2>2. CASE j # k
    BY <1>2, <1>6, <2>2, Zenon
  <2> QED
    BY <2>1, <2>2, Zenon
<1> QED
  BY <1>2, <1>8, <1>9, <1>10, Zenon DEF Forward

\* Entered files are other files than those that these actions write.
LEMMA RunActionForward ==
    ASSUME MaintenanceConstants, MaintInv, CompactInv, NEW k \in Runs, RunAction(k)
    PROVE  Forward /\ Arrives
<1>1. runs \in [Runs -> Run] /\ runs[k] \in Run /\ content \in [Files -> SUBSET Runs] /\ k \in Files
  BY FileNames, Zenon DEF MaintInv, Types, CompactInv
<1>2. UNCHANGED table
  BY RunActionLeaves, Zenon
<1>3. ASSUME NEW rows \in SUBSET Runs, content' = [content EXCEPT ![k] = rows]
      PROVE  /\ content' \in [Files -> SUBSET Runs] /\ content'[k] = rows
             /\ \A j \in Runs \ {k} : content'[j] = content[j]
  <2>1. \A j \in Runs : j \in Files
    BY FileNames, Zenon
  <2> QED
    BY <1>1, <1>3, <2>1, Zenon
<1>4. CASE StartExport(k)
  BY <1>4, StatusForward, Zenon DEF StartExport, NextRun
<1>5. CASE FailAbandonedPlanningRun(k)
  BY <1>5, StatusForward, Zenon DEF FailAbandonedPlanningRun
<1>6. CASE CommitExhausted(k)
  BY <1>6, StatusForward, Zenon DEF CommitExhausted
<1>7. CASE FinishExport(k)
  <2>1. PICK outcome \in {<<"SUCCEEDED", "PENDING">>, <<"SUCCEEDED", "">>,
                          <<"FAILED", "">>, <<"CANCELED", "">>} :
           runs' = [runs EXCEPT ![k].status = outcome[1], ![k].reg = outcome[2]]
    BY <1>7, Zenon DEF FinishExport
  <2>2. outcome[1] \in {"SUCCEEDED", "FAILED", "CANCELED"}
    <3>1. CASE outcome = <<"SUCCEEDED", "PENDING">>
      BY <3>1, Zenon
    <3>2. CASE outcome = <<"SUCCEEDED", "">>
      BY <3>2, Zenon
    <3>3. CASE outcome = <<"FAILED", "">>
      BY <3>3, Zenon
    <3>4. CASE outcome = <<"CANCELED", "">>
      BY <3>4, Zenon
    <3> QED
      BY <2>1, <3>1, <3>2, <3>3, <3>4, Zenon
  <2>3. runs[k].status = "RUNNING" /\ content' = [content EXCEPT ![k] = {k}]
    BY <1>7, Zenon DEF FinishExport
  <2>4. \A j \in Runs \ {k} : runs'[j] = runs[j]
    BY <1>1, <2>1, Zenon
  <2>5. /\ runs'[k].kind = runs[k].kind
        /\ runs'[k].status = outcome[1] /\ runs'[k].inputs = runs[k].inputs
    BY <1>1, <2>1, Zenon DEF Run
  <2>6. /\ content' \in [Files -> SUBSET Runs]
        /\ \A j \in Runs \ {k} : content'[j] = content[j]
    BY <1>3, <2>3, ZenonT(60)
  <2>7. ~Entered(k) /\ runs'[k].status \notin ActiveRun \cup {"NONE", "COMMITTING"}
    BY <2>2, <2>3, <2>5, Zenon DEF Entered, ActiveRun
  <2>8. \A j \in Runs \ {k} : Entered(j) => Entered(j)'
    BY <2>4, Zenon DEF Entered
  <2>9. Arrives
    BY <2>4, <2>7, Zenon DEF Arrives
  <2>10. ASSUME NEW j \in Runs
         PROVE  /\ runs[j].status # "NONE" => runs'[j].status # "NONE"
                /\ runs'[j].kind = runs[j].kind /\ runs'[j].inputs = runs[j].inputs
                /\ Entered(j) => Entered(j)' /\ content'[j] = content[j]
                /\ runs'[j].status \in ActiveRun => runs[j].status \in ActiveRun
    <3>1. CASE j = k
      BY <2>5, <2>7, <3>1, Zenon
    <3>2. CASE j # k
      BY <2>4, <2>6, <2>8, <3>2, Zenon
    <3> QED
      BY <3>1, <3>2, Zenon
  <2> QED
    BY <2>4, <2>6, <2>9, <2>10, Zenon DEF Forward
<1>8. CASE RegistrationFails(k)
  <2>1. PICK reg \in {"PENDING", "FAILED"} : runs' = [runs EXCEPT ![k].reg = reg]
    BY <1>8, Zenon DEF RegistrationFails
  <2>2. runs[k].reg \in {"PENDING", "FAILED"} /\ UNCHANGED content
    BY <1>8, Zenon DEF RegistrationFails
  <2>3. \A j \in Runs \ {k} : runs'[j] = runs[j]
    BY <1>1, <2>1, Zenon
  <2>4. /\ runs'[k].kind = runs[k].kind
        /\ runs'[k].status = runs[k].status /\ runs'[k].inputs = runs[k].inputs
    BY <1>1, <2>1, Zenon DEF Run
  <2>5. ~Entered(k)
    BY <2>2, Zenon DEF Entered
  <2>6. \A j \in Runs \ {k} : Entered(j) => Entered(j)'
    BY <2>3, Zenon DEF Entered
  <2>7. Arrives
    BY <2>3, <2>4, Zenon DEF Arrives
  <2>8. content' \in [Files -> SUBSET Runs]
    BY <1>1, <2>2, Zenon
  <2>9. ASSUME NEW j \in Runs
        PROVE  /\ runs'[j].status = runs[j].status
               /\ runs'[j].kind = runs[j].kind /\ runs'[j].inputs = runs[j].inputs
               /\ Entered(j) => Entered(j)' /\ content'[j] = content[j]
    <3>1. CASE j = k
      BY <2>4, <2>5, <3>1, Zenon
    <3>2. CASE j # k
      BY <2>2, <2>3, <2>6, <3>2, Zenon
    <3> QED
      BY <3>1, <3>2, Zenon
  <2> QED
    BY <2>3, <2>7, <2>8, <2>9, Zenon DEF Forward
<1>9. CASE CompactInputs(k)
  <2>1. CASE runs' = [runs EXCEPT ![k].status = "FAILED"] /\ UNCHANGED content
    BY <1>9, <2>1, StatusForward, Zenon DEF CompactInputs
  <2>2. CASE content' = [content EXCEPT ![k] = UNION {content[f] : f \in runs[k].inputs}]
    <3> DEFINE rows == UNION {content[f] : f \in runs[k].inputs}
    <3>1. rows \in SUBSET Runs
      <4>1. \A f \in runs[k].inputs : f \in Files
        BY <1>1, FileNames, Zenon DEF Run
      <4>2. \A f \in runs[k].inputs : content[f] \subseteq Runs
        BY <1>1, <4>1, Zenon
      <4> QED
        BY <4>2, Zenon
    <3>2. content' = [content EXCEPT ![k] = rows]
      BY <2>2, Zenon
    <3>3. /\ content' \in [Files -> SUBSET Runs] /\ content'[k] = rows
          /\ \A j \in Runs \ {k} : content'[j] = content[j]
      BY <1>3, <3>1, <3>2, Zenon
    <3>4. PICK status \in {"COMMITTING", "CANCELED", "FAILED"} :
             runs' = [runs EXCEPT ![k].status = status]
      BY <1>9, Zenon DEF CompactInputs
    <3>5. \A j \in Runs \ {k} : runs'[j] = runs[j]
      BY <1>1, <3>4, Zenon
    <3>6. /\ runs'[k].kind = runs[k].kind
          /\ runs'[k].status = status /\ runs'[k].inputs = runs[k].inputs
      BY <1>1, <3>4, Zenon DEF Run
    <3>7. runs[k].status = "RUNNING"
      BY <1>9, Zenon DEF CompactInputs
    <3>8. ~Entered(k) /\ runs[k].status \in ActiveRun /\ runs'[k].status # "NONE"
      BY <3>6, <3>7, Zenon DEF Entered, ActiveRun
    <3>9. \A j \in Runs \ {k} : Entered(j) => Entered(j)'
      BY <3>5, Zenon DEF Entered
    <3>10. Arrives
      <4>1. Compacts(k)
        BY <3>3, <3>6, <3>8, Zenon DEF Compacts
      <4> QED
        BY <1>2, <3>5, <4>1, Zenon DEF Arrives
    <3>11. ASSUME NEW j \in Runs
           PROVE  /\ runs[j].status # "NONE" => runs'[j].status # "NONE"
                  /\ runs'[j].kind = runs[j].kind /\ runs'[j].inputs = runs[j].inputs
                  /\ Entered(j) => Entered(j)' /\ content'[j] = content[j]
                  /\ runs'[j].status \in ActiveRun => runs[j].status \in ActiveRun
      <4>1. CASE j = k
        BY <3>6, <3>8, <4>1, Zenon
      <4>2. CASE j # k
        BY <3>3, <3>5, <3>9, <4>2, Zenon
      <4> QED
        BY <4>1, <4>2, Zenon
    <3> HIDE DEF rows
    <3> QED
      BY <3>3, <3>5, <3>10, <3>11, Zenon DEF Forward
  <2> QED
    BY <1>9, <2>1, <2>2, Zenon DEF CompactInputs
<1> QED
  BY <1>4, <1>5, <1>6, <1>7, <1>8, <1>9, Zenon DEF RunAction

\* A registration writes the file of an upsert, never the file of a run.
LEMMA RegisterForward ==
    ASSUME MaintenanceConstants, MaintInv, CompactInv, NEW k \in Runs, Register(k)
    PROVE  Forward /\ Arrives
<1>1. runs \in [Runs -> Run] /\ runs[k] \in Run /\ content \in [Files -> SUBSET Runs]
  BY Zenon DEF MaintInv, Types, CompactInv
<1>2. runs[k].reg = "PENDING" /\ runs' = [runs EXCEPT ![k].reg = "REGISTERED"]
  BY Zenon DEF Register
<1>3. \A j \in Runs \ {k} : runs'[j] = runs[j]
  BY <1>1, <1>2, Zenon
<1>4. /\ runs'[k].kind = runs[k].kind
      /\ runs'[k].status = runs[k].status /\ runs'[k].inputs = runs[k].inputs
  BY <1>1, <1>2, Zenon DEF Run
<1>5. ~Entered(k)
  BY <1>2, Zenon DEF Entered
<1>6. \A j \in Runs \ {k} : Entered(j) => Entered(j)'
  BY <1>3, Zenon DEF Entered
<1>7. Arrives
  BY <1>3, <1>4, Zenon DEF Arrives
<1>8. content' \in [Files -> SUBSET Runs] /\ \A j \in Runs : content'[j] = content[j]
  <2>1. CASE UNCHANGED content
    BY <1>1, <2>1, Zenon
  <2>2. CASE \E f \in Current : \E row \in content[f] :
               content' = [content EXCEPT ![MaxRuns + k] = content[f] \ {row}]
    <3>1. PICK f \in Current : \E row \in content[f] :
             content' = [content EXCEPT ![MaxRuns + k] = content[f] \ {row}]
      BY <2>2, Zenon
    <3>0. PICK row : content' = [content EXCEPT ![MaxRuns + k] = content[f] \ {row}]
      BY <3>1, Zenon
    <3>2. f \in Files
      BY CurrentReferenced, Zenon DEF MaintInv
    <3>3. content[f] \ {row} \in SUBSET Runs
      BY <1>1, <3>2, Zenon
    <3>4. \A j \in Runs : j \in Files /\ j # MaxRuns + k
      BY FileNames, Zenon
    <3> QED
      BY <1>1, <3>0, <3>3, <3>4, Zenon
  <2> QED
    BY <2>1, <2>2, Zenon DEF Register
<1>9. ASSUME NEW j \in Runs
      PROVE  /\ runs'[j].status = runs[j].status
             /\ runs'[j].kind = runs[j].kind /\ runs'[j].inputs = runs[j].inputs
             /\ Entered(j) => Entered(j)' /\ content'[j] = content[j]
  <2>1. CASE j = k
    BY <1>4, <1>5, <2>1, Zenon
  <2>2. CASE j # k
    BY <1>3, <1>6, <1>8, <2>2, Zenon
  <2> QED
    BY <2>1, <2>2, Zenon
<1> QED
  BY <1>3, <1>7, <1>8, <1>9, Zenon DEF Forward

LEMMA PlanningForward ==
    ASSUME MaintenanceConstants, MaintInv, CompactInv, NEW h \in Holders,
           CreateCompactionRun(h) \/ SetMaintenanceRunID(h) \/ StartRunWithTasks(h)
    PROVE  Forward /\ Arrives
<1>1. runs \in [Runs -> Run] /\ UNCHANGED content
  BY Zenon DEF MaintInv, Types, CreateCompactionRun, SetMaintenanceRunID, StartRunWithTasks
<1>2. Planning(h) => hold[h].run \in Runs /\ runs[hold[h].run].status = "PLANNING"
  BY Zenon DEF MaintInv, PlansOwn
<1>3. CASE UNCHANGED runs
  BY <1>1, <1>3, NothingMoves, Zenon
<1>4. ASSUME NEW k \in Runs, NextRun(k), Holds(h), hold[h].step = "create", ~DatasetActive,
             runs' = [runs EXCEPT ![k] = [kind |-> "compaction", status |-> "PLANNING",
                                          reg |-> "", inputs |-> op.inputs]]
      PROVE  Forward /\ Arrives
  <2>1. ASSUME NEW r, r = [kind |-> "compaction", status |-> "PLANNING",
                           reg |-> "", inputs |-> op.inputs]
        PROVE  r.status = "PLANNING" /\ r.inputs = op.inputs
    BY <2>1, Zenon
  <2>2. runs'[k].status = "PLANNING" /\ runs'[k].inputs = op.inputs
    BY <1>1, <1>4, <2>1, Zenon
  <2>3. \A j \in Runs \ {k} : runs'[j] = runs[j]
    BY <1>1, <1>4, Zenon
  <2>4. op.inputs # {}
    BY <1>4, Zenon DEF CompactInv, HolderAgrees
  <2>5. runs[k].status = "NONE" /\ ~Entered(k)
    BY <1>4, Zenon DEF NextRun, Entered
  <2>6. Arrives
    BY <2>2, <2>3, Zenon DEF Arrives
  <2>7. \A j \in Runs \ {k} : Entered(j) => Entered(j)'
    BY <2>3, Zenon DEF Entered
  <2>8. content' \in [Files -> SUBSET Runs]
    BY <1>1, Zenon DEF CompactInv
  <2>9. ASSUME NEW j \in Runs
        PROVE  /\ runs[j].status # "NONE" =>
                  runs'[j].status # "NONE" /\ runs'[j].kind = runs[j].kind /\ runs'[j].inputs = runs[j].inputs
               /\ \/ runs'[j].kind = runs[j].kind /\ runs'[j].inputs = runs[j].inputs
                  \/ runs'[j].inputs = op.inputs /\ op.inputs # {}
               /\ Entered(j) => Entered(j)' /\ content'[j] = content[j]
               /\ runs'[j].status \in ActiveRun =>
                   runs[j].status \in ActiveRun \/ (runs[j].status = "NONE" /\ ~DatasetActive)
    <3>1. CASE j = k
      BY <1>4, <2>2, <2>4, <2>5, <3>1, Zenon
    <3>2. CASE j # k
      BY <1>1, <2>3, <2>7, <3>2, Zenon
    <3> QED
      BY <3>1, <3>2, Zenon
  <2> QED
    BY <2>3, <2>6, <2>8, <2>9, Zenon DEF Forward
<1>5. CASE CreateCompactionRun(h)
  <2>1. CASE ~Holds(h) \/ DatasetActive
    BY <1>3, <1>5, <2>1, Zenon DEF CreateCompactionRun
  <2>2. CASE Holds(h) /\ ~DatasetActive
    BY <1>4, <1>5, <2>2, Zenon DEF CreateCompactionRun
  <2> QED
    BY <2>1, <2>2, Zenon
<1>6. ASSUME Planning(h), NEW status \in {"RUNNING", "FAILED"},
             runs' = [runs EXCEPT ![hold[h].run].status = status]
      PROVE  Forward /\ Arrives
  BY <1>1, <1>2, <1>6, StatusForward, Zenon
<1>7. CASE SetMaintenanceRunID(h) \/ StartRunWithTasks(h)
  BY <1>3, <1>6, <1>7, Zenon DEF SetMaintenanceRunID, StartRunWithTasks, Planning
<1> QED
  BY <1>5, <1>7, Zenon

LEMMA EndForward ==
    ASSUME MaintInv, CompactInv, EndCompactionRun PROVE Forward /\ Arrives
<1>1. commit.run \in Runs /\ runs[commit.run].status = "COMMITTING"
  BY Zenon DEF EndCompactionRun, MaintInv, CommitCurrent
<1>2. \E status \in {"SUCCEEDED", "FAILED"} : runs' = [runs EXCEPT ![commit.run].status = status]
  BY Zenon DEF EndCompactionRun
<1>3. UNCHANGED content
  BY Zenon DEF EndCompactionRun
<1> QED
  BY <1>1, <1>2, <1>3, StatusForward, Zenon

LEMMA StepForward ==
    ASSUME MaintenanceConstants, MaintInv, CompactInv, Next PROVE Forward /\ Arrives
<1>1. ASSUME NEW h \in Holders, QuietPass(h) \/ DeleteOrphan(h) PROVE UNCHANGED <<runs, content>>
  BY <1>1, Zenon DEF QuietPass, ClaimMaintenanceOperation, HolderStops, MaintenanceFails,
     TableReferences, ListAndClassify, CheckBusy, CheckUnchanged, RenewMaintenanceLease,
     FollowRun, FollowedRunSucceeded, PlanCompaction, SubmitCompaction, DeleteOrphan
<1>2. OperationAction \/ ExpireSnapshot => UNCHANGED <<runs, content>>
  BY Zenon DEF OperationAction, CreateMaintenanceOperation, MaintenanceLeaseLapses,
     FailSubmittedCompactions, ExpireSnapshot
<1>3. CommitAction \/ CommitTransaction => UNCHANGED <<runs, content>>
  BY Zenon DEF CommitAction, LoadForCommit, RecordCompaction, CommitStops, CommitTransaction
<1> QED
  BY <1>1, <1>2, <1>3, Actions, NothingMoves, RunActionForward, RegisterForward, PlanningForward,
     EndForward, Zenon

-----------------------------------------------------------------------------
(* What a step does to the current snapshot *)

\* It stays, or a new version has files of runs that are written by now; a
\* compaction enters without its inputs, everything else leaves compactions alone.
CurrentStep ==
    \/ UNCHANGED table
    \/ /\ table'.ver = table.ver + 1
       /\ \A f \in Current' \cap Runs : f \in Current \/ Entered(f)'
       /\ \A k \in Runs :
            runs[k].status = "COMMITTING" /\ k \in Current' => runs[k].inputs \cap Current' = {}

LEMMA RegisterCurrent ==
    ASSUME MaintenanceConstants, MaintInv, CompactInv, NEW k \in Runs, Register(k)
    PROVE  CurrentStep
<1>1. PICK files : /\ NewSnapshot(files, NoRun)
                   /\ files \subseteq Current \cup {k, MaxRuns + k}
  <2>1. CASE \E files \in {Current \cup {k}, {k}} : NewSnapshot(files, NoRun)
    BY <2>1, Zenon
  <2>2. CASE \E f \in Current : NewSnapshot((Current \ {f}) \cup {k, MaxRuns + k}, NoRun)
    BY <2>2, Zenon
  <2> QED
    BY <2>1, <2>2, Zenon DEF Register
<1>2. files \subseteq Files
  BY <1>1, CurrentReferenced, FileNames, Zenon DEF MaintInv
<1>3. Current' = files /\ table'.ver = table.ver + 1
  BY <1>1, <1>2, CurrentAfter, Zenon DEF MaintInv
<1>4. /\ runs[k].reg = "PENDING" /\ ~Entered(k) /\ runs[k].status = "SUCCEEDED"
  BY Zenon DEF Register, Entered, MaintInv, RowsConsistent
<1>5. Entered(k)'
  <2>1. runs' = [runs EXCEPT ![k].reg = "REGISTERED"] /\ runs \in [Runs -> Run] /\ runs[k] \in Run
    BY Zenon DEF Register, MaintInv, Types
  <2>2. runs'[k].reg = "REGISTERED" /\ runs'[k].status = runs[k].status
    BY <2>1, Zenon DEF Run
  <2> QED
    BY <1>4, <2>2, Zenon DEF Entered
<1>6. \A f \in Current' \cap Runs : f \in Current \/ f = k
  BY <1>1, <1>3, FileNames, Zenon
<1>7. ASSUME NEW j \in Runs, runs[j].status = "COMMITTING", j \in Current'
      PROVE  runs[j].inputs \cap Current' = {}
  <2>1. j # k /\ j \in Current
    BY <1>4, <1>6, <1>7, Zenon
  <2>2. runs[j].inputs \cap Current = {} /\ k \notin runs[j].inputs
    BY <1>4, <1>7, <2>1, Zenon DEF CompactInv, Compacted, Written
  <2>3. runs[j].inputs \subseteq Runs
    BY Zenon DEF MaintInv, Types, Run
  <2> QED
    BY <1>6, <2>2, <2>3, Zenon
<1> QED
  BY <1>3, <1>5, <1>6, <1>7, Zenon DEF CurrentStep

\* The inputs that a commit replaces are those of the run.
LEMMA InputsOfRun ==
    ASSUME CompactInv, NEW k \in Runs, runs[k].status = "COMMITTING", k # NoRun
    PROVE  CommitInputs(k) = runs[k].inputs
  BY Zenon DEF CommitInputs, CompactInv, OperationAgrees, ActiveRun

\* When the catalog takes a compaction, it replaces its inputs, all of which are
\* in the table, by its file, which is not.
LEMMA Lands ==
    ASSUME MaintenanceConstants, MaintInv, CompactInv, CommitTransaction, table' # table
    PROVE  /\ commit.run \in Runs /\ runs[commit.run].status = "COMMITTING"
           /\ runs[commit.run].inputs \subseteq Current
           /\ commit.run \notin Current
           /\ RowCount(runs[commit.run].inputs) = RowCount({commit.run})
           /\ table'.ver = table.ver + 1
           /\ Current' = (Current \ runs[commit.run].inputs) \cup {commit.run}
<1> DEFINE k == commit.run
<1>1. k \in Runs /\ runs[k].status = "COMMITTING" /\ commit.step = "commit"
  BY Zenon DEF CommitTransaction, MaintInv, CommitCurrent
<1>2. commit.ver = table.ver /\ NewSnapshot((commit.files \ CommitInputs(k)) \cup {k}, k)
  BY Zenon DEF CommitTransaction
<1>3. commit.files = Current
  BY <1>1, <1>2, Zenon DEF MaintInv, CommitCurrent
<1>4. CommitInputs(k) = runs[k].inputs
  BY <1>1, FileNames, InputsOfRun, Zenon
<1>5. runs[k].inputs \subseteq Current /\ RowCount(runs[k].inputs) = RowCount({k})
  BY <1>1, <1>2, Zenon DEF CompactInv, Compared
<1>6. runs[k].inputs # {} /\ (k \in Current => runs[k].inputs \cap Current = {})
  BY <1>1, Zenon DEF MaintInv, RowsConsistent, CompactInv, Compacted
<1>7. k \notin Current
  BY <1>5, <1>6, Zenon
<1>8. (Current \ runs[k].inputs) \cup {k} \subseteq Files
  BY <1>1, CurrentReferenced, FileNames, Zenon DEF MaintInv
<1>9. Current' = (Current \ runs[k].inputs) \cup {k} /\ table'.ver = table.ver + 1
  BY <1>1, <1>2, <1>3, <1>4, <1>8, CurrentAfter, Zenon DEF MaintInv
<1> QED
  BY <1>1, <1>5, <1>7, <1>9, Zenon

LEMMA StepCurrent ==
    ASSUME MaintenanceConstants, MaintInv, CompactInv, Next PROVE CurrentStep
<1>1. CASE UNCHANGED table
  BY <1>1, Zenon DEF CurrentStep
<1>2. CASE \E k \in Runs : Register(k)
  BY <1>2, RegisterCurrent, Zenon
<1>3. CASE ExpireSnapshot
  <2>1. Current' = Current /\ table'.ver = table.ver + 1
    BY <1>3, CurrentExpired, Zenon DEF MaintInv
  <2> QED
    BY <2>1, Zenon DEF CurrentStep, CompactInv, Compacted
<1>4. CASE CommitTransaction /\ table' # table
  <2>1. PICK k \in Runs :
           /\ runs[k].status = "COMMITTING" /\ table'.ver = table.ver + 1
           /\ Current' = (Current \ runs[k].inputs) \cup {k}
    BY <1>4, Lands, Zenon
  <2>2. UNCHANGED runs
    BY <1>4, Zenon DEF CommitTransaction
  <2>3. k \notin runs[k].inputs
    BY <2>1, Zenon DEF CompactInv, Compacted
  <2>4. \A j \in Runs : runs[j].status = "COMMITTING" => j = k
    BY <2>1, Zenon DEF CompactInv, OneActive, ActiveRun
  <2>5. Entered(k)'
    <3>1. runs[k].reg = ""
      BY <2>1, Zenon DEF MaintInv, RowsConsistent
    <3> QED
      BY <2>1, <2>2, <3>1, Zenon DEF Entered
  <2>6. \A f \in Current' \cap Runs : f \in Current \/ Entered(f)'
    BY <2>1, <2>5, Zenon
  <2>7. ASSUME NEW j \in Runs, runs[j].status = "COMMITTING" PROVE runs[j].inputs \cap Current' = {}
    BY <2>1, <2>3, <2>4, <2>7, Zenon
  <2> QED
    BY <2>1, <2>6, <2>7, Zenon DEF CurrentStep
<1>5. ASSUME NEW k \in Runs, RunAction(k) PROVE UNCHANGED table
  BY <1>5, RunActionLeaves, Zenon
<1>6. ASSUME NEW h \in Holders,
             QuietPass(h) \/ DeleteOrphan(h) \/ CreateCompactionRun(h)
             \/ SetMaintenanceRunID(h) \/ StartRunWithTasks(h)
      PROVE  UNCHANGED table
  BY <1>6, QuietPassLeaves, Zenon DEF DeleteOrphan, CreateCompactionRun, SetMaintenanceRunID,
     StartRunWithTasks
<1>7. OperationAction \/ CommitAction \/ EndCompactionRun => UNCHANGED table
  BY OperationActionLeaves, CommitActionLeaves, Zenon DEF EndCompactionRun
<1> QED
  BY <1>1, <1>2, <1>3, <1>4, <1>5, <1>6, <1>7, Actions, Zenon

-----------------------------------------------------------------------------
(* The operation and its holders *)

OperationInv ==
    /\ \A f \in op.inputs : Entered(f)
    /\ OwnTokens /\ OperationAgrees
    /\ \A h \in Holders : HolderAgrees(h)

\* What the holder knows, and what the operation says, outlasts the steps of others.
LEMMA HolderKept ==
    ASSUME MaintInv, CompactInv, Forward, NEW h \in Holders, hold'[h] = hold[h],
           hold[h].step # "idle" /\ Holds(h)' =>
               Holds(h) /\ op'.run = op.run /\ op'.inputs = op.inputs
    PROVE  HolderAgrees(h)'
<1>1. CASE hold[h].step = "idle"
  BY <1>1, Zenon DEF HolderAgrees
<1>2. CASE hold[h].step # "idle" /\ Holds(h)'
  <2>1. Holds(h) /\ op'.run = op.run /\ op'.inputs = op.inputs /\ HolderAgrees(h)
    BY <1>2, Zenon DEF CompactInv
  <2>2. op.run \in Runs \cup {NoRun}
    BY Zenon DEF MaintInv, Types, Operation
  <2>3. op.run # NoRun /\ runs[op.run].status \notin ActiveRun => runs'[op.run].status \notin ActiveRun
    BY <2>2, Zenon DEF Forward, CompactInv, OperationAgrees
  <2>4. hold[h].step = "link" => runs'[hold[h].run].inputs = runs[hold[h].run].inputs
    <3>1. hold[h].step = "link" => hold[h].run \in Runs /\ runs[hold[h].run].status # "NONE"
      BY Zenon DEF MaintInv, PlansOwn, Planning
    <3> QED
      BY <3>1, Zenon DEF Forward
  <2> QED
    BY <2>1, <2>3, <2>4, Zenon DEF HolderAgrees
<1>3. CASE ~Holds(h)'
  BY <1>3, Zenon DEF HolderAgrees
<1> QED
  BY <1>1, <1>2, <1>3, Zenon

LEMMA OperationKept ==
    ASSUME MaintInv, CompactInv, Forward, op'.run = op.run, op'.inputs = op.inputs
    PROVE  OperationAgrees' /\ \A f \in op'.inputs : Entered(f)'
<1>1. op.run \in Runs \cup {NoRun} /\ op.inputs \subseteq Runs
  BY Zenon DEF MaintInv, Types, Operation
<1>2. OperationAgrees'
  BY <1>1, Zenon DEF Forward, CompactInv, OperationAgrees
<1>3. \A f \in op'.inputs : Entered(f)'
  BY <1>1, Zenon DEF Forward, CompactInv, Written
<1> QED
  BY <1>2, <1>3, Zenon

\* A pass ends, or goes on under its token.
LEMMA TokensKept ==
    ASSUME MaintInv, CompactInv, op'.token = op.token,
           \A h \in Holders :
               \/ hold'[h].step = "idle" /\ hold'[h].token = 0
               \/ hold'[h] = hold[h]
               \/ hold[h].step # "idle" /\ hold'[h].token = hold[h].token
    PROVE  OwnTokens'
<1>1. op.token \in Nat
  BY Zenon DEF MaintInv, Types, Operation
<1>2. 0 <= op.token
  BY <1>1
<1>3. \A h \in Holders : hold'[h].token <= op'.token
  BY <1>2, Zenon DEF CompactInv, OwnTokens
<1>4. \A h \in Holders : hold'[h].step # "idle" => hold[h].step # "idle" /\ hold'[h].token = hold[h].token
  BY Zenon
<1> QED
  BY <1>3, <1>4, Zenon DEF CompactInv, OwnTokens

LEMMA SameOperation ==
    ASSUME MaintInv, CompactInv, Forward,
           op'.token = op.token, op'.run = op.run, op'.inputs = op.inputs,
           op'.status = "RUNNING" => op.status = "RUNNING",
           \A h \in Holders :
               \/ hold'[h].step = "idle" /\ hold'[h].token = 0
               \/ hold'[h] = hold[h]
               \/ hold[h].step # "idle" /\ hold'[h].token = hold[h].token /\ HolderAgrees(h)'
    PROVE  OperationInv'
<1>1. OwnTokens'
  BY TokensKept, Zenon
<1>2. ASSUME NEW h \in Holders PROVE HolderAgrees(h)'
  <2>1. CASE hold'[h].step = "idle"
    BY <2>1, Zenon DEF HolderAgrees
  <2>2. CASE hold'[h] = hold[h]
    <3>1. Holds(h)' => Holds(h)
      BY <2>2, Zenon DEF Holds
    <3> QED
      BY <2>2, <3>1, HolderKept, Zenon
  <2> QED
    BY <2>1, <2>2, Zenon
<1> QED
  BY <1>1, <1>2, OperationKept, Zenon DEF OperationInv

\* Only one holder can hold the operation.
LEMMA HoldsAlone ==
    ASSUME CompactInv, NEW g \in Holders, NEW h \in Holders, Holds(g), Holds(h),
           hold[g].step # "idle", hold[h].step # "idle"
    PROVE  g = h
  BY Zenon DEF CompactInv, OwnTokens, Holds

LEMMA Claimed ==
    ASSUME MaintInv, CompactInv, Forward, NEW h \in Holders, ClaimMaintenanceOperation(h)
    PROVE  OperationInv'
<1>1. op \in Operation /\ hold \in [Holders -> PassState]
  BY Zenon DEF MaintInv, Types
<1>2. op.token \in Nat /\ \A g \in Holders : hold[g].token \in Nat
  BY <1>1, Zenon DEF Operation, PassState
<1>3. PICK t \in {op.token + 1}, s \in {"follow", "refs"} :
         /\ op' = [op EXCEPT !.status = "RUNNING", !.token = t, !.live = TRUE]
         /\ hold' = [hold EXCEPT ![h] = [IdleHold EXCEPT !.token = t, !.step = s]]
  <2>1. op' = [op EXCEPT !.status = "RUNNING", !.token = op.token + 1, !.live = TRUE]
    BY Zenon DEF ClaimMaintenanceOperation
  <2> QED
    BY <2>1, Zenon DEF ClaimMaintenanceOperation
<1>4. op'.token = t /\ op'.run = op.run /\ op'.inputs = op.inputs
  BY <1>1, <1>3, Zenon DEF Operation
<1>5. hold'[h].token = t /\ hold'[h].step = s
  BY <1>1, <1>3, Zenon DEF IdleHold
<1>6. \A g \in Holders \ {h} : hold'[g] = hold[g] /\ hold[g].token <= op.token
  BY <1>1, <1>3, Zenon DEF CompactInv, OwnTokens
<1>7. \A g \in Holders \ {h} : hold[g].token <= t /\ hold[g].token # t
  BY <1>2, <1>3, <1>6
<1>8. t <= t
  BY <1>2, <1>3
<1>9. OwnTokens'
  <2>1. \A g \in Holders : hold'[g].token <= op'.token
    BY <1>4, <1>5, <1>6, <1>7, <1>8, Zenon
  <2>2. ASSUME NEW f \in Holders, NEW g \in Holders, hold'[f].step # "idle", hold'[g].step # "idle",
               hold'[f].token = hold'[g].token
        PROVE  f = g
    <3>1. CASE f = h \/ g = h
      BY <1>5, <1>6, <1>7, <2>2, <3>1, Zenon
    <3>2. CASE f # h /\ g # h
      BY <1>6, <2>2, <3>2, Zenon DEF CompactInv, OwnTokens
    <3> QED
      BY <3>1, <3>2, Zenon
  <2> QED
    BY <2>1, <2>2, Zenon DEF OwnTokens
<1>10. ASSUME NEW g \in Holders PROVE HolderAgrees(g)'
  <2>1. CASE g = h
    BY <1>5, <2>1, Zenon DEF HolderAgrees
  <2>2. CASE g # h
    BY <1>4, <1>6, <1>7, <2>2, Zenon DEF HolderAgrees, Holds
  <2> QED
    BY <2>1, <2>2, Zenon
<1> QED
  BY <1>4, <1>9, <1>10, OperationKept, Zenon DEF OperationInv

LEMMA Created ==
    ASSUME MaintInv, CompactInv, Forward, UNCHANGED hold,
           NEW kind, CreateMaintenanceOperation(kind)
    PROVE  OperationInv'
<1>1. PICK t : /\ t = op.token
               /\ op' = [NoOp EXCEPT !.kind = kind, !.status = "PENDING", !.token = t]
  BY Zenon DEF CreateMaintenanceOperation
<1>2. op'.token = op.token /\ op'.run = NoRun /\ op'.inputs = {} /\ op'.status = "PENDING"
  BY <1>1, Zenon DEF NoOp
<1>3. OwnTokens'
  BY <1>2, TokensKept, Zenon
<1>4. \A h \in Holders : HolderAgrees(h)'
  BY <1>2, Zenon DEF HolderAgrees, Holds
<1> QED
  BY <1>2, <1>3, <1>4, Zenon DEF OperationInv, OperationAgrees

LEMMA Planned ==
    ASSUME MaintInv, CompactInv, Forward, UNCHANGED runs, NEW h \in Holders, HoldsLease(h),
           hold[h].step = "plan", NEW inputs \in SUBSET (Current \cap Runs), inputs # {},
           op' = [op EXCEPT !.inputs = inputs], GoOn(h, "create")
    PROVE  OperationInv'
<1>1. op \in Operation /\ hold \in [Holders -> PassState] /\ hold[h] \in PassState
  BY Zenon DEF MaintInv, Types
<1>2. /\ op'.token = op.token /\ op'.run = op.run /\ op'.inputs = inputs
      /\ op'.status = op.status
  BY <1>1, Zenon DEF Operation
<1>3. /\ hold'[h].step = "create" /\ hold'[h].token = hold[h].token
      /\ \A g \in Holders \ {h} : hold'[g] = hold[g]
  BY <1>1, Zenon DEF GoOn, PassState
<1>4. Holds(h) /\ (op.run = NoRun \/ runs[op.run].status \notin ActiveRun)
  BY Zenon DEF HoldsLease, CompactInv, HolderAgrees
<1>5. OwnTokens'
  BY <1>2, <1>3, TokensKept, Zenon
<1>6. ASSUME NEW g \in Holders PROVE HolderAgrees(g)'
  <2>1. CASE g = h
    BY <1>2, <1>3, <1>4, <2>1, Zenon DEF HolderAgrees
  <2>2. CASE g # h
    <3>1. hold[g].step # "idle" => ~Holds(g)
      BY <1>4, <2>2, HoldsAlone, Zenon
    <3>2. Holds(g)' => Holds(g)
      BY <1>2, <1>3, <2>2, Zenon DEF Holds
    <3> QED
      BY <1>3, <2>2, <3>1, <3>2, Zenon DEF HolderAgrees
  <2> QED
    BY <2>1, <2>2, Zenon
<1>7. OperationAgrees'
  BY <1>2, <1>4, Zenon DEF CompactInv, OperationAgrees
<1>8. \A f \in op'.inputs : Entered(f)'
  BY <1>2, Zenon DEF CompactInv, Written, Forward
<1> QED
  BY <1>5, <1>6, <1>7, <1>8, Zenon DEF OperationInv

LEMMA Linked ==
    ASSUME MaintInv, CompactInv, Forward, UNCHANGED runs, NEW h \in Holders, HoldsLease(h),
           hold[h].step = "link", op' = [op EXCEPT !.run = hold[h].run], GoOn(h, "start")
    PROVE  OperationInv'
<1>1. op \in Operation /\ hold \in [Holders -> PassState] /\ hold[h] \in PassState
  BY Zenon DEF MaintInv, Types
<1>2. /\ op'.token = op.token /\ op'.run = hold[h].run /\ op'.inputs = op.inputs
      /\ op'.status = op.status
  BY <1>1, Zenon DEF Operation
<1>3. /\ hold'[h].step = "start" /\ hold'[h].token = hold[h].token
      /\ \A g \in Holders \ {h} : hold'[g] = hold[g]
  BY <1>1, Zenon DEF GoOn, PassState
<1>4. Holds(h) /\ runs[hold[h].run].inputs = op.inputs
  BY Zenon DEF HoldsLease, CompactInv, HolderAgrees
<1>5. hold[h].run \in Runs /\ runs[hold[h].run].status = "PLANNING"
  BY Zenon DEF MaintInv, PlansOwn, Planning
<1>6. OwnTokens'
  BY <1>2, <1>3, TokensKept, Zenon
<1>7. ASSUME NEW g \in Holders PROVE HolderAgrees(g)'
  <2>1. CASE g = h
    BY <1>3, <2>1, Zenon DEF HolderAgrees
  <2>2. CASE g # h
    <3>1. hold[g].step # "idle" => ~Holds(g)
      BY <1>4, <2>2, HoldsAlone, Zenon
    <3>2. Holds(g)' => Holds(g)
      BY <1>2, <1>3, <2>2, Zenon DEF Holds
    <3> QED
      BY <1>3, <2>2, <3>1, <3>2, Zenon DEF HolderAgrees
  <2> QED
    BY <2>1, <2>2, Zenon
<1>8. OperationAgrees'
  BY <1>2, <1>4, <1>5, Zenon DEF OperationAgrees
<1>9. \A f \in op'.inputs : Entered(f)'
  BY <1>1, <1>2, Zenon DEF CompactInv, Written, Forward, Operation
<1> QED
  BY <1>6, <1>7, <1>8, <1>9, Zenon DEF OperationInv

LEMMA QuietPassOperation ==
    ASSUME MaintInv, CompactInv, Forward, NEW h \in Holders, QuietPass(h)
    PROVE  OperationInv'
<1>1. op \in Operation /\ hold \in [Holders -> PassState] /\ hold[h] \in PassState
  BY Zenon DEF MaintInv, Types
<1>2. IdleHold.step = "idle" /\ IdleHold.token = 0
  BY Zenon DEF IdleHold
<1>3. UNCHANGED runs
  BY QuietPassLeaves, Zenon
\* The pass ends.
<1>4. ASSUME hold' = [hold EXCEPT ![h] = IdleHold],
             op'.token = op.token, op'.run = op.run, op'.inputs = op.inputs,
             op'.status = "RUNNING" => op.status = "RUNNING"
      PROVE  OperationInv'
  <2>1. \A g \in Holders : (hold'[g].step = "idle" /\ hold'[g].token = 0) \/ hold'[g] = hold[g]
    BY <1>1, <1>2, <1>4, Zenon
  <2> QED
    BY <1>4, <2>1, SameOperation, Zenon
<1>5. ASSUME NEW status \in {"SUCCEEDED", "FAILED", "ABORTED", "SUBMITTED"}, Finish(h, status)
      PROVE  OperationInv'
  <2>1. /\ op'.token = op.token /\ op'.run = op.run /\ op'.inputs = op.inputs
        /\ op'.status = "RUNNING" => op.status = "RUNNING"
    BY <1>1, <1>5, Zenon DEF Finish, Operation
  <2> QED
    BY <1>4, <1>5, <2>1, Zenon DEF Finish
<1>6. GiveUp(h) /\ UNCHANGED op => OperationInv'
  BY <1>4, Zenon DEF GiveUp
\* It goes on to a step that is no part of planning.
<1>7. ASSUME hold[h].step # "idle", UNCHANGED op, NEW r, hold' = [hold EXCEPT ![h] = r],
             r.token = hold[h].token, r.step \notin {"plan", "create", "link"}
      PROVE  OperationInv'
  <2>1. hold'[h] = r /\ \A g \in Holders \ {h} : hold'[g] = hold[g]
    BY <1>1, <1>7, Zenon
  <2>2. HolderAgrees(h)'
    BY <1>7, <2>1, Zenon DEF HolderAgrees
  <2>3. \A g \in Holders :
           \/ hold'[g] = hold[g]
           \/ hold[g].step # "idle" /\ hold'[g].token = hold[g].token /\ HolderAgrees(g)'
    BY <1>7, <2>1, <2>2, Zenon
  <2> QED
    BY <1>7, <2>3, SameOperation, Zenon
<1>8. ASSUME hold[h].step # "idle", UNCHANGED op,
             NEW step \in {"list", "unchanged", "delete", "remove", "submit", "followed"}, GoOn(h, step)
      PROVE  OperationInv'
  <2> DEFINE r == [hold[h] EXCEPT !.step = step]
  <2>1. r.token = hold[h].token /\ r.step = step
    BY <1>1, Zenon DEF PassState
  <2>2. hold' = [hold EXCEPT ![h] = r]
    BY <1>8, Zenon DEF GoOn
  <2> HIDE DEF r
  <2> QED
    BY <1>7, <1>8, <2>1, <2>2, Zenon
<1>9. CASE ClaimMaintenanceOperation(h)
  BY <1>9, Claimed, Zenon
<1>10. CASE HolderStops(h)
  <2>1. /\ op'.token = op.token /\ op'.run = op.run /\ op'.inputs = op.inputs
        /\ op'.status = op.status
    BY <1>1, <1>10, Zenon DEF HolderStops, Operation
  <2> QED
    BY <1>4, <1>10, <2>1, Zenon DEF HolderStops
<1>11. CASE MaintenanceFails(h) \/ FollowedRunSucceeded(h) \/ SubmitCompaction(h)
  BY <1>5, <1>11, Zenon DEF MaintenanceFails, FollowedRunSucceeded, SubmitCompaction
<1>12. CASE TableReferences(h)
  <2> DEFINE r == [hold[h] EXCEPT !.step = "list", !.refs = Referenced, !.ver = table.ver]
  <2>1. r.token = hold[h].token /\ r.step = "list"
    BY <1>1, Zenon DEF PassState
  <2>2. hold' = [hold EXCEPT ![h] = r] /\ UNCHANGED op /\ hold[h].step = "refs"
    BY <1>12, Zenon DEF TableReferences
  <2> HIDE DEF r
  <2> QED
    BY <1>7, <2>1, <2>2, Zenon
<1>13. CASE ListAndClassify(h)
  <2>1. PICK orphans :
           \/ GiveUp(h) /\ UNCHANGED op
           \/ Finish(h, "SUCCEEDED")
           \/ /\ hold' = [hold EXCEPT ![h].step = "busy", ![h].todo = orphans]
              /\ UNCHANGED op
    BY <1>13, Zenon DEF ListAndClassify
  <2>2. CASE hold' = [hold EXCEPT ![h].step = "busy", ![h].todo = orphans] /\ UNCHANGED op
    <3> DEFINE r == [hold[h] EXCEPT !.step = "busy", !.todo = orphans]
    <3>1. r.token = hold[h].token /\ r.step = "busy"
      BY <1>1, Zenon DEF PassState
    <3>2. hold' = [hold EXCEPT ![h] = r] /\ UNCHANGED op /\ hold[h].step = "list"
      BY <1>13, <2>2, Zenon DEF ListAndClassify
    <3> HIDE DEF r
    <3> QED
      BY <1>7, <3>1, <3>2, Zenon
  <2> QED
    BY <1>5, <1>6, <2>1, <2>2, Zenon
<1>14. CASE CheckBusy(h) \/ CheckUnchanged(h)
  BY <1>5, <1>8, <1>14, Zenon DEF CheckBusy, CheckUnchanged
<1>15. CASE RenewMaintenanceLease(h)
  <2>1. /\ hold[h].step = "delete"
        /\ \/ Finish(h, "SUCCEEDED") \/ Finish(h, "FAILED") \/ Finish(h, "ABORTED")
           \/ (GiveUp(h) /\ UNCHANGED op) \/ (GoOn(h, "remove") /\ UNCHANGED op)
    BY <1>15, Zenon DEF RenewMaintenanceLease
  <2> QED
    BY <1>5, <1>6, <1>8, <2>1, Zenon
<1>16. CASE FollowRun(h)
  <2>1. CASE GoOn(h, "submit") \/ GoOn(h, "followed")
    BY <1>8, <1>16, <2>1, Zenon DEF FollowRun
  <2>2. CASE GoOn(h, "plan") /\ (op.run = NoRun \/ runs[op.run].status \notin ActiveRun)
    <3>1. /\ hold'[h].step = "plan" /\ hold'[h].token = hold[h].token
          /\ \A g \in Holders \ {h} : hold'[g] = hold[g]
      BY <1>1, <2>2, Zenon DEF GoOn, PassState
    <3>2. UNCHANGED op /\ hold[h].step = "follow"
      BY <1>16, Zenon DEF FollowRun
    <3>3. HolderAgrees(h)'
      BY <1>3, <2>2, <3>1, <3>2, Zenon DEF HolderAgrees
    <3>4. \A g \in Holders :
             \/ hold'[g] = hold[g]
             \/ hold[g].step # "idle" /\ hold'[g].token = hold[g].token /\ HolderAgrees(g)'
      BY <3>1, <3>2, <3>3, Zenon
    <3> QED
      BY <3>2, <3>4, SameOperation, Zenon
  <2> QED
    BY <1>16, <2>1, <2>2, Zenon DEF FollowRun
<1>17. CASE PlanCompaction(h)
  <2>1. CASE Finish(h, "SUCCEEDED")
    BY <1>5, <2>1, Zenon
  <2>2. ASSUME NEW inputs \in SUBSET (Current \cap Runs), Cardinality(inputs) >= 2,
               IF HoldsLease(h)
               THEN op' = [op EXCEPT !.inputs = inputs] /\ GoOn(h, "create")
               ELSE GiveUp(h) /\ UNCHANGED op
        PROVE  OperationInv'
    <3>1. inputs # {}
      <4>1. Cardinality({}) = 0
        BY FS_EmptySet, Zenon
      <4>2. ~(0 >= 2)
        BY SMT
      <4> QED
        BY <2>2, <4>1, <4>2, Zenon
    <3>2. hold[h].step = "plan"
      BY <1>17, Zenon DEF PlanCompaction
    <3> QED
      BY <1>3, <1>6, <2>2, <3>1, <3>2, Planned, Zenon
  <2> QED
    BY <1>17, <2>1, <2>2, Zenon DEF PlanCompaction
<1> QED
  BY <1>9, <1>10, <1>11, <1>12, <1>13, <1>14, <1>15, <1>16, <1>17, Zenon DEF QuietPass

LEMMA PlanningOperation ==
    ASSUME MaintInv, CompactInv, Forward, NEW h \in Holders,
           CreateCompactionRun(h) \/ SetMaintenanceRunID(h) \/ StartRunWithTasks(h)
    PROVE  OperationInv'
<1>1. op \in Operation /\ hold \in [Holders -> PassState] /\ hold[h] \in PassState
      /\ runs \in [Runs -> Run]
  BY Zenon DEF MaintInv, Types
<1>2. IdleHold.step = "idle" /\ IdleHold.token = 0
  BY Zenon DEF IdleHold
<1>3. ASSUME hold' = [hold EXCEPT ![h] = IdleHold],
             op'.token = op.token, op'.run = op.run, op'.inputs = op.inputs,
             op'.status = "RUNNING" => op.status = "RUNNING"
      PROVE  OperationInv'
  <2>1. \A g \in Holders : (hold'[g].step = "idle" /\ hold'[g].token = 0) \/ hold'[g] = hold[g]
    BY <1>1, <1>2, <1>3, Zenon
  <2> QED
    BY <1>3, <2>1, SameOperation, Zenon
<1>4. ASSUME NEW status \in {"FAILED", "ABORTED"}, Finish(h, status)
      PROVE  OperationInv'
  <2>1. /\ op'.token = op.token /\ op'.run = op.run /\ op'.inputs = op.inputs
        /\ op'.status = "RUNNING" => op.status = "RUNNING"
    BY <1>1, <1>4, Zenon DEF Finish, Operation
  <2> QED
    BY <1>3, <1>4, <2>1, Zenon DEF Finish
<1>5. GiveUp(h) /\ UNCHANGED op => OperationInv'
  BY <1>3, Zenon DEF GiveUp
<1>6. CASE CreateCompactionRun(h)
  <2>1. ASSUME Holds(h), NEW k \in Runs, UNCHANGED op,
               runs' = [runs EXCEPT ![k] = [kind |-> "compaction", status |-> "PLANNING",
                                            reg |-> "", inputs |-> op.inputs]],
               hold' = [hold EXCEPT ![h].step = "link", ![h].run = k],
               NextRun(k)
        PROVE  OperationInv'
    <3>1. ASSUME NEW r, r = [kind |-> "compaction", status |-> "PLANNING",
                             reg |-> "", inputs |-> op.inputs]
          PROVE  r.inputs = op.inputs
      BY <3>1, Zenon
    <3>2. runs'[k].inputs = op.inputs
      BY <1>1, <2>1, <3>1, Zenon
    <3>3. /\ hold'[h].step = "link" /\ hold'[h].token = hold[h].token /\ hold'[h].run = k
          /\ \A g \in Holders \ {h} : hold'[g] = hold[g]
      BY <1>1, <2>1, Zenon DEF PassState
    <3>4. /\ hold[h].step = "create"
          /\ op.run = NoRun \/ runs[op.run].status \notin ActiveRun
          /\ op.inputs # {}
      BY <1>6, <2>1, Zenon DEF CreateCompactionRun, CompactInv, HolderAgrees
    <3>5. op.run \in Runs \cup {NoRun}
      BY <1>1, Zenon DEF Operation
    <3>6. op.run = NoRun \/ runs'[op.run].status \notin ActiveRun
      BY <3>4, <3>5, Zenon DEF Forward, CompactInv, OperationAgrees
    <3>7. HolderAgrees(h)'
      BY <2>1, <3>2, <3>3, <3>4, <3>6, Zenon DEF HolderAgrees
    <3>8. \A g \in Holders :
             \/ hold'[g] = hold[g]
             \/ hold[g].step # "idle" /\ hold'[g].token = hold[g].token /\ HolderAgrees(g)'
      BY <3>3, <3>4, <3>7, Zenon
    <3> QED
      BY <2>1, <3>8, SameOperation, Zenon
  <2> QED
    BY <1>4, <1>5, <1>6, <2>1, Zenon DEF CreateCompactionRun
<1>7. CASE SetMaintenanceRunID(h)
  <2>1. CASE HoldsLease(h)
    BY <1>7, <2>1, Linked, Zenon DEF SetMaintenanceRunID
  <2>2. CASE ~HoldsLease(h)
    BY <1>5, <1>7, <2>2, Zenon DEF SetMaintenanceRunID
  <2> QED
    BY <2>1, <2>2, Zenon
<1>8. CASE StartRunWithTasks(h)
  <2>1. CASE GoOn(h, "submit") /\ UNCHANGED op
    <3>1. /\ hold'[h].step = "submit" /\ hold'[h].token = hold[h].token
          /\ \A g \in Holders \ {h} : hold'[g] = hold[g]
      BY <1>1, <2>1, Zenon DEF GoOn, PassState
    <3>2. HolderAgrees(h)' /\ hold[h].step # "idle"
      BY <1>8, <3>1, Zenon DEF HolderAgrees, StartRunWithTasks
    <3>3. \A g \in Holders :
             \/ hold'[g] = hold[g]
             \/ hold[g].step # "idle" /\ hold'[g].token = hold[g].token /\ HolderAgrees(g)'
      BY <3>1, <3>2, Zenon
    <3> QED
      BY <2>1, <3>3, SameOperation, Zenon
  <2> QED
    BY <1>4, <1>8, <2>1, Zenon DEF StartRunWithTasks
<1> QED
  BY <1>6, <1>7, <1>8, Zenon

\* An operation that only changes its status, away from RUNNING or not at all.
LEMMA StatusOperation ==
    ASSUME MaintInv, CompactInv, Forward, UNCHANGED hold,
           op'.token = op.token, op'.run = op.run, op'.inputs = op.inputs,
           op'.status = "RUNNING" => op.status = "RUNNING"
    PROVE  OperationInv'
  BY SameOperation, Zenon

LEMMA StepOperation ==
    ASSUME MaintInv, CompactInv, Forward, Next PROVE OperationInv'
<1>1. op \in Operation /\ hold \in [Holders -> PassState]
  BY Zenon DEF MaintInv, Types
<1>2. CASE UNCHANGED <<op, hold>>
  BY <1>2, StatusOperation, Zenon
<1>3. ASSUME NEW k, NEW status \in {"SUCCEEDED", "ABORTED"},
             CompleteCompactionOperation(k, status)
      PROVE  /\ op'.token = op.token /\ op'.run = op.run /\ op'.inputs = op.inputs
             /\ op'.status = "RUNNING" => op.status = "RUNNING"
  BY <1>1, <1>3, Zenon DEF CompleteCompactionOperation, Operation
<1>4. CASE CommitAction
  <2>1. UNCHANGED hold
    BY <1>4, CommitActionLeaves, Zenon
  <2>2. \/ UNCHANGED op
        \/ \E k, status : status \in {"SUCCEEDED", "ABORTED"} /\ CompleteCompactionOperation(k, status)
    BY <1>4, Zenon DEF CommitAction, LoadForCommit, RecordCompaction, CommitStops
  <2> QED
    BY <1>2, <1>3, <2>1, <2>2, StatusOperation, Zenon
<1>5. CASE OperationAction
  <2>1. UNCHANGED hold
    BY <1>5, OperationActionLeaves, Zenon
  <2>2. CASE \E kind \in {"ORPHAN_CLEANUP", "COMPACTION"} : CreateMaintenanceOperation(kind)
    BY <2>1, <2>2, Created, Zenon
  <2>3. CASE MaintenanceLeaseLapses
    <3>1. /\ op'.token = op.token /\ op'.run = op.run /\ op'.inputs = op.inputs
          /\ op'.status = op.status
      BY <1>1, <2>3, Zenon DEF MaintenanceLeaseLapses, Operation
    <3> QED
      BY <2>1, <3>1, StatusOperation, Zenon
  <2>4. CASE FailSubmittedCompactions
    <3>1. PICK status \in {"ABORTED", "FAILED"} : op' = [op EXCEPT !.status = status]
      BY <2>4, Zenon DEF FailSubmittedCompactions
    <3>2. /\ op'.token = op.token /\ op'.run = op.run /\ op'.inputs = op.inputs
          /\ op'.status = status
      BY <1>1, <3>1, Zenon DEF Operation
    <3> QED
      BY <2>1, <3>2, StatusOperation, Zenon
  <2> QED
    BY <1>5, <2>2, <2>3, <2>4, Zenon DEF OperationAction
<1>6. ASSUME NEW h \in Holders, DeleteOrphan(h) PROVE OperationInv'
  <2>1. hold[h] \in PassState /\ hold[h].step = "remove" /\ UNCHANGED op
    BY <1>1, <1>6, Zenon DEF DeleteOrphan
  <2>2. PICK f, failed : hold' = [hold EXCEPT ![h] =
                   IF HoldsLease(h)
                   THEN [hold[h] EXCEPT !.step = "delete", !.todo = hold[h].todo \ {f},
                                        !.i = hold[h].i + 1, !.failed = hold[h].failed \/ failed]
                   ELSE IdleHold]
    BY <1>6, Zenon DEF DeleteOrphan
  <2>3. \A g \in Holders \ {h} : hold'[g] = hold[g]
    BY <1>1, <2>2, Zenon
  <2>4. \/ hold'[h].step = "idle" /\ hold'[h].token = 0
        \/ hold'[h].step = "delete" /\ hold'[h].token = hold[h].token
    <3>1. IdleHold.step = "idle" /\ IdleHold.token = 0
      BY Zenon DEF IdleHold
    <3>2. PICK r : /\ r.step = "delete" /\ r.token = hold[h].token
                   /\ hold' = [hold EXCEPT ![h] = IF HoldsLease(h) THEN r ELSE IdleHold]
      <4> DEFINE r == [hold[h] EXCEPT !.step = "delete", !.todo = hold[h].todo \ {f},
                                      !.i = hold[h].i + 1, !.failed = hold[h].failed \/ failed]
      <4>1. r.step = "delete" /\ r.token = hold[h].token
        BY <2>1, Zenon DEF PassState
      <4>2. hold' = [hold EXCEPT ![h] = IF HoldsLease(h) THEN r ELSE IdleHold]
        BY <2>2, Zenon
      <4> HIDE DEF r
      <4> QED
        BY <4>1, <4>2, Zenon
    <3> QED
      BY <1>1, <3>1, <3>2, Zenon
  <2>5. \A g \in Holders :
           \/ hold'[g].step = "idle" /\ hold'[g].token = 0
           \/ hold'[g] = hold[g]
           \/ hold[g].step # "idle" /\ hold'[g].token = hold[g].token /\ HolderAgrees(g)'
    <3>1. hold'[h].step = "delete" => HolderAgrees(h)'
      BY Zenon DEF HolderAgrees
    <3> QED
      BY <2>1, <2>3, <2>4, <3>1, Zenon
  <2> QED
    BY <2>1, <2>5, SameOperation, Zenon
<1>7. ASSUME NEW k \in Runs, RunAction(k) \/ Register(k) PROVE UNCHANGED <<op, hold>>
  BY <1>7, RunActionLeaves, Zenon DEF Register
<1>8. ExpireSnapshot \/ CommitTransaction \/ EndCompactionRun => UNCHANGED <<op, hold>>
  BY Zenon DEF ExpireSnapshot, CommitTransaction, EndCompactionRun
<1> QED
  BY <1>2, <1>4, <1>5, <1>6, <1>7, <1>8, Actions, QuietPassOperation, PlanningOperation, Zenon

-----------------------------------------------------------------------------
(* The rows of files *)

\* The rows of some files, each row with the file it is in.
RowsIn(c, files) == {p \in Files \X Runs : p[1] \in files /\ p[2] \in c[p[1]]}

LEMMA RowsFinite ==
    ASSUME MaintenanceConstants, NEW c, NEW files PROVE IsFiniteSet(RowsIn(c, files))
<1>1. MaxRuns \in Nat /\ 2 * MaxRuns \in Nat
  BY DEF MaintenanceConstants
<1>2. IsFiniteSet(Runs) /\ IsFiniteSet(Files)
  BY <1>1, FS_Interval DEF Runs, Files
<1>3. IsFiniteSet(Files \X Runs)
  BY <1>2, FS_Product, Zenon
<1> QED
  BY <1>3, FS_Subset, Zenon DEF RowsIn

\* Disjoint files: their rows add up.
LEMMA RowsAdd ==
    ASSUME MaintenanceConstants, NEW c, NEW s, NEW t, s \cap t = {}
    PROVE  /\ Cardinality(RowsIn(c, s \cup t)) = Cardinality(RowsIn(c, s)) + Cardinality(RowsIn(c, t))
           /\ Cardinality(RowsIn(c, s)) \in Nat /\ Cardinality(RowsIn(c, t)) \in Nat
<1>1. RowsIn(c, s \cup t) = RowsIn(c, s) \cup RowsIn(c, t)
  BY Zenon DEF RowsIn
<1>2. RowsIn(c, s) \cap RowsIn(c, t) = {}
  BY Zenon DEF RowsIn
<1>3. IsFiniteSet(RowsIn(c, s)) /\ IsFiniteSet(RowsIn(c, t))
  BY RowsFinite, Zenon
<1>4. Cardinality(RowsIn(c, s)) \in Nat /\ Cardinality(RowsIn(c, t)) \in Nat
  BY <1>3, FS_CardinalityType, Zenon
<1>5. Cardinality(RowsIn(c, s) \cup RowsIn(c, t))
        = Cardinality(RowsIn(c, s)) + Cardinality(RowsIn(c, t)) - Cardinality(RowsIn(c, s) \cap RowsIn(c, t))
  BY <1>3, FS_Union, Zenon
<1>6. Cardinality(RowsIn(c, s) \cap RowsIn(c, t)) = 0
  BY <1>2, FS_EmptySet, Zenon
<1>7. ASSUME NEW m \in Nat, NEW n \in Nat PROVE m + n - 0 = m + n
  BY <1>7
<1> QED
  BY <1>1, <1>4, <1>5, <1>6, <1>7, Zenon

\* The rows of files that nobody writes.
LEMMA RowsSame ==
    ASSUME NEW c, NEW d, NEW files, \A f \in files : d[f] = c[f]
    PROVE  RowsIn(d, files) = RowsIn(c, files)
  BY Zenon DEF RowsIn

-----------------------------------------------------------------------------
(* The invariant *)

LEMMA OneActiveKept ==
    ASSUME CompactInv, Forward PROVE OneActive'
<1> SUFFICES ASSUME NEW j \in Runs, NEW k \in Runs,
                    runs'[j].status \in ActiveRun, runs'[k].status \in ActiveRun
             PROVE  j = k
  BY Zenon DEF OneActive
<1>1. PICK m \in Runs : \A i \in Runs \ {m} : runs'[i] = runs[i]
  BY Zenon DEF Forward
<1>2. ASSUME NEW i \in Runs, runs'[i].status \in ActiveRun, runs[i].status \notin ActiveRun
      PROVE  i = m /\ ~DatasetActive
  BY <1>1, <1>2, Zenon DEF Forward
<1>3. ASSUME NEW i \in Runs, runs[i].status \in ActiveRun PROVE DatasetActive
  BY <1>3, Zenon DEF DatasetActive
<1>4. CASE runs[j].status \in ActiveRun /\ runs[k].status \in ActiveRun
  BY <1>4, Zenon DEF CompactInv, OneActive
<1> QED
  BY <1>2, <1>3, <1>4, Zenon

LEMMA WrittenKept ==
    ASSUME MaintInv, CompactInv, Forward, CurrentStep, OperationInv' PROVE Written'
<1>1. \A f \in Current' \cap Runs : Entered(f)'
  <2>1. \A f \in Runs : Entered(f) => Entered(f)'
    BY Zenon DEF Forward
  <2>2. CASE UNCHANGED table
    BY <2>1, <2>2, Zenon DEF Current, CompactInv, Written
  <2>3. CASE \A f \in Current' \cap Runs : f \in Current \/ Entered(f)'
    BY <2>1, <2>3, Zenon DEF CompactInv, Written
  <2> QED
    BY <2>2, <2>3, Zenon DEF CurrentStep
<1>2. ASSUME NEW k \in Runs, NEW f \in runs'[k].inputs PROVE Entered(f)'
  <2>1. f \in runs[k].inputs \/ f \in op.inputs
    BY <1>2, Zenon DEF Forward
  <2>2. runs[k].inputs \subseteq Runs /\ op.inputs \subseteq Runs
    BY Zenon DEF MaintInv, Types, Run, Operation
  <2>3. Entered(f) /\ f \in Runs
    BY <2>1, <2>2, Zenon DEF CompactInv, Written
  <2> QED
    BY <2>3, Zenon DEF Forward
<1> QED
  BY <1>1, <1>2, Zenon DEF Written, OperationInv

LEMMA CompactedKept ==
    ASSUME MaintInv, CompactInv, Forward, Arrives, CurrentStep PROVE Compacted'
<1> SUFFICES ASSUME NEW k \in Runs
             PROVE  /\ runs'[k].kind = "compaction" => runs'[k].inputs # {}
                    /\ runs'[k].status = "COMMITTING" =>
                        /\ k \notin runs'[k].inputs
                        /\ content'[k] = UNION {content'[f] : f \in runs'[k].inputs}
                        /\ k \in Current' => runs'[k].inputs \cap Current' = {}
  BY Zenon DEF Compacted
<1>1. runs'[k].kind = "compaction" => runs'[k].inputs # {}
  BY Zenon DEF Forward, CompactInv, Compacted
<1>2. \A f \in runs[k].inputs : f \in Runs /\ Entered(f) /\ content'[f] = content[f]
  <2>1. runs[k].inputs \subseteq Runs
    BY Zenon DEF MaintInv, Types, Run
  <2> QED
    BY <2>1, Zenon DEF CompactInv, Written, Forward
<1>3. UNION {content'[f] : f \in runs[k].inputs} = UNION {content[f] : f \in runs[k].inputs}
  BY <1>2, Zenon
<1>4. CASE runs'[k].status = "COMMITTING" /\ runs[k].status = "COMMITTING"
  <2>1. runs'[k].inputs = runs[k].inputs
    BY <1>4, Zenon DEF Forward
  <2>2. /\ k \notin runs[k].inputs
        /\ content[k] = UNION {content[f] : f \in runs[k].inputs}
        /\ k \in Current => runs[k].inputs \cap Current = {}
    BY <1>4, Zenon DEF CompactInv, Compacted
  <2>3. content'[k] = content[k]
    <3>1. runs[k].reg = ""
      BY <1>4, Zenon DEF MaintInv, RowsConsistent
    <3>2. Entered(k)
      BY <1>4, <3>1, Zenon DEF Entered
    <3> QED
      BY <3>2, Zenon DEF Forward
  <2>4. k \in Current' => runs[k].inputs \cap Current' = {}
    BY <1>4, <2>2, Zenon DEF CurrentStep, Current
  <2> QED
    BY <1>1, <1>3, <2>1, <2>2, <2>3, <2>4, Zenon
<1>5. CASE runs'[k].status = "COMMITTING" /\ Compacts(k) /\ UNCHANGED table
  <2>1. runs'[k].inputs = runs[k].inputs /\ ~Entered(k)
    BY <1>5, Zenon DEF Compacts
  <2>2. k \notin runs[k].inputs
    BY <1>2, <2>1, Zenon
  <2>3. content'[k] = UNION {content'[f] : f \in runs'[k].inputs}
    BY <1>3, <1>5, <2>1, Zenon DEF Compacts
  <2>4. k \notin Current'
    BY <1>5, <2>1, Zenon DEF Current, CompactInv, Written
  <2> QED
    BY <1>1, <2>1, <2>2, <2>3, <2>4, Zenon
<1> QED
  BY <1>1, <1>4, <1>5, Zenon DEF Arrives

\* Compared, in the state after a step.
RowsComparedAfter ==
    Cardinality(RowsIn(content', runs'[commit'.run].inputs)) = Cardinality(RowsIn(content', {commit'.run}))

LEMMA ComparedAfter ==
    ASSUME commit'.step = "commit" /\ commit'.ver = table'.ver =>
               runs'[commit'.run].inputs \subseteq Current' /\ RowsComparedAfter
    PROVE  Compared'
  BY Zenon DEF Compared, RowCount, RowsComparedAfter, RowsIn

\* A comparison of LoadForCommit is of the table and the files as they are.
LEMMA LoadCompares ==
    ASSUME MaintenanceConstants, MaintInv, CompactInv, NEW k \in Runs, LoadForCommit(k) PROVE Compared'
<1>1. commit \in CommitState
  BY Zenon DEF MaintInv, Types
<1>2. UNCHANGED <<runs, content, table>> /\ runs[k].status = "COMMITTING"
  BY Zenon DEF LoadForCommit
<1>3. CommitInputs(k) = runs[k].inputs
  BY <1>2, FileNames, InputsOfRun, Zenon
<1>4. CASE /\ CommitInputs(k) \subseteq Current
           /\ RowCount(CommitInputs(k)) = RowCount({k})
           /\ commit' = [commit EXCEPT !.step = "commit", !.run = k,
                                       !.ver = table.ver, !.files = Current]
  <2>1. commit'.run = k
    BY <1>1, <1>4, Zenon DEF CommitState
  <2>2. runs[k].inputs \subseteq Current /\ RowCount(runs[k].inputs) = RowCount({k})
    BY <1>3, <1>4, Zenon
  <2>3. Current' = Current
    BY <1>2, Zenon DEF Current
  <2>4. RowsComparedAfter
    BY <1>2, <2>1, <2>2, Zenon DEF RowsComparedAfter, RowCount, RowsIn
  <2> QED
    BY <1>2, <2>1, <2>2, <2>3, <2>4, ComparedAfter, Zenon
<1>5. CASE \E step \in {"landed", "refused"} : commit' = [commit EXCEPT !.step = step, !.run = k]
  <2>1. commit'.step # "commit"
    BY <1>1, <1>5, Zenon DEF CommitState
  <2> QED
    BY <2>1, Zenon DEF Compared
<1> QED
  BY <1>4, <1>5, Zenon DEF LoadForCommit

\* A comparison stands until the table changes.
LEMMA ComparedKept ==
    ASSUME MaintInv, CompactInv, Forward, CurrentStep, UNCHANGED commit PROVE Compared'
<1> SUFFICES ASSUME commit.step = "commit", commit.ver = table'.ver
             PROVE  runs'[commit.run].inputs \subseteq Current' /\ RowsComparedAfter
  BY ComparedAfter, Zenon
<1> DEFINE k == commit.run
<1> DEFINE inputs == runs[k].inputs
<1>1. k \in Runs /\ runs[k].status = "COMMITTING" /\ commit.ver <= table.ver
  BY Zenon DEF MaintInv, CommitCurrent
<1>2. commit.ver \in Nat /\ table.ver \in Nat
  BY Zenon DEF MaintInv, Types, CommitState
<1>3. UNCHANGED table
  <2>1. table'.ver # table.ver + 1
    BY <1>1, <1>2
  <2> QED
    BY <2>1, Zenon DEF CurrentStep
<1>4. /\ inputs \subseteq Current
      /\ Cardinality(RowsIn(content, inputs)) = Cardinality(RowsIn(content, {k}))
  <2>1. commit.ver = table.ver
    BY <1>3, Zenon
  <2> QED
    BY <2>1, Zenon DEF CompactInv, Compared, RowCount, RowsIn
<1>5. runs'[k].inputs = inputs
  BY <1>1, Zenon DEF Forward
<1>6. \A f \in inputs : content'[f] = content[f]
  <2>1. inputs \subseteq Runs
    BY <1>1, Zenon DEF MaintInv, Types, Run
  <2> QED
    BY <1>1, <2>1, Zenon DEF CompactInv, Written, Forward
<1>7. content'[k] = content[k]
  <2>1. runs[k].reg = ""
    BY <1>1, Zenon DEF MaintInv, RowsConsistent
  <2>2. Entered(k)
    BY <1>1, <2>1, Zenon DEF Entered
  <2> QED
    BY <1>1, <2>2, Zenon DEF Forward
<1>8. /\ Cardinality(RowsIn(content', inputs)) = Cardinality(RowsIn(content, inputs))
      /\ Cardinality(RowsIn(content', {k})) = Cardinality(RowsIn(content, {k}))
  <2>1. \A f \in {k} : content'[f] = content[f]
    BY <1>7, Zenon
  <2> HIDE DEF k, inputs
  <2>2. RowsIn(content', inputs) = RowsIn(content, inputs)
    BY <1>6, RowsSame, Zenon
  <2>3. RowsIn(content', {k}) = RowsIn(content, {k})
    BY <2>1, RowsSame, Zenon
  <2> QED
    BY <2>2, <2>3, Zenon
<1>9. RowsComparedAfter
  BY <1>4, <1>5, <1>8, Zenon DEF RowsComparedAfter
<1>10. Current' = Current
  BY <1>3, Zenon DEF Current
<1> QED
  BY <1>4, <1>5, <1>9, <1>10, Zenon

LEMMA StepCompares ==
    ASSUME MaintenanceConstants, MaintInv, CompactInv, Forward, CurrentStep, Next PROVE Compared'
<1>1. CASE UNCHANGED commit
  BY <1>1, ComparedKept, Zenon
<1>2. CASE \E k \in Runs : LoadForCommit(k)
  BY <1>2, LoadCompares, Zenon
<1>3. CASE commit'.step # "commit"
  BY <1>3, Zenon DEF Compared
<1>4. commit \in CommitState /\ IdleCommit.step = "idle"
  BY Zenon DEF MaintInv, Types, IdleCommit
<1>5. RecordCompaction \/ CommitStops \/ EndCompactionRun => commit'.step # "commit"
  BY <1>4, Zenon DEF RecordCompaction, CommitStops, EndCompactionRun, CommitState
<1>6. CommitTransaction => commit'.step # "commit"
  <2>1. Again => commit'.step # "commit"
    <3>1. PICK tries : Again => \/ commit' = [commit EXCEPT !.step = "load", !.tries = tries]
                                \/ commit' = IdleCommit
      BY Zenon DEF Again
    <3> QED
      BY <1>4, <3>1, Zenon DEF CommitState
  <2>2. commit' = [commit EXCEPT !.step = "landed"] => commit'.step # "commit"
    BY <1>4, Zenon DEF CommitState
  <2> QED
    BY <2>1, <2>2, Zenon DEF CommitTransaction
<1>7. ASSUME NEW k \in Runs, RunAction(k) \/ Register(k) PROVE UNCHANGED commit
  BY <1>7, RunActionLeaves, Zenon DEF Register
<1>8. ASSUME NEW h \in Holders,
             QuietPass(h) \/ DeleteOrphan(h) \/ CreateCompactionRun(h)
             \/ SetMaintenanceRunID(h) \/ StartRunWithTasks(h)
      PROVE  UNCHANGED commit
  BY <1>8, QuietPassLeaves, Zenon DEF DeleteOrphan, CreateCompactionRun, SetMaintenanceRunID,
     StartRunWithTasks
<1>9. OperationAction \/ ExpireSnapshot => UNCHANGED commit
  BY OperationActionLeaves, Zenon DEF ExpireSnapshot
<1> QED
  BY <1>1, <1>2, <1>3, <1>5, <1>6, <1>7, <1>8, <1>9, Actions, Zenon DEF CommitAction

LEMMA CompactStart == ASSUME MaintenanceConstants, Init PROVE CompactInv
<1>1. MaxRuns \in Nat /\ 1 \in Runs /\ 2 \in Runs
  BY DEF MaintenanceConstants, Runs
<1>2. content \in [Files -> SUBSET Runs]
  <2>1. \A f \in Files : f <= 2 => f \in Runs
    BY <1>1 DEF Files, Runs
  <2> QED
    BY <2>1, Zenon DEF Init
<1>3. \A k \in Runs :
         /\ runs[k].kind = "export" /\ runs[k].inputs = {}
         /\ runs[k].status \in {"NONE", "SUCCEEDED"}
         /\ k \in {1, 2} => Entered(k)
  <2>1. \A k \in {1, 2} : k <= 2
    BY SMT
  <2>2. \A k \in Runs :
         /\ k <= 2 => /\ runs[k].kind = "export" /\ runs[k].status = "SUCCEEDED"
                      /\ runs[k].reg = "REGISTERED" /\ runs[k].inputs = {}
         /\ ~(k <= 2) => /\ runs[k].kind = "export" /\ runs[k].status = "NONE"
                         /\ runs[k].reg = "" /\ runs[k].inputs = {}
    BY Zenon DEF Init
  <2> QED
    BY <2>1, <2>2, Zenon DEF Entered
<1>4. op.run = NoRun /\ op.inputs = {} /\ op.token = 0 /\ commit.step = "idle"
  BY Zenon DEF Init, NoOp, IdleCommit
<1>5. \A h \in Holders : hold[h].step = "idle" /\ hold[h].token = 0
  BY Zenon DEF Init, IdleHold
<1>6. Current = {1, 2}
  <2>1. PICK s : s.files = {1, 2} /\ table = [ver |-> 0, snaps |-> <<s>>]
    <3> DEFINE s == [files |-> {1, 2}, stamp |-> NoRun]
    <3>1. s.files = {1, 2}
      BY Zenon
    <3>2. table = [ver |-> 0, snaps |-> <<s>>]
      BY Zenon DEF Init
    <3> HIDE DEF s
    <3> QED
      BY <3>1, <3>2, Zenon
  <2>2. table.snaps = <<s>>
    BY <2>1, Zenon
  <2>3. Len(table.snaps) = 1 /\ table.snaps[1] = s
    BY <2>2, SMT
  <2> QED
    BY <2>1, <2>3, Zenon DEF Current
<1>7. OneActive /\ Written /\ Compacted
  BY <1>3, <1>4, <1>6, Zenon DEF OneActive, Written, Compacted, ActiveRun
<1>8. OwnTokens
  <2>1. 0 <= 0
    BY SMT
  <2> QED
    BY <1>4, <1>5, <2>1, Zenon DEF OwnTokens
<1>9. OperationAgrees /\ Compared /\ \A h \in Holders : HolderAgrees(h)
  BY <1>4, <1>5, Zenon DEF OperationAgrees, Compared, HolderAgrees
<1> QED
  BY <1>2, <1>7, <1>8, <1>9, Zenon DEF CompactInv

LEMMA CompactStep ==
    ASSUME MaintenanceConstants, MaintInv, CompactInv, [Next]_vars PROVE CompactInv'
<1>1. CASE UNCHANGED vars
  <2>1. UNCHANGED <<runs, content, table, op, hold, commit>>
    BY <1>1, Zenon DEF vars
  <2>2. Forward /\ Arrives /\ CurrentStep
    BY <2>1, NothingMoves, Zenon DEF CurrentStep
  <2>3. OperationInv'
    BY <2>1, <2>2, StatusOperation, Zenon
  <2>4. OneActive' /\ Written' /\ Compacted' /\ Compared'
    BY <2>1, <2>2, <2>3, OneActiveKept, WrittenKept, CompactedKept, ComparedKept, Zenon
  <2> QED
    BY <2>2, <2>3, <2>4, Zenon DEF CompactInv, OperationInv, Forward
<1>2. CASE Next
  <2>1. Forward /\ Arrives /\ CurrentStep
    BY <1>2, StepForward, StepCurrent, Zenon
  <2>2. OperationInv'
    BY <1>2, <2>1, StepOperation, Zenon
  <2>3. OneActive' /\ Written' /\ Compacted' /\ Compared'
    BY <1>2, <2>1, <2>2, OneActiveKept, WrittenKept, CompactedKept, StepCompares, Zenon
  <2> QED
    BY <2>1, <2>2, <2>3, Zenon DEF CompactInv, OperationInv, Forward
<1> QED
  BY <1>1, <1>2, Zenon

LEMMA RowsKeptByCompaction ==
    ASSUME MaintenanceConstants, MaintInv, CompactInv PROVE CompactionKeepsRows
<1> SUFFICES ASSUME CommitTransaction, table' # table
             PROVE  /\ UNION {content[f] : f \in Current'} = UNION {content[f] : f \in Current}
                    /\ RowCount(Current') = RowCount(Current)
  BY Zenon DEF CompactionKeepsRows
<1> DEFINE k == commit.run
<1> DEFINE inputs == runs[k].inputs
<1> DEFINE others == Current \ inputs
<1>1. /\ k \in Runs /\ runs[k].status = "COMMITTING" /\ inputs \subseteq Current /\ k \notin Current
      /\ RowCount(inputs) = RowCount({k})
      /\ Current' = others \cup {k}
  BY Lands, Zenon
<1>2. content[k] = UNION {content[f] : f \in inputs}
  BY <1>1, Zenon DEF CompactInv, Compacted
<1>3. Current = others \cup inputs /\ others \cap inputs = {} /\ others \cap {k} = {}
  BY <1>1, Zenon
<1> HIDE DEF k, inputs, others
<1>4. UNION {content[f] : f \in others \cup {k}} = UNION {content[f] : f \in others \cup inputs}
  BY <1>2, Zenon
<1>5. \A files : RowCount(files) = Cardinality(RowsIn(content, files))
  BY Zenon DEF RowCount, RowsIn
<1>6. /\ RowCount(others \cup {k}) = RowCount(others) + RowCount({k})
      /\ RowCount(others \cup inputs) = RowCount(others) + RowCount(inputs)
  BY <1>3, <1>5, RowsAdd, Zenon
<1>7. RowCount(others \cup {k}) = RowCount(others \cup inputs)
  BY <1>1, <1>6, Zenon
<1> QED
  BY <1>1, <1>3, <1>4, <1>7, Zenon

\* A compaction that lands neither loses a row of the table nor doubles one: not
\* when exports register or snapshots expire between its plan and its commit, not
\* when the answer of the catalog is lost and the commit is tried again, not when
\* a second master plans the same operation (CommitCompaction of
\* internal/grpc/maintenance.go, which reads its inputs from the operation's row,
\* and startCompactionRun).
THEOREM CompactionLosesNoRow ==
    ASSUME MaintenanceConstants PROVE Spec => [][CompactionKeepsRows]_vars
<1>1. Init => MaintInv /\ CompactInv
  BY MaintStart, CompactStart, Zenon
<1>2. MaintInv /\ CompactInv /\ [Next]_vars => (MaintInv /\ CompactInv)'
  BY MaintStep, CompactStep, Zenon
<1>3. MaintInv /\ CompactInv => CompactionKeepsRows
  BY RowsKeptByCompaction, Zenon
<1> QED
  BY <1>1, <1>2, <1>3, PTL DEF Spec

=============================================================================
