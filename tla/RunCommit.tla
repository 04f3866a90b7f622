----------------------------- MODULE RunCommit -----------------------------
(***************************************************************************)
(* Publication of the COMMITTING runs of one dataset:                      *)
(* internal/grpc/{commit_coordination,commit_run,commit_identity}.go and   *)
(* internal/db/{commit_reconciliation,store_runs}.go.                      *)
(*                                                                         *)
(* A committer is a goroutine of the master that publishes one run: it     *)
(* claims the run, verifies the artifacts, reads _state.json, persists an  *)
(* immutable intent, writes and verifies the run's manifest, then          *)
(* _state.json, mirrors the high-water mark in SQLite and completes the    *)
(* run.  Each store call and each object-store call is one step.  Object   *)
(* writes are not conditional, so what a committer read may be stale when  *)
(* it writes.                                                              *)
(***************************************************************************)
EXTENDS Integers, FiniteSets

CONSTANTS
    Runs,         \* naturals from 1 on: the rank of a run of the dataset by started_at
    Mark,         \* Mark[r]: the largest cursor value run r extracted, 0 for none
    Committers,
    MaxAttempts,
    MaxFaults,    \* bound: failed calls, timeouts and stops of the master
    MaxLapses     \* bound: claims that expire although their committer lives

CommitAssumption ==
    /\ Runs \subseteq Nat \ {0}
    /\ Mark \in [Runs -> Nat]
    /\ MaxAttempts \in Nat \ {0}
    /\ MaxFaults \in Nat
    /\ MaxLapses \in Nat

VARIABLES
    status,     \* runs.status, "WAITING" before COMMITTING
    intent,     \* runs.commit_intent_json
    phase,      \* runs.commit_phase
    tries,      \* runs.commit_reconciliation_attempt_count
    waiting,    \* runs.commit_reconciliation_next_eligible_at is in the future
    claim,      \* the live committer that owns runs.commit_claim_token
    claimLive,  \* the token is set and commit_claim_expires_at is in the future
    mirror,     \* hwm.hwm_value
    manifest,   \* the object _commits/run-<id>.json of each run
    state,      \* the object _state.json
    step,       \* the next call of each committer
    target,     \* the run it publishes
    seen,       \* the _state.json it read
    plan,       \* the intent it follows
    cause,      \* why its pass failed
    faults,
    lapses

rowVars == <<status, intent, phase, tries, waiting, claim, claimLive, mirror>>
objectVars == <<manifest, state>>
passVars == <<target, seen, plan, cause>>
vars == <<rowVars, objectVars, step, passVars, faults, lapses>>

(* A state and a manifest are told apart by the run that wrote them and the
   high-water mark they record.  Run 0 stands for an object that is missing. *)
NoState == [run |-> 0, hwm |-> 0]
NoIntent == [prev |-> NoState, next |-> NoState]
HasIntent(i) == i.next # NoState

Init ==
    /\ status = [r \in Runs |-> "WAITING"]
    /\ intent = [r \in Runs |-> NoIntent]
    /\ phase = [r \in Runs |-> ""]
    /\ tries = [r \in Runs |-> 0]
    /\ waiting = [r \in Runs |-> FALSE]
    /\ claim = [r \in Runs |-> {}]
    /\ claimLive = [r \in Runs |-> FALSE]
    /\ mirror = 0
    /\ manifest = [r \in Runs |-> NoState]
    /\ state = NoState
    /\ step = [c \in Committers |-> "idle"]
    /\ target = [c \in Committers |-> 0]
    /\ seen = [c \in Committers |-> NoState]
    /\ plan = [c \in Committers |-> NoIntent]
    /\ cause = [c \in Committers |-> ""]
    /\ faults = 0
    /\ lapses = 0

-----------------------------------------------------------------------------
(* The run *)

\* Mutant: a run that failed is finalized again.
BeginCommitAgain(r) ==
    /\ status[r] \in {"WAITING", "FAILED"}
    /\ \A s \in Runs : s < r => status[s] \in {"SUCCEEDED", "FAILED"}
    /\ status' = [status EXCEPT ![r] = "COMMITTING"]
    /\ phase' = [phase EXCEPT ![r] = "PREPARING"]
    /\ UNCHANGED <<intent, tries, waiting, claim, claimLive, mirror,
                   objectVars, step, passVars, faults, lapses>>

\* TryFinalizeRun.  A dataset has one active run, so the run before is over.
BeginCommit(r) ==
    /\ status[r] = "WAITING"
    /\ \A s \in Runs : s < r => status[s] \in {"SUCCEEDED", "FAILED"}
    /\ status' = [status EXCEPT ![r] = "COMMITTING"]
    /\ phase' = [phase EXCEPT ![r] = "PREPARING"]
    /\ UNCHANGED <<intent, tries, waiting, claim, claimLive, mirror,
                   objectVars, step, passVars, faults, lapses>>

\* commit_reconciliation_next_eligible_at passes.
BackoffOver(r) ==
    /\ waiting[r]
    /\ waiting' = [waiting EXCEPT ![r] = FALSE]
    /\ UNCHANGED <<status, intent, phase, tries, claim, claimLive, mirror,
                   objectVars, step, passVars, faults, lapses>>

-----------------------------------------------------------------------------
(* The claim *)

\* Mutant: a run whose pass failed is no longer eligible.
ClaimableWhenPending(r) ==
    status[r] = "COMMITTING" /\ ~waiting[r] /\ ~claimLive[r] /\ phase[r] # "RETRY_REQUIRED"

\* Mutant: a claim excludes nobody.
ClaimableByAll(r) == status[r] = "COMMITTING" /\ ~waiting[r]

Claimable(r) == status[r] = "COMMITTING" /\ ~waiting[r] /\ ~claimLive[r]

\* launchCommit and the reconciliation loop both start here.
ClaimCommittingRun(c, r) ==
    /\ step[c] = "idle"
    /\ Claimable(r)
    /\ claim' = [claim EXCEPT ![r] = {c}]
    /\ claimLive' = [claimLive EXCEPT ![r] = TRUE]
    /\ step' = [step EXCEPT ![c] = "load"]
    /\ target' = [target EXCEPT ![c] = r]
    /\ UNCHANGED <<status, intent, phase, tries, waiting, mirror,
                   objectVars, seen, plan, cause, faults, lapses>>

\* Time passes.  A live committer renews every third of the lease, so its claim
\* lapses only when the whole process was held up or the clock jumped; another
\* goroutine, or the next leader, then claims the run.
ClaimLapses(r) ==
    /\ claimLive[r]
    /\ claimLive' = [claimLive EXCEPT ![r] = FALSE]
    /\ \/ claim[r] = {} /\ lapses' = lapses
       \/ claim[r] # {} /\ lapses < MaxLapses /\ lapses' = lapses + 1
    /\ UNCHANGED <<status, intent, phase, tries, waiting, claim, mirror,
                   objectVars, step, passVars, faults>>

\* The deferred release, which drops the claim only under the own token.  When
\* it fails, the token stays behind until it expires.
ReleaseCommitClaim(c) ==
    /\ step[c] = "release"
    /\ step' = [step EXCEPT ![c] = "idle"]
    /\ claim' = [claim EXCEPT ![target[c]] = claim[target[c]] \ {c}]
    /\ \/ /\ claimLive' = [claimLive EXCEPT
                              ![target[c]] = claimLive[target[c]] /\ c \notin claim[target[c]]]
          /\ UNCHANGED faults
       \/ /\ faults < MaxFaults
          /\ faults' = faults + 1
          /\ UNCHANGED claimLive
    /\ target' = [target EXCEPT ![c] = 0]
    /\ seen' = [seen EXCEPT ![c] = NoState]
    /\ plan' = [plan EXCEPT ![c] = NoIntent]
    /\ cause' = [cause EXCEPT ![c] = ""]
    /\ UNCHANGED <<status, intent, phase, tries, waiting, mirror, objectVars, lapses>>

-----------------------------------------------------------------------------
(* A pass: commitRun, then CompleteRunCommit *)

Goto(c, s) == step' = [step EXCEPT ![c] = s]

Fail(c, why) ==
    /\ Goto(c, "failed")
    /\ cause' = [cause EXCEPT ![c] = why]

\* GetRun.
LoadRun(c) ==
    /\ step[c] = "load"
    /\ plan' = [plan EXCEPT ![c] = intent[target[c]]]
    /\ Goto(c, IF status[target[c]] = "SUCCEEDED" THEN "release" ELSE "verify")
    /\ UNCHANGED <<rowVars, objectVars, target, seen, cause, faults, lapses>>

\* Every accepted artifact is still what the worker verified, and the counts of
\* the source agree where the job asks for that.
VerifyArtifacts(c) ==
    /\ step[c] = "verify"
    /\ Goto(c, "read")
    /\ UNCHANGED <<rowVars, objectVars, passVars, faults, lapses>>

\* An artifact changed, or the source counts prove a loss.
RejectArtifacts(c) ==
    /\ step[c] = "verify"
    /\ faults < MaxFaults
    /\ faults' = faults + 1
    /\ Fail(c, "rejected")
    /\ UNCHANGED <<rowVars, objectVars, target, seen, plan, lapses>>

\* The high-water mark only moves forward.
MaxHWM(r, old) == IF Mark[r] > old THEN Mark[r] ELSE old

\* Where a pass goes after it read the state.  Under a persisted intent it goes
\* on; otherwise a state of this run means that another pass got ahead, and the
\* state of a later run is a fencing conflict.
AfterState(c) ==
    IF HasIntent(plan[c]) THEN "get"
    ELSE IF state.run = target[c] THEN "reread"
    ELSE IF state.run > target[c] THEN "failed"
    ELSE "save"

ReadState(c) ==
    /\ step[c] = "read"
    /\ seen' = [seen EXCEPT ![c] = state]
    /\ Goto(c, AfterState(c))
    /\ cause' = [cause EXCEPT ![c] = IF AfterState(c) = "failed" THEN "conflict" ELSE ""]
    /\ plan' = IF HasIntent(plan[c]) THEN plan
               ELSE [plan EXCEPT ![c] =
                       [prev |-> state,
                        next |-> [run |-> target[c], hwm |-> MaxHWM(target[c], state.hwm)]]]
    /\ UNCHANGED <<rowVars, objectVars, target, faults, lapses>>

\* The state names this run, and the pass knows of no intent: look again.
RereadRun(c) ==
    /\ step[c] = "reread"
    /\ IF status[target[c]] = "SUCCEEDED" THEN Goto(c, "release") /\ UNCHANGED cause
       ELSE IF HasIntent(intent[target[c]]) THEN Goto(c, "load") /\ UNCHANGED cause
       ELSE Fail(c, "conflict")
    /\ UNCHANGED <<rowVars, objectVars, target, seen, plan, faults, lapses>>

\* A second look that fails is reported as the conflict it was to rule out.
RereadFails(c) ==
    /\ step[c] = "reread"
    /\ faults < MaxFaults
    /\ faults' = faults + 1
    /\ Fail(c, "unread")
    /\ UNCHANGED <<rowVars, objectVars, target, seen, plan, lapses>>

Saveable(r) == status[r] = "COMMITTING" /\ ~HasIntent(intent[r])

SaveCommitIntent(c) ==
    /\ step[c] = "save"
    /\ LET r == target[c]
       IN  \/ /\ Saveable(r)
              /\ intent' = [intent EXCEPT ![r] = plan[c]]
              /\ phase' = [phase EXCEPT ![r] = "INTENT"]
              /\ Goto(c, "get")
              /\ UNCHANGED cause
           \/ /\ status[r] = "COMMITTING" /\ HasIntent(intent[r])
              /\ IF intent[r] = plan[c] THEN Goto(c, "get") /\ UNCHANGED cause
                                        ELSE Fail(c, "conflict")
              /\ UNCHANGED <<intent, phase>>
           \/ /\ status[r] # "COMMITTING"
              /\ Fail(c, "transient")
              /\ UNCHANGED <<intent, phase>>
    /\ UNCHANGED <<status, tries, waiting, claim, claimLive, mirror, objectVars,
                   target, seen, plan, faults, lapses>>

\* A manifest that exists must be the planned one; a missing one is written.
GetManifest(c) ==
    /\ step[c] = "get"
    /\ LET found == manifest[target[c]]
       IN  IF found = NoState THEN Goto(c, "put") /\ UNCHANGED cause
           ELSE IF found = plan[c].next THEN Goto(c, "check") /\ UNCHANGED cause
           ELSE Fail(c, "conflict")
    /\ UNCHANGED <<rowVars, objectVars, target, seen, plan, faults, lapses>>

PutManifest(c) ==
    /\ step[c] = "put"
    /\ manifest' = [manifest EXCEPT ![target[c]] = plan[c].next]
    /\ Goto(c, "check")
    /\ UNCHANGED <<rowVars, state, passVars, faults, lapses>>

CheckManifest(c) ==
    /\ step[c] = "check"
    /\ IF manifest[target[c]] = plan[c].next
       THEN Goto(c, "markManifest") /\ UNCHANGED cause
       ELSE Fail(c, "transient")
    /\ UNCHANGED <<rowVars, objectVars, target, seen, plan, faults, lapses>>

\* SetCommitPhase, which only a COMMITTING run takes.
SetCommitPhase(r, p) ==
    /\ phase' = IF status[r] = "COMMITTING" THEN [phase EXCEPT ![r] = p] ELSE phase
    /\ UNCHANGED <<status, intent, tries, waiting, claim, claimLive, mirror>>

\* The two intermediate phases are written without looking at the result.
TrySetCommitPhase(r, p) ==
    \/ SetCommitPhase(r, p) /\ UNCHANGED faults
    \/ faults < MaxFaults /\ faults' = faults + 1 /\ UNCHANGED rowVars

\* MANIFEST_VERIFIED, then the state that was read is compared with the intent.
MarkManifest(c) ==
    /\ step[c] = "markManifest"
    /\ TrySetCommitPhase(target[c], "MANIFEST_VERIFIED")
    /\ IF seen[c] \notin {plan[c].prev, plan[c].next} THEN Fail(c, "conflict")
       ELSE Goto(c, IF seen[c] = plan[c].next THEN "checkState" ELSE "putState") /\ UNCHANGED cause
    /\ UNCHANGED <<objectVars, target, seen, plan, lapses>>

PutState(c) ==
    /\ step[c] = "putState"
    /\ state' = plan[c].next
    /\ Goto(c, "checkState")
    /\ UNCHANGED <<rowVars, manifest, passVars, faults, lapses>>

CheckState(c) ==
    /\ step[c] = "checkState"
    /\ IF state = plan[c].next
       THEN Goto(c, "markState") /\ UNCHANGED cause
       ELSE Fail(c, "transient")
    /\ UNCHANGED <<rowVars, objectVars, target, seen, plan, faults, lapses>>

MarkState(c) ==
    /\ step[c] = "markState"
    /\ TrySetCommitPhase(target[c], "STATE_VERIFIED")
    /\ Goto(c, "mirror")
    /\ UNCHANGED <<objectVars, passVars, lapses>>

\* The SQLite copy takes the mark that this pass computed from what it read.
UpsertHWM(c) ==
    /\ step[c] = "mirror"
    /\ LET mark == MaxHWM(target[c], seen[c].hwm)
       IN  mirror' = IF mark = 0 THEN mirror ELSE mark
    /\ Goto(c, "markVerified")
    /\ UNCHANGED <<status, intent, phase, tries, waiting, claim, claimLive,
                   objectVars, passVars, faults, lapses>>

MarkVerified(c) ==
    /\ step[c] = "markVerified"
    /\ SetCommitPhase(target[c], "VERIFIED")
    /\ Goto(c, "complete")
    /\ UNCHANGED <<objectVars, passVars, faults, lapses>>

Completable(r) == status[r] = "COMMITTING" /\ HasIntent(intent[r]) /\ phase[r] = "VERIFIED"

\* A completion that is refused leaves the run to another pass.
CompleteRunCommit(c) ==
    /\ step[c] = "complete"
    /\ LET r == target[c]
       IN  /\ status' = IF Completable(r) THEN [status EXCEPT ![r] = "SUCCEEDED"] ELSE status
           /\ phase' = IF Completable(r) THEN [phase EXCEPT ![r] = "COMPLETE"] ELSE phase
    /\ Goto(c, "release")
    /\ UNCHANGED <<intent, tries, waiting, claim, claimLive, mirror,
                   objectVars, passVars, faults, lapses>>

-----------------------------------------------------------------------------
(* Failures *)

\* A call of the pass returns an error.  A failed write may have been applied.
CallFails(c) ==
    /\ step[c] \in {"load", "verify", "read", "save", "get", "put", "check", "putState",
                    "checkState", "mirror", "markVerified"}
    /\ faults < MaxFaults
    /\ faults' = faults + 1
    /\ Fail(c, "transient")
    /\ \/ UNCHANGED objectVars
       \/ step[c] = "put" /\ manifest' = [manifest EXCEPT ![target[c]] = plan[c].next] /\ UNCHANGED state
       \/ step[c] = "putState" /\ state' = plan[c].next /\ UNCHANGED manifest
    /\ UNCHANGED <<rowVars, target, seen, plan, lapses>>

\* Only a run that still commits fails.
StillFails(r) == status[r] = "COMMITTING"

\* classifyCommitError and RecordCommitReconciliationFailure: only transient
\* causes are retried, up to the limit.
RecordFailure(c) ==
    /\ step[c] = "failed"
    /\ LET r == target[c]
           again == cause[c] = "transient" /\ tries[r] + 1 < MaxAttempts
       IN  IF StillFails(r)
           THEN /\ tries' = [tries EXCEPT ![r] = tries[r] + 1]
                /\ status' = IF again THEN status ELSE [status EXCEPT ![r] = "FAILED"]
                /\ phase' = [phase EXCEPT ![r] = IF again THEN "RETRY_REQUIRED" ELSE "FAILED"]
                /\ waiting' = [waiting EXCEPT ![r] = again]
           ELSE UNCHANGED <<tries, status, phase, waiting>>
    /\ Goto(c, "release")
    /\ UNCHANGED <<intent, claim, claimLive, mirror, objectVars, passVars, faults, lapses>>

\* RenewCommitClaim succeeds.
Renewable(c) == LET r == target[c] IN c \in claim[r] /\ claimLive[r] /\ status[r] = "COMMITTING"

\* The context of the pass ends: at its next renewal if that fails, otherwise by
\* the timeout or the loss of leadership.  No attempt is consumed, and neither
\* is one when recording a failure or the completion fails.
Interrupted(c) ==
    /\ step[c] \notin {"idle", "release"}
    /\ IF Renewable(c)
       THEN faults < MaxFaults /\ faults' = faults + 1
       ELSE UNCHANGED faults
    /\ Goto(c, "release")
    /\ UNCHANGED <<rowVars, objectVars, passVars, lapses>>

\* The master stops, and starts again: passes are gone, their claims stay.
MasterStops ==
    /\ faults < MaxFaults
    /\ faults' = faults + 1
    /\ step' = [c \in Committers |-> "idle"]
    /\ target' = [c \in Committers |-> 0]
    /\ seen' = [c \in Committers |-> NoState]
    /\ plan' = [c \in Committers |-> NoIntent]
    /\ cause' = [c \in Committers |-> ""]
    /\ claim' = [r \in Runs |-> {}]
    /\ UNCHANGED <<status, intent, phase, tries, waiting, claimLive, mirror, objectVars, lapses>>

-----------------------------------------------------------------------------
Pass(c) ==
    \/ LoadRun(c)
    \/ VerifyArtifacts(c)
    \/ ReadState(c)
    \/ RereadRun(c)
    \/ SaveCommitIntent(c)
    \/ GetManifest(c)
    \/ PutManifest(c)
    \/ CheckManifest(c)
    \/ MarkManifest(c)
    \/ PutState(c)
    \/ CheckState(c)
    \/ MarkState(c)
    \/ UpsertHWM(c)
    \/ MarkVerified(c)
    \/ CompleteRunCommit(c)
    \/ RecordFailure(c)
    \/ ReleaseCommitClaim(c)

\* Every run of the dataset is over and nothing is left to do.
AllOver ==
    /\ \A r \in Runs : status[r] \in {"SUCCEEDED", "FAILED"}
    /\ \A c \in Committers : step[c] = "idle"
    /\ UNCHANGED vars

Next ==
    \/ \E r \in Runs : BeginCommit(r) \/ BackoffOver(r) \/ ClaimLapses(r)
    \/ \E c \in Committers :
        \/ \E r \in Runs : ClaimCommittingRun(c, r)
        \/ Pass(c)
        \/ RejectArtifacts(c)
        \/ RereadFails(c)
        \/ CallFails(c)
        \/ Interrupted(c)
    \/ MasterStops
    \/ AllOver

Spec == Init /\ [][Next]_vars

(* A pass runs on until it ends; the reconciliation loop claims what it can;
   backoffs and the claims of dead committers run out.  Nothing is assumed of
   failures and of the lapse of a claim under a live committer. *)
DeadClaimLapses(r) == claim[r] = {} /\ ClaimLapses(r)
SomeoneClaims(r) == \E c \in Committers : ClaimCommittingRun(c, r)

Fairness ==
    /\ \A r \in Runs :
        /\ WF_vars(BackoffOver(r)) /\ WF_vars(DeadClaimLapses(r)) /\ WF_vars(SomeoneClaims(r))
    /\ \A c \in Committers : WF_vars(Pass(c))

FairSpec == Spec /\ Fairness
-----------------------------------------------------------------------------
(* Properties *)

States == [run : Runs \cup {0}, hwm : {0} \cup {Mark[r] : r \in Runs}]

\* Rows, objects and passes have their types.
TypeOK ==
    /\ status \in [Runs -> {"WAITING", "COMMITTING", "SUCCEEDED", "FAILED"}]
    /\ intent \in [Runs -> [prev : States, next : States]]
    /\ phase \in [Runs -> {"", "PREPARING", "INTENT", "MANIFEST_VERIFIED", "STATE_VERIFIED",
                           "VERIFIED", "RETRY_REQUIRED", "FAILED", "COMPLETE"}]
    /\ tries \in [Runs -> 0..MaxAttempts]
    /\ waiting \in [Runs -> BOOLEAN]
    /\ claim \in [Runs -> SUBSET Committers]
    /\ claimLive \in [Runs -> BOOLEAN]
    /\ mirror \in {0} \cup {Mark[r] : r \in Runs}
    /\ manifest \in [Runs -> States]
    /\ state \in States
    /\ step \in [Committers -> {"idle", "load", "verify", "read", "reread", "save", "get", "put",
                                "check", "markManifest", "putState", "checkState", "markState",
                                "mirror", "markVerified", "complete", "failed", "release"}]
    /\ target \in [Committers -> Runs \cup {0}]
    /\ seen \in [Committers -> States]
    /\ plan \in [Committers -> [prev : States, next : States]]
    /\ cause \in [Committers -> {"", "transient", "conflict", "rejected", "unread"}]
    /\ faults \in 0..MaxFaults
    /\ lapses \in 0..MaxLapses

\* While claims do not lapse under live committers, at most one committer works
\* on a run, however often launchCommit, the loop and recovery ask for it.
OneCommitter ==
    lapses = 0 =>
        \A c, d \in Committers : c # d /\ target[c] = target[d] => target[c] = 0

\* A run is SUCCEEDED only with its intent persisted and its manifest published
\* as planned; unless a claim lapsed, the state and the mirror are its own or
\* those of a later run.
SuccessIsDurable ==
    \A r \in Runs : status[r] = "SUCCEEDED" =>
        /\ HasIntent(intent[r])
        /\ manifest[r] = intent[r].next
        /\ lapses = 0 => state.run >= r /\ state.hwm >= Mark[r] /\ mirror >= Mark[r]

\* A pass never takes the state that another pass of the same run wrote for a
\* conflict that fails the run (commit_race_test.go), as long as its second look
\* at the run succeeds.
OwnStateIsNoConflict ==
    \A c \in Committers :
        step[c] = "failed" /\ cause[c] = "conflict" /\ status[target[c]] = "COMMITTING" =>
            seen[c].run # target[c]

StateForward == state'.run >= state.run /\ state'.hwm >= state.hwm

\* What is over and what is published stands: a late pass changes no run that
\* succeeded or failed, no retry and no other pass replaces an intent or a
\* manifest, and while claims do not lapse under live committers the dataset
\* state moves to later runs and larger marks only.
PublicationStands ==
    /\ \A r \in Runs :
        /\ status[r] \in {"SUCCEEDED", "FAILED"} => status'[r] = status[r]
        /\ HasIntent(intent[r]) => intent'[r] = intent[r]
        /\ manifest[r] # NoState => manifest'[r] = manifest[r]
    /\ lapses' = 0 => StateForward

\* README: "the high-water mark never moves backwards".
MarkNeverMovesBack == [][state'.hwm >= state.hwm]_state

\* No run stays COMMITTING: it is published or failed in the end.
Committing(r) == status[r] = "COMMITTING"
CommitDecided == \A r \in Runs : []<>~Committing(r)
=============================================================================
