--------------------------- MODULE UploadCapacity ---------------------------
(***************************************************************************)
(* The slots that bound how many attempts upload at once over all workers  *)
(* (db/upload_capacity.go, cmd/worker/upload_capacity.go).  A slot is a    *)
(* leased row of the attempt; acquiring and renewing are the same call,    *)
(* which the worker repeats until its upload is over.  A call whose answer *)
(* the worker no longer waits for can still reach the master later.        *)
(*                                                                         *)
(* Deadlines are two flags: known[a] while the deadline the worker was     *)
(* last told lies ahead, row[a].live while the one in the row does.  The   *)
(* second is never before the first.                                       *)
(***************************************************************************)
EXTENDS Naturals, FiniteSets

CONSTANTS
    Attempts,
    Limit,          \* uploadCapacityLimit
    MaxFaults       \* bound: lost or late calls, missed deadlines, lost ownership

CapacityConstants == IsFiniteSet(Attempts) /\ Limit \in Nat \ {0} /\ MaxFaults \in Nat

VARIABLES
    owned,      \* the attempts that own their task: ACTIVE, current, leased
    row,        \* attempt -> [status, token, live] of upload_capacity_leases
    wk,         \* attempt -> what its worker does
    grant,      \* attempt -> the token its worker holds
    answer,     \* attempt -> the token its current call was answered with
    known,      \* attempt -> the deadline its worker knows is ahead
    call,       \* attempt -> the answer of its worker's current call
    late,       \* attempt -> a call nobody waits for is still on its way
    faults

vars == <<owned, row, wk, grant, answer, known, call, late, faults>>

NoRow == [status |-> "NONE", token |-> 0, live |-> FALSE]

Init ==
    /\ owned = Attempts
    /\ row = [a \in Attempts |-> NoRow]
    /\ wk = [a \in Attempts |-> "writing"]
    /\ grant = [a \in Attempts |-> 0]
    /\ answer = [a \in Attempts |-> 0]
    /\ known = [a \in Attempts |-> FALSE]
    /\ call = [a \in Attempts |-> "none"]
    /\ late = [a \in Attempts |-> FALSE]
    /\ faults = 0

Fault == faults < MaxFaults /\ faults' = faults + 1

-----------------------------------------------------------------------------
(* Master *)

\* The rows whose deadline passed become EXPIRED in the same transaction.
Reclaimed == [b \in Attempts |->
                IF row[b].status = "ACTIVE" /\ ~row[b].live
                THEN [row[b] EXCEPT !.status = "EXPIRED"] ELSE row[b]]

\* Mutant: an attempt that lost its task no longer counts.
SlotsOfOwners == {b \in owned : row[b].status = "ACTIVE" /\ row[b].live}

SlotsTaken == {b \in Attempts : row[b].status = "ACTIVE" /\ row[b].live}

\* The caller's own slot is renewed under its token; else a free slot is given
\* under a new one (random; a counter here); a refused caller is told to retry.
GrantOrRenew(a) ==
    IF Reclaimed[a].status = "ACTIVE"
    THEN row' = [Reclaimed EXCEPT ![a].live = TRUE]
    ELSE IF Cardinality(SlotsTaken) >= Limit
    THEN row' = Reclaimed
    ELSE row' = [Reclaimed EXCEPT ![a] = [status |-> "ACTIVE", token |-> row[a].token + 1,
                                          live |-> TRUE]]

\* A caller that no longer owns its task changes nothing.
AcquireUploadCapacity(a) ==
    IF a \in owned THEN GrantOrRenew(a) ELSE UNCHANGED row

\* The call the worker waits for; its answer names the grant.
AnswerCall(a) ==
    /\ call[a] = "sent"
    /\ AcquireUploadCapacity(a)
    /\ call' = [call EXCEPT ![a] =
                  IF a \notin owned THEN "fenced"
                  ELSE IF row'[a].status = "ACTIVE" THEN "granted" ELSE "busy"]
    /\ answer' = [answer EXCEPT ![a] = row'[a].token]
    /\ UNCHANGED <<owned, wk, grant, known, late, faults>>

AnswerLateCall(a) ==
    /\ late[a]
    /\ AcquireUploadCapacity(a)
    /\ late' = [late EXCEPT ![a] = FALSE]
    /\ UNCHANGED <<owned, wk, grant, answer, known, call, faults>>

\* Only the grant that is named is released.
ReleaseUploadCapacity(a) ==
    row' = IF row[a].token = grant[a] /\ row[a].status = "ACTIVE"
           THEN [row EXCEPT ![a].status = "RELEASED"] ELSE row

-----------------------------------------------------------------------------
(* Worker *)

\* The files are written; acquireUploadCapacity asks, and asks again.
Ask(a) ==
    /\ wk[a] \in {"writing", "waiting", "uploading"}
    /\ call[a] = "none"
    /\ wk' = [wk EXCEPT ![a] = IF @ = "writing" THEN "waiting" ELSE @]
    /\ call' = [call EXCEPT ![a] = "sent"]
    /\ UNCHANGED <<owned, row, grant, answer, known, late, faults>>

\* The call times out: it never arrives, arrives later, or its answer is lost.
CallFails(a) ==
    /\ call[a] \notin {"none", "fenced"}
    /\ Fault
    /\ call' = [call EXCEPT ![a] = "none"]
    /\ late' = [late EXCEPT ![a] = @ \/ call[a] = "sent"]
    /\ UNCHANGED <<owned, row, wk, grant, answer, known>>
CallLost(a) ==
    /\ call[a] = "sent"
    /\ Fault
    /\ call' = [call EXCEPT ![a] = "none"]
    /\ UNCHANGED <<owned, row, wk, grant, answer, known, late>>

Granted(a) ==
    /\ wk[a] = "waiting" /\ call[a] = "granted"
    /\ wk' = [wk EXCEPT ![a] = "uploading"]
    /\ grant' = [grant EXCEPT ![a] = answer[a]]
    /\ known' = [known EXCEPT ![a] = row[a].live /\ row[a].token = answer[a]]
    /\ call' = [call EXCEPT ![a] = "none"]
    /\ UNCHANGED <<owned, row, answer, late, faults>>

NotGranted(a) ==
    /\ wk[a] = "waiting" /\ call[a] \in {"busy", "fenced"}
    /\ wk' = [wk EXCEPT ![a] = IF call[a] = "fenced" THEN "lost" ELSE @]
    /\ call' = [call EXCEPT ![a] = "none"]
    /\ UNCHANGED <<owned, row, grant, answer, known, late, faults>>

\* The renewal loop of holdUploadCapacity: only the same grant goes on.
Renewed(a) ==
    /\ wk[a] = "uploading" /\ call[a] \in {"granted", "busy", "fenced"}
    /\ IF call[a] = "granted" /\ answer[a] = grant[a]
       THEN known' = [known EXCEPT ![a] = row[a].live /\ row[a].token = grant[a]] /\ UNCHANGED wk
       ELSE wk' = [wk EXCEPT ![a] = "abandoning"] /\ UNCHANGED known
    /\ call' = [call EXCEPT ![a] = "none"]
    /\ UNCHANGED <<owned, row, grant, answer, late, faults>>

DeadlinePassed(a) ==
    /\ wk[a] = "uploading" /\ ~known[a]
    /\ wk' = [wk EXCEPT ![a] = "abandoning"]
    /\ call' = [call EXCEPT ![a] = "none"]
    /\ late' = [late EXCEPT ![a] = @ \/ call[a] = "sent"]
    /\ UNCHANGED <<owned, row, grant, answer, known, faults>>

\* The uploads end.  The renewal under way is canceled, on the worker's side.
UploadsDone(a) ==
    /\ wk[a] = "uploading"
    /\ wk' = [wk EXCEPT ![a] = "closing"]
    /\ call' = [call EXCEPT ![a] = "none"]
    /\ late' = [late EXCEPT ![a] = @ \/ call[a] = "sent"]
    /\ UNCHANGED <<owned, row, grant, answer, known, faults>>

\* closeGuard: the release is tried once, its outcome ignored.
CloseGuard(a) ==
    /\ wk[a] \in {"closing", "abandoning"}
    /\ wk' = [wk EXCEPT ![a] = IF @ = "closing" THEN "done" ELSE "lost"]
    /\ \/ ReleaseUploadCapacity(a) /\ UNCHANGED faults
       \/ UNCHANGED row /\ Fault
    /\ known' = [known EXCEPT ![a] = FALSE]
    /\ UNCHANGED <<owned, grant, answer, call, late>>

\* The worker stops, or the task's lease runs out.
OwnershipEnds(a) ==
    /\ a \in owned
    /\ \/ wk[a] \in {"done", "lost"} /\ UNCHANGED <<wk, faults>>
       \/ Fault /\ wk' \in {wk, [wk EXCEPT ![a] = "lost"]}
    /\ owned' = owned \ {a}
    /\ UNCHANGED <<row, grant, answer, known, call, late>>

-----------------------------------------------------------------------------
(* Time *)

KnownDeadlinePasses(a) ==
    /\ wk[a] = "uploading" /\ known[a]
    /\ Fault
    /\ known' = [known EXCEPT ![a] = FALSE]
    /\ UNCHANGED <<owned, row, wk, grant, answer, call, late>>

RowDeadlinePasses(a) ==
    /\ row[a].live
    /\ ~(wk[a] = "uploading" /\ known[a])
    /\ row' = [row EXCEPT ![a].live = FALSE]
    /\ UNCHANGED <<owned, wk, grant, answer, known, call, late, faults>>

-----------------------------------------------------------------------------
WorkerStep(a) ==
    \/ Granted(a) \/ NotGranted(a) \/ Renewed(a) \/ DeadlinePassed(a) \/ CloseGuard(a)

Next == \E a \in Attempts :
    \/ AnswerCall(a) \/ AnswerLateCall(a) \/ Ask(a) \/ CallFails(a) \/ CallLost(a)
    \/ WorkerStep(a) \/ UploadsDone(a) \/ OwnershipEnds(a)
    \/ KnownDeadlinePasses(a) \/ RowDeadlinePasses(a)

\* An upload ends by itself, and time passes.
Fairness == \A a \in Attempts :
    /\ WF_vars(Ask(a)) /\ WF_vars(AnswerCall(a)) /\ WF_vars(AnswerLateCall(a))
    /\ WF_vars(WorkerStep(a)) /\ WF_vars(UploadsDone(a))
    /\ WF_vars(RowDeadlinePasses(a))

Spec == Init /\ [][Next]_vars /\ Fairness

-----------------------------------------------------------------------------
CapacityTypeOK ==
    /\ owned \subseteq Attempts
    /\ \A a \in Attempts :
        /\ row[a].status \in {"NONE", "ACTIVE", "RELEASED", "EXPIRED"}
        /\ wk[a] \in {"writing", "waiting", "uploading", "closing", "abandoning", "done", "lost"}
        /\ grant[a] <= row[a].token

\* At most Limit workers upload within the deadline they know, whatever late
\* renewals, lost answers and reclaimed slots came before: the count and the
\* grant of AcquireUploadCapacity are one transaction.
UploadsWithinLimit ==
    Cardinality({a \in Attempts : wk[a] = "uploading" /\ known[a]}) <= Limit

\* An upload that waits gets its slot, or its worker learns that it lost the
\* task, even when a renewal that arrives after the release takes the slot
\* again for an attempt that is over.
Waiting(a) == wk[a] = "waiting"
UploadsProceed == \A a \in Attempts : []<>~Waiting(a)
====
