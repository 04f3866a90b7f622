-------------------------- MODULE MasterLeadership --------------------------
(***************************************************************************)
(* Masters that start, lead, lose the lease, stop and crash over one       *)
(* database.  A master takes the file lock, acquires the leadership lease  *)
(* (a new epoch), installs triggers that reject writes under any other     *)
(* epoch, repairs what an earlier master left, and only then serves.       *)
(* Source: internal/db/leadership.go, internal/db/masterlock.go,           *)
(* cmd/master/main.go, internal/grpc/server.go.                            *)
(***************************************************************************)
EXTENDS Integers

CONSTANTS
    Masters,         \* master processes that share the database file
    RecoverySteps,   \* the recovery steps of run(), 6 in the code
    MaxStarts,       \* bound: how often each process starts
    MaxLeaseFaults   \* bound: lapses and failed renewals under a live controller

VARIABLES
    flockWorks,  \* whether the file system honours flock between the masters
    flock,       \* the processes that hold the file lock
    lead,        \* the master_leadership row
    proc,        \* each process: program counter, instance, controller state
    written,     \* the epoch and stage of the last write a trigger let through
    starts, leaseFaults

vars == <<flockWorks, flock, lead, proc, written, starts, leaseFaults>>

Down == [pc |-> "down", epoch |-> 0, fenced |-> FALSE, state |-> "NONE", ready |-> FALSE,
         work |-> "none", step |-> 0, busy |-> FALSE]

Init ==
    /\ flockWorks \in BOOLEAN
    /\ flock = {}
    /\ lead = [status |-> "RELEASED", owner |-> <<>>, epoch |-> 0, lapsed |-> FALSE]
    /\ proc = [p \in Masters |-> Down]
    /\ written = [epoch |-> 0, stage |-> "recovery"]
    /\ starts = [p \in Masters |-> 0]
    /\ leaseFaults = 0

instance(p) == <<p, starts[p]>>   \* NewMasterInstanceID: fresh in every start
Exit(p) == proc' = [proc EXCEPT ![p] = Down] /\ flock' = flock \ {p}
Goto(p, pc) == proc' = [proc EXCEPT ![p].pc = pc]

-----------------------------------------------------------------------------
AcquireMasterProcessLock(p) ==
    /\ proc[p].pc = "down" /\ starts[p] < MaxStarts
    /\ flockWorks => flock = {}
    /\ flock' = flock \cup {p}
    /\ starts' = [starts EXCEPT ![p] = @ + 1]
    /\ Goto(p, "locked")
    /\ UNCHANGED <<flockWorks, lead, written, leaseFaults>>

AcquireLeadership(p) ==
    /\ proc[p].pc = "locked"
    /\ \/ /\ lead.status # "ACTIVE" \/ lead.lapsed
          /\ lead' = [status |-> "ACTIVE", owner |-> instance(p), epoch |-> lead.epoch + 1, lapsed |-> FALSE]
          /\ proc' = [proc EXCEPT ![p].pc = "acquired", ![p].epoch = lead.epoch + 1]
          /\ UNCHANGED flock
       \/ /\ lead.status = "ACTIVE" /\ ~lead.lapsed
          /\ Exit(p)
          /\ UNCHANGED lead
    /\ UNCHANGED <<flockWorks, written, starts, leaseFaults>>

AssertLeadership(p) ==
    /\ lead.status = "ACTIVE" /\ ~lead.lapsed
    /\ lead.owner = instance(p) /\ lead.epoch = proc[p].epoch

\* A failure here leaves the row ACTIVE: Stop is deferred only after Start.
ActivateLeadershipFence(p) ==
    /\ proc[p].pc = "acquired"
    /\ \/ /\ AssertLeadership(p)
          /\ proc' = [proc EXCEPT ![p].pc = "recovering", ![p].fenced = TRUE,
                                  ![p].state = "STARTING", ![p].work = "live"]
          /\ UNCHANGED flock
       \/ ~AssertLeadership(p) /\ Exit(p)
    /\ UNCHANGED <<flockWorks, lead, written, starts, leaseFaults>>

\* Mutant: the trigger asks for a live lease, of whatever epoch.
FenceOnAnyLease(p) == proc[p].fenced => lead.status = "ACTIVE" /\ ~lead.lapsed

\* The TEMP trigger of the process's writer connection.
FencePasses(p) == proc[p].fenced => AssertLeadership(p)

-----------------------------------------------------------------------------
(* The controller.                                                         *)
RenewLeadership(p) ==
    /\ proc[p].work = "live"
    /\ \/ ~AssertLeadership(p) /\ UNCHANGED leaseFaults
       \/ AssertLeadership(p) /\ leaseFaults < MaxLeaseFaults /\ leaseFaults' = leaseFaults + 1
    /\ proc' = [proc EXCEPT ![p].state = "LOST", ![p].ready = FALSE, ![p].work = "done"]
    /\ UNCHANGED <<flockWorks, flock, lead, written, starts>>

LeaseLapses ==
    LET renewed == \E p \in Masters : proc[p].work = "live" /\ AssertLeadership(p) IN
    /\ lead.status = "ACTIVE" /\ ~lead.lapsed
    /\ \/ ~renewed /\ UNCHANGED leaseFaults
       \/ renewed /\ leaseFaults < MaxLeaseFaults /\ leaseFaults' = leaseFaults + 1
    /\ lead' = [lead EXCEPT !.lapsed = TRUE]
    /\ UNCHANGED <<flockWorks, flock, proc, written, starts>>

\* SIGINT or SIGTERM ends the parent context.
Signal(p) ==
    /\ proc[p].work = "live"
    /\ proc' = [proc EXCEPT ![p].work = "done"]
    /\ UNCHANGED <<flockWorks, flock, lead, written, starts, leaseFaults>>

-----------------------------------------------------------------------------
(* Startup recovery.  A step writes or finds nothing to write; under an    *)
(* ended context, a rejected write or any other error, run returns.        *)
Recover(p) ==
    /\ proc[p].pc = "recovering"
    /\ \/ /\ proc[p].step < RecoverySteps /\ proc[p].work = "live"
          /\ \/ FencePasses(p) /\ written' = [epoch |-> proc[p].epoch, stage |-> "recovery"]
             \/ UNCHANGED written
          /\ proc' = [proc EXCEPT ![p].step = @ + 1]
       \/ proc[p].step < RecoverySteps /\ Goto(p, "stopping") /\ UNCHANGED written
    /\ UNCHANGED <<flockWorks, flock, lead, starts, leaseFaults>>

\* The context is not looked at again before the master declares itself ready.
SetReady(p) ==
    /\ proc[p].pc = "recovering" /\ proc[p].step = RecoverySteps
    /\ proc' = [proc EXCEPT ![p].pc = "serving", ![p].ready = TRUE, ![p].state = "LEADER"]
    /\ UNCHANGED <<flockWorks, flock, lead, written, starts, leaseFaults>>

-----------------------------------------------------------------------------
(* Serving: a request or a loop is admitted by Assert and writes later.    *)
requireLeadership(p) ==
    /\ proc[p].pc = "serving" /\ ~proc[p].busy
    /\ proc[p].ready /\ proc[p].state = "LEADER" /\ AssertLeadership(p)
    /\ proc' = [proc EXCEPT ![p].busy = TRUE]
    /\ UNCHANGED <<flockWorks, flock, lead, written, starts, leaseFaults>>

\* Mutant: a write the trigger rejects is tried again and again.
WriteUntilAccepted(p) ==
    /\ proc[p].busy /\ FencePasses(p)
    /\ written' = [epoch |-> proc[p].epoch, stage |-> "service"]
    /\ proc' = [proc EXCEPT ![p].busy = FALSE]
    /\ UNCHANGED <<flockWorks, flock, lead, starts, leaseFaults>>

Write(p) ==
    /\ proc[p].busy
    /\ IF FencePasses(p) THEN written' = [epoch |-> proc[p].epoch, stage |-> "service"]
                         ELSE UNCHANGED written
    /\ proc' = [proc EXCEPT ![p].busy = FALSE]
    /\ UNCHANGED <<flockWorks, flock, lead, starts, leaseFaults>>

\* The servers stop when the leader context ends, or when one of them fails.
awaitShutdown(p) ==
    /\ proc[p].pc = "serving"
    /\ Goto(p, "stopping")
    /\ UNCHANGED <<flockWorks, flock, lead, written, starts, leaseFaults>>

\* Drained; Stop waits for the controller and releases the lease it still holds.
StopController(p) ==
    /\ proc[p].pc = "stopping" /\ ~proc[p].busy
    /\ lead' = IF lead.status = "ACTIVE" /\ lead.owner = instance(p) /\ lead.epoch = proc[p].epoch
               THEN [lead EXCEPT !.status = "RELEASED"] ELSE lead
    /\ Exit(p)
    /\ UNCHANGED <<flockWorks, written, starts, leaseFaults>>

Crash(p) ==
    /\ proc[p].pc # "down"
    /\ Exit(p)
    /\ UNCHANGED <<flockWorks, lead, written, starts, leaseFaults>>

Next ==
    \/ LeaseLapses
    \/ \E p \in Masters :
         \/ AcquireMasterProcessLock(p) \/ AcquireLeadership(p) \/ ActivateLeadershipFence(p)
         \/ RenewLeadership(p) \/ Signal(p) \/ Recover(p) \/ SetReady(p)
         \/ requireLeadership(p) \/ Write(p) \/ awaitShutdown(p) \/ StopController(p) \/ Crash(p)

(* A recovery step and a drain end, and leaderCtx.Done wakes awaitShutdown; *)
(* a master whose context is live may serve for ever.                      *)
ShutdownWhenDone(p) == proc[p].work = "done" /\ awaitShutdown(p)

Fairness ==
    \A p \in Masters :
        /\ WF_vars(Recover(p)) /\ WF_vars(SetReady(p)) /\ WF_vars(Write(p))
        /\ WF_vars(ShutdownWhenDone(p)) /\ WF_vars(StopController(p))

Spec == Init /\ [][Next]_vars /\ Fairness

-----------------------------------------------------------------------------
(* Type invariant of the leadership row and the processes.                 *)
LeadershipTypeOK ==
    /\ lead.status \in {"ACTIVE", "RELEASED"} /\ lead.epoch \in Nat
    /\ flock \subseteq Masters
    /\ \A p \in Masters :
         /\ proc[p].pc \in {"down", "locked", "acquired", "recovering", "serving", "stopping"}
         /\ proc[p].work \in {"none", "live", "done"}
         /\ proc[p].epoch <= lead.epoch

(* Writes reach the fenced tables in order: those of an epoch after all    *)
(* those of earlier epochs, and within an epoch the repairs before any     *)
(* service write, however late a deposed master wakes up.                  *)
WriteInOrder ==
    written' # written =>
        \/ written'.epoch > written.epoch
        \/ written'.epoch = written.epoch /\ (written.stage = "service" => written'.stage = "service")

(* Every step keeps the order.                                             *)
WritesInOrder == [][WriteInOrder]_vars

(* A master that lost the lease stops, even when recovery ended between    *)
(* the loss and SetReady and its status says LEADER again.                 *)
Deposed(p) == proc[p].work = "done"
DeposedMasterStops == \A p \in Masters : []<>~Deposed(p)
=============================================================================
