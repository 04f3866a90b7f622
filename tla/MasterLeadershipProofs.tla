----------------------- MODULE MasterLeadershipProofs -----------------------
(***************************************************************************)
(* Writes under the leadership fence keep their order for any set of       *)
(* masters, any number of starts, lapses and crashes, and whether or not   *)
(* the file lock works.                                                    *)
(*                                                                         *)
(* WritesInOrder needs three facts that no single step shows: a process    *)
(* writes only after it armed its fence; the owner of the lease row names  *)
(* one start of one process, which no later start can be mistaken for;     *)
(* and once that start has written as a server it is past recovery.        *)
(***************************************************************************)
EXTENDS MasterLeadership, TLAPS

ProcState ==
    [pc : {"down", "locked", "acquired", "recovering", "serving", "stopping"},
     epoch : Nat, fenced : BOOLEAN, state : {"NONE", "STARTING", "LEADER", "LOST"},
     ready : BOOLEAN, work : {"none", "live", "done"}, step : Nat, busy : BOOLEAN]

LeadState ==
    [status : {"ACTIVE", "RELEASED"}, owner : {<<>>} \cup (Masters \X Nat),
     epoch : Nat, lapsed : BOOLEAN]

Typed ==
    /\ lead \in LeadState
    /\ proc \in [Masters -> ProcState]
    /\ written \in [epoch : Nat, stage : {"recovery", "service"}]
    /\ starts \in [Masters -> Nat]

\* A process that repairs, serves or drains has its fence armed.
FencedBeforeWriting ==
    \A p \in Masters :
        /\ proc[p].pc \in {"recovering", "serving", "stopping"} => proc[p].fenced
        /\ proc[p].busy => proc[p].pc \in {"serving", "stopping"}

\* The lease names no start that is still to come or has not acquired it yet.
OwnerAcquired ==
    \A p \in Masters :
        /\ \A n \in Nat : n > starts[p] => lead.owner # <<p, n>>
        /\ proc[p].pc = "locked" => lead.owner # instance(p)

\* The last write is not from the future, and the start that made a service
\* write of the current epoch does not go back to recovery.
RecoveryIsOver ==
    /\ written.epoch <= lead.epoch
    /\ written.stage = "service" /\ written.epoch = lead.epoch =>
         \A p \in Masters : lead.owner = instance(p) =>
             proc[p].pc \notin {"locked", "acquired", "recovering"}

FenceInv == Typed /\ FencedBeforeWriting /\ OwnerAcquired /\ RecoveryIsOver

-----------------------------------------------------------------------------
LEMMA FenceInit == Init => FenceInv
BY DEF Init, Down, FenceInv, Typed, ProcState, LeadState, FencedBeforeWriting, OwnerAcquired,
       RecoveryIsOver, instance

\* The fields a process changes keep their types.
LEMMA ProcTyped ==
    ASSUME NEW s \in ProcState
    PROVE  /\ \A b \in BOOLEAN : [s EXCEPT !.busy = b] \in ProcState
           /\ \A e \in Nat : [s EXCEPT !.pc = "acquired", !.epoch = e] \in ProcState
           /\ [s EXCEPT !.pc = "stopping"] \in ProcState
BY Zenon DEF ProcState

\* What one process may do to itself without touching the lease.
Moves(p) ==
    /\ proc' \in [Masters -> ProcState]
    /\ \A q \in Masters \ {p} : proc'[q] = proc[q]
    /\ proc'[p].pc \in {"recovering", "serving", "stopping"} => proc'[p].fenced
    /\ proc'[p].busy => proc'[p].pc \in {"serving", "stopping"}
    /\ proc'[p].pc = "locked" => proc[p].pc = "locked"
    /\ proc'[p].pc \in {"acquired", "recovering"} => proc[p].pc \in {"acquired", "recovering"}

\* Such a move keeps the invariant.
LEMMA ProcessStep ==
    ASSUME FenceInv, UNCHANGED <<lead, written, starts>>, NEW p \in Masters, Moves(p)
    PROVE  FenceInv'
<1> USE DEF FenceInv, Moves
<1>1. Typed'
  BY Zenon DEF Typed
<1>2. FencedBeforeWriting'
  BY Zenon DEF FencedBeforeWriting, Typed
<1>3. OwnerAcquired'
  BY Zenon DEF OwnerAcquired, Typed, instance
<1>4. RecoveryIsOver'
  BY DEF RecoveryIsOver, Typed, instance
<1> QED
  BY <1>1, <1>2, <1>3, <1>4, Zenon

\* A process that exits moves so.
LEMMA ExitMoves ==
    ASSUME FenceInv, NEW p \in Masters, proc' = [proc EXCEPT ![p] = Down]
    PROVE  Moves(p)
BY Zenon DEF FenceInv, Typed, Moves, Down, ProcState

\* An armed fence lets a write through only under the lease of its own epoch.
LEMMA FencedWrite ==
    ASSUME FenceInv, NEW p \in Masters, FencePasses(p),
           proc[p].pc \in {"recovering", "serving", "stopping"}
    PROVE  lead.owner = instance(p) /\ lead.epoch = proc[p].epoch
BY Zenon DEF FenceInv, FencedBeforeWriting, FencePasses, AssertLeadership

LEMMA FenceStep == FenceInv /\ [Next]_vars => FenceInv'
<1> SUFFICES ASSUME FenceInv, [Next]_vars PROVE FenceInv'
  BY Zenon
<1> USE DEF FenceInv
<1>1. ASSUME NEW p \in Masters, AcquireMasterProcessLock(p) PROVE FenceInv'
  <2>1. /\ UNCHANGED <<lead, written>>
        /\ starts' = [starts EXCEPT ![p] = @ + 1]
        /\ proc' = [proc EXCEPT ![p].pc = "locked"]
        /\ proc[p].pc = "down"
    BY <1>1, Zenon DEF AcquireMasterProcessLock, Goto
  <2>2. Typed'
    BY <2>1 DEF Typed, ProcState
  <2>3. FencedBeforeWriting'
    BY <2>1 DEF FencedBeforeWriting, Typed, ProcState
  <2>4. lead.owner # <<p, starts[p] + 1>>
    BY DEF OwnerAcquired, Typed
  <2>5. OwnerAcquired'
    BY <2>1, <2>4 DEF OwnerAcquired, Typed, ProcState, instance
  <2>6. RecoveryIsOver'
    BY <2>1, <2>4, Zenon DEF RecoveryIsOver, Typed, ProcState, instance
  <2> QED
    BY <2>2, <2>3, <2>5, <2>6, Zenon
<1>2. ASSUME NEW p \in Masters, AcquireLeadership(p) PROVE FenceInv'
  <2>1. CASE /\ lead' = [status |-> "ACTIVE", owner |-> instance(p), epoch |-> lead.epoch + 1,
                         lapsed |-> FALSE]
             /\ proc' = [proc EXCEPT ![p].pc = "acquired", ![p].epoch = lead.epoch + 1]
    <3>1. UNCHANGED <<written, starts>> /\ proc[p].pc = "locked"
      BY <1>2, Zenon DEF AcquireLeadership
    <3>2. Typed'
      <4>1. lead' \in LeadState
        BY <2>1 DEF Typed, LeadState, instance
      <4>2. proc' = [proc EXCEPT ![p] = [proc[p] EXCEPT !.pc = "acquired", !.epoch = lead.epoch + 1]]
        BY <2>1, Zenon DEF Typed
      <4>3. [proc[p] EXCEPT !.pc = "acquired", !.epoch = lead.epoch + 1] \in ProcState
        <5>1. lead.epoch + 1 \in Nat /\ proc[p] \in ProcState
          BY DEF Typed, LeadState
        <5> QED
          BY <5>1, ProcTyped, Zenon
      <4>4. proc' \in [Masters -> ProcState]
        BY <4>2, <4>3, Zenon DEF Typed
      <4> QED
        BY <3>1, <4>1, <4>4, Zenon DEF Typed
    <3>3. FencedBeforeWriting'
      BY <2>1, <3>1 DEF FencedBeforeWriting, Typed, ProcState
    <3>4. OwnerAcquired'
      BY <2>1, <3>1 DEF OwnerAcquired, Typed, ProcState, instance
    <3>5. RecoveryIsOver'
      BY <2>1, <3>1 DEF RecoveryIsOver, Typed, LeadState
    <3> QED
      BY <3>2, <3>3, <3>4, <3>5, Zenon
  <2>2. CASE Exit(p) /\ UNCHANGED lead
    BY <1>2, <2>2, ExitMoves, ProcessStep, Zenon DEF AcquireLeadership, Exit
  <2> QED
    BY <1>2, <2>1, <2>2, Zenon DEF AcquireLeadership
<1>3. ASSUME NEW p \in Masters, ActivateLeadershipFence(p) PROVE FenceInv'
  <2>1. CASE Exit(p)
    BY <1>3, <2>1, ExitMoves, ProcessStep, Zenon DEF ActivateLeadershipFence, Exit
  <2>2. CASE AssertLeadership(p)
    <3>1. proc[p].pc = "acquired" /\ ~proc[p].busy
      BY <1>3, Zenon DEF ActivateLeadershipFence, FencedBeforeWriting
    <3>2. Moves(p)
      BY <1>3, <2>2, <3>1 DEF ActivateLeadershipFence, Moves, Typed, ProcState
    <3> QED
      BY <1>3, <3>2, ProcessStep, Zenon DEF ActivateLeadershipFence
  <2> QED
    BY <1>3, <2>1, <2>2, Zenon DEF ActivateLeadershipFence
<1>4. ASSUME NEW p \in Masters, RenewLeadership(p) \/ Signal(p) \/ SetReady(p) PROVE FenceInv'
  <2>1. Moves(p)
    BY <1>4, SMTT(60) DEF RenewLeadership, Signal, SetReady, Moves, Typed, ProcState, FencedBeforeWriting
  <2> QED
    BY <1>4, <2>1, ProcessStep, Zenon DEF RenewLeadership, Signal, SetReady
<1>5. ASSUME NEW p \in Masters, requireLeadership(p) \/ awaitShutdown(p) PROVE FenceInv'
  <2>1. proc[p].pc = "serving"
    BY <1>5, Zenon DEF requireLeadership, awaitShutdown
  <2>2. ASSUME proc' = [proc EXCEPT ![p].busy = TRUE] PROVE Moves(p)
    <3>1. proc' = [proc EXCEPT ![p] = [proc[p] EXCEPT !.busy = TRUE]]
      BY <2>2, Zenon DEF Typed
    <3>2. proc' \in [Masters -> ProcState]
      BY <3>1, ProcTyped, Zenon DEF Typed
    <3>3. proc'[p].pc = "serving" /\ proc'[p].fenced = proc[p].fenced
      BY <2>1, <3>1, Zenon DEF Typed, ProcState
    <3> QED
      BY <2>1, <3>1, <3>2, <3>3, Zenon DEF Moves, Typed, FencedBeforeWriting
  <2>3. ASSUME proc' = [proc EXCEPT ![p].pc = "stopping"] PROVE Moves(p)
    <3>1. proc' = [proc EXCEPT ![p] = [proc[p] EXCEPT !.pc = "stopping"]]
      BY <2>3, Zenon DEF Typed
    <3>2. proc' \in [Masters -> ProcState]
      BY <3>1, ProcTyped, Zenon DEF Typed
    <3>3. proc'[p].pc = "stopping" /\ proc'[p].fenced = proc[p].fenced
      BY <2>1, <3>1, Zenon DEF Typed, ProcState
    <3> QED
      BY <2>1, <3>1, <3>2, <3>3, Zenon DEF Moves, Typed, FencedBeforeWriting
  <2>4. Moves(p)
    BY <1>5, <2>2, <2>3, Zenon DEF requireLeadership, awaitShutdown, Goto
  <2> QED
    BY <1>5, <2>4, ProcessStep, Zenon DEF requireLeadership, awaitShutdown
<1>6. ASSUME NEW p \in Masters, Recover(p) PROVE FenceInv'
  <2>1. UNCHANGED <<lead, starts>> /\ proc[p].pc = "recovering"
    BY <1>6, Zenon DEF Recover
  <2>2. CASE UNCHANGED written
    <3>1. Moves(p)
      BY <1>6 DEF Recover, Goto, Moves, Typed, ProcState, FencedBeforeWriting
    <3> QED
      BY <2>1, <2>2, <3>1, ProcessStep, Zenon
  <2>3. CASE /\ FencePasses(p) /\ written' = [epoch |-> proc[p].epoch, stage |-> "recovery"]
             /\ proc' = [proc EXCEPT ![p].step = @ + 1]
    <3>1. lead.epoch = proc[p].epoch
      BY <2>1, <2>3, FencedWrite, Zenon
    <3>2. Typed'
      BY <2>1, <2>3 DEF Typed, ProcState
    <3>3. FencedBeforeWriting'
      BY <2>1, <2>3 DEF FencedBeforeWriting, Typed, ProcState
    <3>4. OwnerAcquired'
      BY <2>1, <2>3, Zenon DEF OwnerAcquired, Typed, ProcState, instance
    <3>5. RecoveryIsOver'
      BY <2>1, <2>3, <3>1 DEF RecoveryIsOver, Typed, LeadState
    <3> QED
      BY <3>2, <3>3, <3>4, <3>5, Zenon
  <2> QED
    BY <1>6, <2>2, <2>3, Zenon DEF Recover
<1>7. ASSUME NEW p \in Masters, Write(p) PROVE FenceInv'
  <2>1. UNCHANGED <<lead, starts>> /\ proc[p].pc \in {"serving", "stopping"}
    BY <1>7, Zenon DEF Write, FencedBeforeWriting
  <2>2. proc' = [proc EXCEPT ![p].busy = FALSE]
    BY <1>7, Zenon DEF Write
  <2>3. Typed'
    <3>1. written' = written \/ written' = [epoch |-> proc[p].epoch, stage |-> "service"]
      BY <1>7, Zenon DEF Write
    <3>2. written' \in [epoch : Nat, stage : {"recovery", "service"}]
      BY <3>1 DEF Typed, ProcState
    <3>3. proc' = [proc EXCEPT ![p] = [proc[p] EXCEPT !.busy = FALSE]]
      BY <2>2, Zenon DEF Typed
    <3>4. proc' \in [Masters -> ProcState]
      BY <3>3, ProcTyped, Zenon DEF Typed
    <3> QED
      BY <2>1, <3>2, <3>4, Zenon DEF Typed
  <2>4. FencedBeforeWriting'
    BY <2>1, <2>2 DEF FencedBeforeWriting, Typed, ProcState
  <2>5. OwnerAcquired'
    BY <2>1, <2>2 DEF OwnerAcquired, Typed, ProcState, instance
  <2>6. RecoveryIsOver'
    <3>1. CASE FencePasses(p)
      <4>1. lead.owner = instance(p) /\ lead.epoch = proc[p].epoch
        BY <2>1, <3>1, FencedWrite, Zenon
      <4>2. written' = [epoch |-> proc[p].epoch, stage |-> "service"]
        BY <1>7, <3>1, Zenon DEF Write
      <4>3. \A q \in Masters : lead'.owner = instance(q)' => q = p
        BY <2>1, <4>1 DEF instance
      <4>4. written'.epoch <= lead'.epoch
        BY <2>1, <4>1, <4>2 DEF Typed, LeadState
      <4>5. proc'[p].pc \in {"serving", "stopping"}
        BY <2>1, <2>2, Zenon DEF Typed, ProcState
      <4> QED
        BY <4>3, <4>4, <4>5, Zenon DEF RecoveryIsOver
    <3>2. CASE ~FencePasses(p)
      BY <1>7, <2>1, <2>2, <3>2 DEF Write, RecoveryIsOver, Typed, ProcState, instance
    <3> QED
      BY <3>1, <3>2, Zenon
  <2> QED
    BY <2>3, <2>4, <2>5, <2>6, Zenon
<1>8. ASSUME NEW p \in Masters, StopController(p) \/ Crash(p) PROVE FenceInv'
  <2>1. UNCHANGED <<written, starts>> /\ proc' = [proc EXCEPT ![p] = Down]
    BY <1>8, Zenon DEF StopController, Crash, Exit
  <2>2. CASE UNCHANGED lead
    BY <2>1, <2>2, ExitMoves, ProcessStep, Zenon
  <2>3. CASE lead' = [lead EXCEPT !.status = "RELEASED"]
    <3>1. Typed'
      BY <2>1, <2>3, ExitMoves, Zenon DEF Typed, LeadState, Moves
    <3>2. FencedBeforeWriting'
      BY <2>1, Zenon DEF FencedBeforeWriting, Typed, Down
    <3>3. lead'.owner = lead.owner /\ lead'.epoch = lead.epoch
      BY <2>3, Zenon DEF Typed, LeadState
    <3>4. OwnerAcquired'
      BY <2>1, <3>3, Zenon DEF OwnerAcquired, Typed, Down, instance
    <3>5. RecoveryIsOver'
      BY <2>1, <3>3, Zenon DEF RecoveryIsOver, Typed, Down, instance
    <3> QED
      BY <3>1, <3>2, <3>4, <3>5, Zenon
  <2> QED
    BY <1>8, <2>2, <2>3, Zenon DEF StopController, Crash
<1>9. CASE LeaseLapses
  <2>1. UNCHANGED <<proc, written, starts>> /\ lead' = [lead EXCEPT !.lapsed = TRUE]
    BY <1>9, Zenon DEF LeaseLapses
  <2>2. Typed'
    BY <2>1, Zenon DEF Typed, LeadState
  <2>3. lead'.owner = lead.owner /\ lead'.epoch = lead.epoch
    BY <2>1, Zenon DEF Typed, LeadState
  <2>4. FencedBeforeWriting' /\ OwnerAcquired' /\ RecoveryIsOver'
    BY <2>1, <2>3, Zenon DEF FencedBeforeWriting, OwnerAcquired, RecoveryIsOver, instance
  <2> QED
    BY <2>2, <2>4, Zenon
<1>10. CASE UNCHANGED vars
  BY <1>10, Zenon DEF vars, Typed, FencedBeforeWriting, OwnerAcquired, RecoveryIsOver, instance
<1> QED
  BY <1>1, <1>2, <1>3, <1>4, <1>5, <1>6, <1>7, <1>8, <1>9, <1>10, Zenon DEF Next

\* The fence, the owner and the last write agree in every reachable state.
LEMMA FenceHolds == Spec => []FenceInv
BY FenceInit, FenceStep, PTL DEF Spec

\* A write that a trigger lets through never comes after one of a later epoch,
\* nor a repair after a service write of its own epoch (leadership.go: the
\* TEMP triggers of ActivateLeadershipFence), whichever masters lapse, crash
\* and restart, with or without a working file lock.
THEOREM FencedWritesInOrder == Spec => WritesInOrder
<1>1. FenceInv /\ [Next]_vars => [WriteInOrder]_vars
  <2> SUFFICES ASSUME FenceInv, Next, written' # written PROVE WriteInOrder
    BY Zenon DEF WriteInOrder
  <2>1. PICK p \in Masters : Recover(p) \/ Write(p)
    BY Zenon DEF Next, LeaseLapses, AcquireMasterProcessLock, AcquireLeadership, ActivateLeadershipFence,
           RenewLeadership, Signal, SetReady, requireLeadership, awaitShutdown, StopController, Crash
  <2>2. proc[p].pc \in {"recovering", "serving", "stopping"} /\ FencePasses(p)
    BY <2>1, Zenon DEF Recover, Write, FenceInv, FencedBeforeWriting
  <2>3. lead.owner = instance(p) /\ lead.epoch = proc[p].epoch
    BY <2>2, FencedWrite, Zenon
  <2>4. written'.epoch = lead.epoch
    BY <2>1, <2>3 DEF Recover, Write
  <2>5. written.epoch <= lead.epoch /\ written.epoch \in Nat /\ lead.epoch \in Nat
    BY Zenon DEF FenceInv, RecoveryIsOver, Typed, LeadState
  <2>6. CASE Write(p)
    BY <2>4, <2>5, <2>6 DEF Write, WriteInOrder
  <2>7. CASE Recover(p)
    BY <2>3, <2>4, <2>5, <2>7 DEF Recover, WriteInOrder, FenceInv, RecoveryIsOver
  <2> QED
    BY <2>1, <2>6, <2>7, Zenon
<1> QED
  BY <1>1, FenceHolds, PTL DEF Spec, WritesInOrder
=============================================================================
