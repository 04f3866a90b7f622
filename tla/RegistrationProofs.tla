------------------------- MODULE RegistrationProofs -------------------------
(***************************************************************************)
(* The catalog holds every run at most once and in commit order, and the   *)
(* registration rows tell the truth about it, for any number of runs,      *)
(* executors, attempts, observations, faults, lapses and requests.         *)
(*                                                                         *)
(* The argument needs no fact about leases: an executor that lost its      *)
(* lease may go on, and is stopped by what it finds.  A commit on its way  *)
(* is dead once the table has moved on (CommitsOnTheWay).  Receipts, part  *)
(* marks and REGISTERED rows are backed by the table (Backed), which only  *)
(* grows.  And a run is worked on only when all runs before it are         *)
(* REGISTERED, which is final (First).                                     *)
(***************************************************************************)
EXTENDS Registration, FiniteSetTheorems, TLAPS


Receipts == [kind : {"none", "commit", "noop", "reconciled"}, of : Runs \cup {NoRun}, n : Nat]

RegRow == [status : Statuses, seq : Nat, count : Nat, current : Nat, budget : Nat,
           receipt : Receipts, recStatus : RecStatuses, recCount : Nat, recCurrent : Nat,
           cycles : Nat]

Pcs == {"idle", "repair", "load", "before", "unproven", "engine", "commit", "receipt", "noop",
        "writing", "put", "done", "failed", "inspect", "confirm", "record", "unseen"}
Errs == {"none", "untyped", "definite", "net", "ambiguous", "unavailable", "icewrite", "timeout", "canceled"}

ExecState == [pc : Pcs, run : Runs \cup {NoRun}, n : Nat, ext : BOOLEAN, receipt : Receipts,
              part : Nat, put : BOOLEAN, err : Errs, start : Nat, marked : BOOLEAN, end : Int]

Typed ==
    /\ run \in [Runs -> {"OPEN", "PUBLISHED", "SUCCEEDED"}]
    /\ part \in [Runs -> Nat]
    /\ lastRun \in Runs \cup {NoRun}
    /\ reg \in [Runs -> RegRow]
    /\ exec \in [Executors -> ExecState]
    /\ cat \in [exists : BOOLEAN, ver : Nat, snaps : Seq(Runs)]
    /\ sent \subseteq [run : Runs, n : Nat, base : Nat]
    /\ ice \in [part : Nat, receipt : Receipts]

\* The table holds what a registration of the run has to put there.
Backed(r) == IF r \in EmptyRuns THEN cat.exists ELSE Referenced(r)

\* The mark is zero or the part number of a run in the table.
PartBacked(k) == k = 0 \/ \E r \in Runs \ EmptyRuns : part[r] = k /\ Referenced(r)

\* A commit on its way was built on the table as it is, and then the table
\* lacks its run, or on an older one, and then it will be refused.
CommitsOnTheWay ==
    \A q \in sent :
        /\ q.run \notin EmptyRuns /\ cat.exists
        /\ q.base <= cat.ver
        /\ q.base = cat.ver => ~Referenced(q.run)
        /\ reg[q.run].seq > 0 /\ First(q.run)

Holding == {"receipt", "noop", "writing", "put", "done"}
RegisteringPcs == Registering \cup {"repair", "failed", "done"}

\* What an executor knows is true of the table, whoever owns the lease.
ExecOK(x) ==
    /\ exec[x].pc # "idle" =>
         exec[x].run \in Runs /\ exec[x].n > 0 /\ reg[exec[x].run].seq > 0
    /\ exec[x].pc \in RegisteringPcs => First(exec[x].run)
    /\ exec[x].pc \in Holding => Backed(exec[x].run)
    /\ exec[x].receipt # NoReceipt => exec[x].pc # "idle" /\ Backed(exec[x].run)
    /\ exec[x].marked => exec[x].pc # "idle" /\ Referenced(exec[x].run)
    /\ PartBacked(exec[x].part)

\* What a registration row says is true of the table.
RegOK(r) ==
    /\ run[r] # "SUCCEEDED" => reg[r].seq = 0
    /\ reg[r].seq = 0 => reg[r].status = "NONE" /\ reg[r].current = 0 /\ reg[r].receipt = NoReceipt
    /\ reg[r].receipt # NoReceipt => Backed(r)
    /\ reg[r].status = "REGISTERED" => Backed(r) /\ reg[r].current = 0

Numbered == {r \in Runs : part[r] > 0}
Sequenced == {r \in Runs : reg[r].seq > 0}

\* Part numbers and sequence numbers are handed out one after the other.
PartsInOrder ==
    /\ \A r \in Runs : part[r] <= Cardinality(Numbered)
    /\ \A r \in Runs : run[r] = "OPEN" => part[r] = 0
    /\ \A r \in Runs \ EmptyRuns : run[r] # "OPEN" => part[r] > 0
    /\ lastRun \in Runs \ EmptyRuns =>
         \A r \in Runs : part[r] >= part[lastRun] => r = lastRun

SeqsInOrder ==
    /\ \A r \in Runs : reg[r].seq <= Cardinality(Sequenced)
    /\ \A r, q \in Runs : reg[r].seq = reg[q].seq /\ reg[r].seq > 0 => r = q

\* The runs of the table followed each other through the queue.
TableInOrder ==
    /\ CommittedOnce
    /\ CatalogInOrder
    /\ \A r \in Runs : Referenced(r) =>
         cat.exists /\ r \notin EmptyRuns /\ reg[r].seq > 0 /\ First(r)

RegInv ==
    /\ Typed
    /\ CommitsOnTheWay
    /\ \A x \in Executors : ExecOK(x)
    /\ \A r \in Runs : RegOK(r)
    /\ PartsInOrder
    /\ SeqsInOrder
    /\ TableInOrder
    /\ PartBacked(ice.part)

-----------------------------------------------------------------------------
(* What every step preserves.                                              *)

\* Sequence numbers stay, and REGISTERED is final.
RowsGrow ==
    \A r \in Runs :
        /\ reg[r].seq > 0 => reg'[r].seq = reg[r].seq
        /\ reg[r].status = "REGISTERED" => reg'[r].status = "REGISTERED"
        /\ reg[r].seq = 0 /\ reg'[r].seq > 0 => \A q \in Runs : reg[q].seq < reg'[r].seq

\* The table and what it references stay, and so do part numbers.
TableGrows ==
    /\ cat.exists => cat'.exists
    /\ \A r \in Runs : Referenced(r) => Referenced(r)'
    /\ \A r \in Runs : part[r] > 0 => part'[r] = part[r]

\* So the head of the queue stays a head, and what is backed stays so.
LEMMA FirstStays ==
    ASSUME Typed, Typed', RowsGrow, NEW r \in Runs, reg[r].seq > 0, First(r)
    PROVE  First(r)' /\ reg'[r].seq > 0
<1>1. reg'[r].seq = reg[r].seq
  BY Zenon DEF RowsGrow
<1>2. ASSUME NEW q \in Runs, reg'[q].seq \in 1..(reg'[r].seq - 1)
      PROVE  reg'[q].status = "REGISTERED"
  <2>1. /\ reg[q].seq \in Nat /\ reg'[q].seq \in Nat
        /\ reg[r].seq \in Nat
    BY Zenon DEF Typed, RegRow
  <2>2. reg'[q].seq > 0 /\ reg'[q].seq < reg[r].seq
    BY <1>1, <1>2, <2>1
  <2>3. reg[q].seq > 0
    BY <2>1, <2>2 DEF RowsGrow
  <2>4. reg[q].seq \in 1..(reg[r].seq - 1)
    BY <2>1, <2>2, <2>3 DEF RowsGrow
  <2>5. reg[q].status = "REGISTERED"
    BY <2>4, Zenon DEF First
  <2> QED
    BY <2>5, Zenon DEF RowsGrow
<1> QED
  BY <1>1, <1>2, Zenon DEF First

LEMMA BackedStays ==
    ASSUME TableGrows, NEW r \in Runs, Backed(r)
    PROVE  Backed(r)'
BY Zenon DEF Backed, TableGrows

LEMMA PartStays ==
    ASSUME Typed, TableGrows, NEW k \in Nat, PartBacked(k)
    PROVE  PartBacked(k)'
<1>1. CASE k = 0
  BY <1>1, Zenon DEF PartBacked
<1>2. CASE k # 0
  <2>1. PICK r \in Runs \ EmptyRuns : part[r] = k /\ Referenced(r)
    BY <1>2, Zenon DEF PartBacked
  <2>2. part'[r] = k /\ Referenced(r)'
    BY <1>2, <2>1 DEF TableGrows
  <2> QED
    BY <2>2, Zenon DEF PartBacked
<1> QED
  BY <1>1, <1>2, Zenon

\* An executor that does not move stays sound, and so does a row.
LEMMA ExecStays ==
    ASSUME Typed, Typed', RowsGrow, TableGrows, NEW x \in Executors, ExecOK(x),
           exec'[x] = exec[x]
    PROVE  ExecOK(x)'
<1>1. exec[x] \in ExecState
  BY Zenon DEF Typed
<1>2. PartBacked(exec[x].part)'
  BY <1>1, PartStays, Zenon DEF ExecOK, ExecState
<1>3. CASE exec[x].pc = "idle"
  BY <1>2, <1>3, Zenon DEF ExecOK, Holding, RegisteringPcs, Registering
<1>4. CASE exec[x].pc # "idle"
  <2>1. exec[x].run \in Runs /\ reg[exec[x].run].seq > 0
    BY <1>4, Zenon DEF ExecOK
  <2>2. First(exec[x].run) => First(exec[x].run)'
    BY <2>1, FirstStays, Zenon
  <2>3. Backed(exec[x].run) => Backed(exec[x].run)'
    BY <2>1, BackedStays, Zenon
  <2>4. Referenced(exec[x].run) => Referenced(exec[x].run)'
    BY <2>1, Zenon DEF TableGrows
  <2>5. reg'[exec[x].run].seq > 0
    BY <2>1, Zenon DEF RowsGrow, Typed, RegRow
  <2> QED
    BY <1>2, <1>4, <2>1, <2>2, <2>3, <2>4, <2>5, Zenon DEF ExecOK
<1> QED
  BY <1>3, <1>4, Zenon

LEMMA RowStays ==
    ASSUME TableGrows, NEW r \in Runs, RegOK(r), reg'[r] = reg[r], run'[r] = run[r]
    PROVE  RegOK(r)'
BY BackedStays, Zenon DEF RegOK

-----------------------------------------------------------------------------
\* An executor at work has a run and an attempt.
LEMMA AtWork ==
    ASSUME NEW x \in Executors, exec[x] \in ExecState, ExecOK(x), exec[x].pc # "idle"
    PROVE  /\ exec[x].run \in Runs /\ reg[exec[x].run].seq > 0
           /\ exec[x].n \in Nat /\ exec[x].n # 0
BY DEF ExecOK, ExecState

LEMMA OneMore == \A n \in Nat : n + 1 \in Nat
OBVIOUS

LEMMA RowsTyped == NoReceipt \in Receipts /\ Unregistered \in RegRow /\ Idle \in ExecState
<1>1. NoReceipt \in Receipts
  BY Zenon DEF NoReceipt, Receipts
<1>2. Unregistered \in RegRow
  BY <1>1, Zenon DEF Unregistered, RegRow, Statuses, RecStatuses
<1>3. Idle \in ExecState
  BY <1>1 DEF Idle, ExecState, Pcs, Errs
<1> QED
  BY <1>1, <1>2, <1>3, Zenon

-----------------------------------------------------------------------------
(* Steps that leave the table and the commits on their way alone.          *)
LEMMA RowStep ==
    ASSUME RegInv, UNCHANGED <<run, part, lastRun, cat, sent>>,
           reg' \in [Runs -> RegRow], exec' \in [Executors -> ExecState],
           ice' \in [part : Nat, receipt : Receipts], PartBacked(ice'.part),
           \A r \in Runs : /\ reg'[r].seq = reg[r].seq
                           /\ reg[r].status = "REGISTERED" => reg'[r].status = "REGISTERED",
           \A x \in Executors : exec'[x] = exec[x] \/ ExecOK(x)',
           \A r \in Runs : reg'[r] = reg[r] \/ RegOK(r)'
    PROVE  RegInv'
<1>1. Typed /\ Typed'
  BY Zenon DEF RegInv, Typed
<1>2. RowsGrow
  <2>1. \A r \in Runs : reg[r].seq \in Nat
    BY <1>1, Zenon DEF Typed, RegRow
  <2>2. \A r \in Runs : ~(reg[r].seq = 0 /\ reg'[r].seq > 0)
    BY <2>1
  <2> QED
    BY <2>2, Zenon DEF RowsGrow
<1>3. TableGrows
  BY Zenon DEF TableGrows, Referenced
<1>4. \A x \in Executors : ExecOK(x)'
  BY <1>1, <1>2, <1>3, ExecStays, Zenon DEF RegInv
<1>5. \A r \in Runs : RegOK(r)'
  BY <1>3, RowStays, Zenon DEF RegInv
<1>6. \A r \in Runs : reg[r].seq > 0 /\ First(r) => First(r)'
  BY <1>1, <1>2, FirstStays, Zenon
<1>7. CommitsOnTheWay'
  <2>1. ASSUME NEW q \in sent
        PROVE  /\ q.run \notin EmptyRuns /\ cat.exists /\ q.base <= cat.ver
               /\ q.base = cat.ver => ~Referenced(q.run)
               /\ reg[q.run].seq > 0 /\ First(q.run) /\ q.run \in Runs
    BY <1>1, Zenon DEF RegInv, CommitsOnTheWay, Typed
  <2>2. ASSUME NEW q \in sent
        PROVE  reg'[q.run].seq > 0 /\ First(q.run)'
    BY <1>6, <2>1, Zenon
  <2> QED
    BY <2>1, <2>2, Zenon DEF CommitsOnTheWay, Referenced
<1>8. PartsInOrder'
  BY Zenon DEF RegInv, PartsInOrder, Numbered
<1>9. SeqsInOrder'
  <2>1. Sequenced' = Sequenced
    BY Zenon DEF Sequenced
  <2> QED
    BY <2>1, Zenon DEF RegInv, SeqsInOrder
<1>10. TableInOrder'
  <2>1. CommittedOnce'
    BY Zenon DEF RegInv, TableInOrder, CommittedOnce
  <2>2. CatalogInOrder'
    <3>1. \A i \in DOMAIN cat.snaps : cat.snaps[i] \in Runs
      BY <1>1 DEF Typed
    <3> QED
      BY <3>1, Zenon DEF RegInv, TableInOrder, CatalogInOrder
  <2>3. \A r \in Runs : Referenced(r)' => Referenced(r)
    BY Zenon DEF Referenced
  <2>4. ASSUME NEW r \in Runs, Referenced(r)
        PROVE  cat'.exists /\ r \notin EmptyRuns /\ reg'[r].seq > 0 /\ First(r)'
    BY <1>6, <2>4, Zenon DEF RegInv, TableInOrder
  <2> QED
    BY <2>1, <2>2, <2>3, <2>4, Zenon DEF TableInOrder
<1>11. PartBacked(ice.part)'
  BY Zenon DEF PartBacked, Referenced
<1> QED
  BY <1>1, <1>4, <1>5, <1>7, <1>8, <1>9, <1>10, <1>11, Zenon DEF RegInv

\* Executor x goes on with the same attempt, and what it holds is backed.
Moves(x) ==
    /\ exec' \in [Executors -> ExecState]
    /\ \A y \in Executors \ {x} : exec'[y] = exec[y]
    /\ exec'[x].run = exec[x].run /\ exec'[x].n = exec[x].n /\ exec'[x].receipt = exec[x].receipt
    /\ exec[x].pc # "idle" /\ exec'[x].pc # "idle"
    /\ exec'[x].pc \in RegisteringPcs => exec[x].pc \in RegisteringPcs
    /\ exec'[x].pc \in Holding => Backed(exec[x].run)
    /\ exec'[x].marked => exec[x].marked \/ Referenced(exec[x].run)
    /\ exec'[x].part \in {exec[x].part, ice.part}

LEMMA MovesOK ==
    ASSUME RegInv, NEW x \in Executors, Moves(x), UNCHANGED <<part, reg, cat>>
    PROVE  ExecOK(x)'
<1> USE DEF Moves
<1>1. ExecOK(x) /\ Typed
  BY Zenon DEF RegInv
<1>2. exec[x].run \in Runs /\ exec[x].n > 0 /\ reg[exec[x].run].seq > 0
  BY <1>1, Zenon DEF ExecOK
<1>3. exec'[x].pc \in RegisteringPcs => First(exec[x].run)
  BY <1>1, Zenon DEF ExecOK
<1>4. exec'[x].receipt # NoReceipt => Backed(exec[x].run)
  BY <1>1, Zenon DEF ExecOK
<1>5. exec'[x].marked => Referenced(exec[x].run)
  BY <1>1, Zenon DEF ExecOK
<1>6. PartBacked(exec'[x].part)
  BY <1>1, Zenon DEF ExecOK, RegInv
<1> DEFINE r == exec[x].run
<1>7. /\ First(r) => First(exec[x].run)'
      /\ Backed(r) => Backed(exec[x].run)'
      /\ Referenced(r) => Referenced(exec[x].run)'
  BY Zenon DEF First, Backed, Referenced
<1>8. PartBacked(exec[x].part)'
  BY <1>6, Zenon DEF PartBacked, Referenced
<1> QED
  BY <1>1, <1>2, <1>3, <1>4, <1>5, <1>7, <1>8, Zenon DEF ExecOK

LEMMA IdleOK ==
    ASSUME NEW x \in Executors, exec'[x] = Idle
    PROVE  ExecOK(x)'
BY DEF ExecOK, Idle, RegisteringPcs, Registering, Holding, PartBacked

\* What the steps of an executor that touch nothing else have in common.
others == <<run, part, lastRun, reg, cat, sent>>

LEMMA MovesStep ==
    ASSUME RegInv, NEW x \in Executors, Moves(x), UNCHANGED others, UNCHANGED ice
    PROVE  RegInv'
<1>1. Typed /\ PartBacked(ice.part)
  BY Zenon DEF RegInv
<1>2. ExecOK(x)'
  BY MovesOK, Zenon DEF others
<1>3. \A y \in Executors : exec'[y] = exec[y] \/ ExecOK(y)'
  BY <1>2, Zenon DEF Moves
<1> QED
  BY <1>1, <1>3, RowStep, Zenon DEF Moves, others, Typed

LEMMA ReleaseStep ==
    ASSUME RegInv, NEW x \in Executors, Release(x), UNCHANGED others, UNCHANGED ice
    PROVE  RegInv'
<1>1. Typed /\ PartBacked(ice.part)
  BY Zenon DEF RegInv
<1>2. exec' \in [Executors -> ExecState]
  BY <1>1, RowsTyped, Zenon DEF Typed, Release
<1>3. ExecOK(x)'
  BY <1>1, IdleOK, Zenon DEF Release, Typed
<1>4. \A y \in Executors : exec'[y] = exec[y] \/ ExecOK(y)'
  BY <1>1, <1>3, Zenon DEF Release, Typed
<1> QED
  BY <1>1, <1>2, <1>4, RowStep, Zenon DEF others, Typed

LEMMA FailMoves ==
    ASSUME RegInv, NEW x \in Executors, NEW err \in Errs, exec[x].pc \in RegisteringPcs, Fail(x, err)
    PROVE  Moves(x)
<1>1. exec[x] \in ExecState /\ exec \in [Executors -> ExecState]
  BY Zenon DEF RegInv, Typed
<1>2. exec' = [exec EXCEPT ![x] = [exec[x] EXCEPT !.pc = "failed", !.err = err]]
  BY <1>1, Zenon DEF Fail
<1>3. [exec[x] EXCEPT !.pc = "failed", !.err = err] \in ExecState
  BY <1>1, Zenon DEF ExecState, Pcs
<1> QED
  BY <1>1, <1>2, <1>3, Zenon DEF Moves, RegisteringPcs, Registering, Holding, ExecState

LEMMA GotoMoves ==
    ASSUME RegInv, NEW x \in Executors, NEW pc \in Pcs \ {"idle"}, exec[x].pc # "idle",
           pc \in RegisteringPcs => exec[x].pc \in RegisteringPcs,
           pc \in Holding => Backed(exec[x].run),
           Goto(x, pc)
    PROVE  Moves(x)
<1>1. exec[x] \in ExecState /\ exec \in [Executors -> ExecState]
  BY Zenon DEF RegInv, Typed
<1>2. exec' = [exec EXCEPT ![x] = [exec[x] EXCEPT !.pc = pc]]
  BY <1>1, Zenon DEF Goto
<1>3. [exec[x] EXCEPT !.pc = pc] \in ExecState
  BY <1>1, Zenon DEF ExecState
<1> QED
  BY <1>1, <1>2, <1>3, Zenon DEF Moves, ExecState

\* Files below the mark of _ice_state.json are in the table when _state.json
\* still names their run as the last one.
LEMMA BelowTheMark ==
    ASSUME RegInv, NEW r \in Runs \ EmptyRuns, reg[r].seq > 0, lastRun = r, ~(part[r] > ice.part)
    PROVE  Referenced(r)
<1>1. Typed /\ RegOK(r) /\ PartsInOrder /\ PartBacked(ice.part)
  BY Zenon DEF RegInv
<1>2. run[r] = "SUCCEEDED"
  BY <1>1 DEF RegOK
<1>3. part[r] > 0 /\ part[r] \in Nat /\ ice.part \in Nat
  BY <1>1, <1>2, Zenon DEF PartsInOrder, Typed
<1>4. PICK s \in Runs \ EmptyRuns : part[s] = ice.part /\ Referenced(s)
  BY <1>1, <1>3, Zenon DEF PartBacked
<1>5. s = r
  BY <1>1, <1>3, <1>4 DEF PartsInOrder
<1> QED
  BY <1>4, <1>5, Zenon

LEMMA LoadMoves ==
    ASSUME RegInv, NEW x \in Executors, exec[x].pc = "load",
           NEW pc \in {"writing", "before", "noop", "unproven"}, NEW put \in BOOLEAN,
           pc \in Holding => Backed(exec[x].run),
           Loaded(x, pc, put)
    PROVE  Moves(x)
<1>1. exec[x] \in ExecState /\ exec \in [Executors -> ExecState] /\ ice.part \in Nat
  BY Zenon DEF RegInv, Typed
<1>2. exec' = [exec EXCEPT ![x] = [exec[x] EXCEPT !.pc = pc, !.put = put, !.part = ice.part]]
  BY <1>1, Zenon DEF Loaded
<1>3. [exec[x] EXCEPT !.pc = pc, !.put = put, !.part = ice.part] \in ExecState
  BY <1>1, Zenon DEF ExecState, Pcs
<1> QED
  BY <1>1, <1>2, <1>3, Zenon DEF Moves, RegisteringPcs, Registering, ExecState

\* RegisterRun reads both state files and decides what is left to do.
LEMMA LoadStep ==
    ASSUME RegInv, NEW x \in Executors, RegisterRunLoad(x)
    PROVE  RegInv'
<1> DEFINE r == exec[x].run
<1>1. exec[x].pc = "load" /\ UNCHANGED others /\ UNCHANGED ice
  BY Zenon DEF RegisterRunLoad, others, dataset, external
<1>2. ExecOK(x)
  BY Zenon DEF RegInv
<1>3. r \in Runs /\ reg[r].seq > 0 /\ exec[x].pc \in RegisteringPcs
  BY <1>1, <1>2, Zenon DEF ExecOK, RegisteringPcs, Registering
<1>4. AlreadyCommitted(x) => Backed(r)
  BY <1>2, Zenon DEF AlreadyCommitted, ExecOK
<1>5. ASSUME NEW err \in Errs, Fail(x, err) PROVE Moves(x)
  BY <1>3, <1>5, FailMoves, Zenon
<1>6. ASSUME NEW pc \in {"writing", "before", "noop", "unproven"}, NEW put \in BOOLEAN,
             pc \in Holding => Backed(r),
             Loaded(x, pc, put)
      PROVE  Moves(x)
  BY <1>1, <1>6, LoadMoves, Zenon
<1>7. ASSUME loadDatasetState(r), AfterLoad(x) PROVE Moves(x)
  <2>1. CASE r \in EmptyRuns /\ ~cat.exists
    <3>1. CASE AlreadyCommitted(x)
      <4>1. Loaded(x, "writing", TRUE)
        BY <1>7, <2>1, <3>1, Zenon DEF AfterLoad, decideVerifiedEmptyAction
      <4> QED
        BY <1>4, <1>6, <3>1, <4>1, Zenon
    <3>2. CASE ~AlreadyCommitted(x)
      <4>1. Loaded(x, "before", TRUE)
        BY <1>7, <2>1, <3>2, Zenon DEF AfterLoad, decideVerifiedEmptyAction
      <4> QED
        BY <1>6, <4>1, Zenon DEF Holding
    <3> QED
      BY <3>1, <3>2, Zenon
  <2>2. CASE r \in EmptyRuns /\ cat.exists
    <3>1. Backed(r)
      BY <2>2, Zenon DEF Backed
    <3>2. CASE AlreadyCommitted(x)
      <4>1. Fail(x, "definite")
        BY <1>7, <2>2, <3>2, Zenon DEF AfterLoad, decideVerifiedEmptyAction
      <4> QED
        BY <1>5, <4>1, Zenon DEF Errs
    <3>3. CASE ~AlreadyCommitted(x)
      <4>1. Loaded(x, "noop", TRUE)
        BY <1>7, <2>2, <3>3, Zenon DEF AfterLoad, decideVerifiedEmptyAction
      <4> QED
        BY <1>6, <3>1, <4>1, Zenon
    <3> QED
      BY <3>2, <3>3, Zenon
  <2>3. CASE r \notin EmptyRuns /\ part[r] > ice.part
    <3>1. CASE AlreadyCommitted(x)
      <4>1. Loaded(x, "writing", TRUE)
        BY <1>7, <2>3, <3>1, Zenon DEF AfterLoad
      <4> QED
        BY <1>4, <1>6, <3>1, <4>1, Zenon
    <3>2. CASE ~AlreadyCommitted(x)
      <4>1. Loaded(x, "before", TRUE)
        BY <1>7, <2>3, <3>2, Zenon DEF AfterLoad
      <4> QED
        BY <1>6, <4>1, Zenon DEF Holding
    <3> QED
      BY <3>1, <3>2, Zenon
  <2>4. CASE r \notin EmptyRuns /\ ~(part[r] > ice.part)
    <3>1. lastRun = r
      BY <1>7, Zenon DEF loadDatasetState
    <3>2. Backed(r)
      BY <1>3, <2>4, <3>1, BelowTheMark, Zenon DEF Backed
    <3>3. CASE ice.receipt = NoReceipt
      <4>1. Loaded(x, "unproven", FALSE)
        BY <1>7, <2>4, <3>3, Zenon DEF AfterLoad
      <4> QED
        BY <1>6, <3>2, <4>1, Zenon
    <3>4. CASE ice.receipt # NoReceipt
      <4>1. Loaded(x, "writing", FALSE) \/ Loaded(x, "noop", FALSE)
        BY <1>7, <2>4, <3>4, Zenon DEF AfterLoad
      <4> QED
        BY <1>6, <3>2, <4>1, Zenon
    <3> QED
      BY <3>3, <3>4, Zenon
  <2> QED
    BY <2>1, <2>2, <2>3, <2>4, Zenon
<1>8. Moves(x)
  BY <1>5, <1>7, Zenon DEF RegisterRunLoad, Errs
<1> QED
  BY <1>1, <1>8, MovesStep, Zenon

\* The steps of an attempt that only record a phase.
LEMMA PhaseStep ==
    ASSUME RegInv, NEW x \in Executors,
           \/ BeginRepair(x) \/ BeforeExternalCommit(x) \/ requireNoOpReconciliation(x)
           \/ IceStateWriting(x)
    PROVE  RegInv'
<1>1. UNCHANGED others /\ UNCHANGED ice
  BY Zenon DEF BeginRepair, BeforeExternalCommit, requireNoOpReconciliation, IceStateWriting,
         others, dataset, external
<1>2. ExecOK(x) /\ exec[x] \in ExecState /\ exec \in [Executors -> ExecState]
  BY Zenon DEF RegInv, Typed
<1>3. exec[x].pc \in {"repair", "before", "unproven", "writing"}
  BY Zenon DEF BeginRepair, BeforeExternalCommit, requireNoOpReconciliation, IceStateWriting
<1>4. exec[x].pc \in RegisteringPcs
  BY <1>3, Zenon DEF RegisteringPcs, Registering
<1>5. ASSUME Fail(x, "untyped") PROVE RegInv'
  BY <1>1, <1>4, <1>5, FailMoves, MovesStep, Zenon DEF Errs
<1>6. CASE BeginRepair(x)
  <2>1. CASE Goto(x, "load")
    <3>1. "load" \in Pcs \ {"idle"} /\ "load" \notin Holding /\ exec[x].pc # "idle"
      BY <1>3, Zenon DEF Pcs, Holding
    <3> QED
      BY <1>1, <1>4, <2>1, <3>1, GotoMoves, MovesStep, Zenon
  <2> QED
    BY <1>1, <1>6, <2>1, ReleaseStep, Zenon DEF BeginRepair, AdvanceRegistrationPhase
<1>7. CASE BeforeExternalCommit(x)
  <2>1. CASE exec' = [exec EXCEPT ![x].pc = "engine", ![x].ext = TRUE]
    <3>1. exec' = [exec EXCEPT ![x] = [exec[x] EXCEPT !.pc = "engine", !.ext = TRUE]]
      BY <1>2, <2>1, Zenon
    <3>2. [exec[x] EXCEPT !.pc = "engine", !.ext = TRUE] \in ExecState
      BY <1>2, Zenon DEF ExecState, Pcs
    <3>3. Moves(x)
      BY <1>2, <1>3, <1>4, <3>1, <3>2, Zenon DEF Moves, ExecState, Holding, RegisteringPcs, Registering
    <3> QED
      BY <1>1, <3>3, MovesStep, Zenon
  <2> QED
    BY <1>5, <1>7, <2>1, Zenon DEF BeforeExternalCommit, AdvanceRegistrationPhase
<1>8. CASE requireNoOpReconciliation(x)
  <2>1. CASE exec' = [exec EXCEPT ![x].pc = "failed", ![x].err = "ambiguous", ![x].ext = TRUE]
    <3>1. exec' = [exec EXCEPT ![x] = [exec[x] EXCEPT !.pc = "failed", !.err = "ambiguous", !.ext = TRUE]]
      BY <1>2, <2>1, Zenon
    <3>2. [exec[x] EXCEPT !.pc = "failed", !.err = "ambiguous", !.ext = TRUE] \in ExecState
      BY <1>2, Zenon DEF ExecState, Pcs, Errs
    <3>3. Moves(x)
      BY <1>2, <1>3, <1>4, <3>1, <3>2, Zenon DEF Moves, ExecState, Holding, RegisteringPcs, Registering
    <3> QED
      BY <1>1, <3>3, MovesStep, Zenon
  <2> QED
    BY <1>5, <1>8, <2>1, Zenon DEF requireNoOpReconciliation, AdvanceRegistrationPhase
<1>9. CASE IceStateWriting(x)
  <2>1. ASSUME NEW pc \in {"put", "done"}, Goto(x, pc) PROVE RegInv'
    <3>1. pc \in Pcs \ {"idle"} /\ exec[x].pc # "idle"
      BY <1>3, Zenon DEF Pcs
    <3>2. Backed(exec[x].run)
      BY <1>2, <1>9, Zenon DEF ExecOK, Holding, IceStateWriting
    <3> QED
      BY <1>1, <1>4, <2>1, <3>1, <3>2, GotoMoves, MovesStep, Zenon
  <2> QED
    BY <1>5, <1>9, <2>1, Zenon DEF IceStateWriting, AdvanceRegistrationPhase
<1> QED
  BY <1>6, <1>7, <1>8, <1>9, Zenon

\* The steps of an observation: what it marks as seen is in the table.
LEMMA ObservationStep ==
    ASSUME RegInv, NEW x \in Executors,
           \/ InspectCatalog(x) \/ finalizeCatalogObservation(x) \/ ObservationTimesOut(x)
           \/ RenewReconciliationLease(x)
    PROVE  RegInv'
<1>1. UNCHANGED others /\ UNCHANGED ice
  BY Zenon DEF InspectCatalog, finalizeCatalogObservation, ObservationTimesOut, RenewReconciliationLease,
         others, dataset, external
<1>2. /\ ExecOK(x) /\ exec[x] \in ExecState /\ exec \in [Executors -> ExecState]
      /\ cat.ver \in Nat /\ cat.ver \in Int
  BY DEF RegInv, Typed
<1>3. exec[x].pc \in {"inspect", "confirm"}
  BY Zenon DEF InspectCatalog, finalizeCatalogObservation, ObservationTimesOut, RenewReconciliationLease
<1>4. ASSUME Goto(x, "unseen") PROVE RegInv'
  <2>1. /\ "unseen" \in Pcs \ {"idle"} /\ exec[x].pc # "idle"
        /\ "unseen" \notin RegisteringPcs /\ "unseen" \notin Holding
    BY <1>3, Zenon DEF Pcs, RegisteringPcs, Registering, Holding
  <2> QED
    BY <1>1, <1>4, <2>1, GotoMoves, MovesStep, Zenon
<1>5. CASE exec' = [exec EXCEPT ![x].pc = "confirm", ![x].start = cat.ver,
                                ![x].marked = Referenced(exec[x].run)]
  <2> DEFINE e == [exec[x] EXCEPT !.pc = "confirm", !.start = cat.ver, !.marked = Referenced(exec[x].run)]
  <2>1. exec' = [exec EXCEPT ![x] = e]
    BY <1>2, <1>5, Zenon
  <2>2. Referenced(exec[x].run) \in BOOLEAN
    BY Zenon DEF Referenced
  <2>3. e \in ExecState
    BY <1>2, <2>2, Zenon DEF ExecState, Pcs
  <2>4. Moves(x)
    BY <1>2, <1>3, <2>1, <2>3, Zenon DEF Moves, ExecState, Holding, RegisteringPcs, Registering
  <2> QED
    BY <1>1, <2>4, MovesStep, Zenon
<1>6. ASSUME NEW end \in {cat.ver, -1}, exec' = [exec EXCEPT ![x].pc = "record", ![x].end = end]
      PROVE  RegInv'
  <2> DEFINE e == [exec[x] EXCEPT !.pc = "record", !.end = end]
  <2>0. end \in Int
    BY <1>2
  <2>1. exec' = [exec EXCEPT ![x] = e]
    BY <1>2, <1>6, Zenon
  <2>2. e \in ExecState
    BY <1>2, <2>0, Zenon DEF ExecState, Pcs
  <2>3. Moves(x)
    BY <1>2, <1>3, <2>1, <2>2, Zenon DEF Moves, ExecState, Holding, RegisteringPcs, Registering
  <2> QED
    BY <1>1, <2>3, MovesStep, Zenon
<1>7. CASE UNCHANGED exec
  BY <1>1, <1>2, <1>7, RowStep, Zenon DEF others, RegInv, Typed
<1>8. CASE InspectCatalog(x)
  BY <1>4, <1>5, <1>8, Zenon DEF InspectCatalog
<1>9. CASE finalizeCatalogObservation(x)
  BY <1>4, <1>6, <1>9, Zenon DEF finalizeCatalogObservation
<1>10. CASE ObservationTimesOut(x)
  BY <1>4, <1>10, Zenon DEF ObservationTimesOut
<1>11. CASE RenewReconciliationLease(x)
  BY <1>4, <1>7, <1>11, Zenon DEF RenewReconciliationLease
<1> QED
  BY <1>8, <1>9, <1>10, <1>11, Zenon

\* What a put of _ice_state.json leaves behind is the mark of a run in the table.
LEMMA PutBacked ==
    ASSUME RegInv, NEW x \in Executors, exec[x].pc = "put"
    PROVE  nextIceState(x) \in [part : Nat, receipt : Receipts] /\ PartBacked(nextIceState(x).part)
<1> DEFINE r == exec[x].run
<1>1. ExecOK(x) /\ exec[x] \in ExecState /\ part \in [Runs -> Nat]
  BY Zenon DEF RegInv, Typed
<1>2. r \in Runs /\ Backed(r)
  BY <1>1, Zenon DEF ExecOK, Holding
<1>3. exec[x].part \in Nat /\ exec[x].receipt \in Receipts /\ part[r] \in Nat
  BY <1>1, <1>2, Zenon DEF ExecState
<1>4. nextIceState(x) \in [part : Nat, receipt : Receipts]
  BY <1>3, Zenon DEF nextIceState
<1>5. CASE r \in EmptyRuns
  <2>1. nextIceState(x).part = exec[x].part
    BY <1>5, Zenon DEF nextIceState
  <2> QED
    BY <1>1, <1>4, <2>1, Zenon DEF ExecOK
<1>6. CASE r \notin EmptyRuns
  <2>1. nextIceState(x).part = part[r] /\ Referenced(r)
    BY <1>2, <1>6, Zenon DEF nextIceState, Backed
  <2> QED
    BY <1>2, <1>4, <1>6, <2>1, Zenon DEF PartBacked
<1> QED
  BY <1>4, <1>5, <1>6, Zenon

LEMMA IceStep ==
    ASSUME RegInv, NEW x \in Executors,
           PutIceState(x) \/ AttemptTimesOut(x) \/ RenewalRefused(x)
    PROVE  RegInv'
<1>1. UNCHANGED others
  BY Zenon DEF PutIceState, AttemptTimesOut, RenewalRefused, others, dataset
<1>2. ExecOK(x) /\ exec[x] \in ExecState /\ exec \in [Executors -> ExecState] /\ Typed
  BY Zenon DEF RegInv, Typed
<1>3. exec[x].pc \in Registering
  BY Zenon DEF PutIceState, AttemptTimesOut, RenewalRefused, Registering
<1>4. ice' = ice \/ (exec[x].pc = "put" /\ ice' = nextIceState(x))
  BY Zenon DEF PutIceState, AttemptTimesOut, RenewalRefused
<1>5. ice' \in [part : Nat, receipt : Receipts] /\ PartBacked(ice'.part)
  <2>1. CASE ice' = ice
    BY <1>2, <2>1, Zenon DEF RegInv, Typed
  <2>2. CASE exec[x].pc = "put" /\ ice' = nextIceState(x)
    BY <2>2, PutBacked, Zenon
  <2> QED
    BY <1>4, <2>1, <2>2, Zenon
<1>6. Moves(x)
  <2>1. ASSUME NEW err \in Errs, Fail(x, err) PROVE Moves(x)
    BY <1>3, <2>1, FailMoves, Zenon DEF RegisteringPcs
  <2>2. ASSUME exec[x].pc = "put", Goto(x, "done") PROVE Moves(x)
    <3>1. "done" \in Pcs \ {"idle"} /\ exec[x].pc \in RegisteringPcs
      BY <2>2, Zenon DEF Pcs, RegisteringPcs, Registering
    <3>2. Backed(exec[x].run)
      BY <1>2, <2>2, Zenon DEF ExecOK, Holding
    <3> QED
      BY <2>2, <3>1, <3>2, GotoMoves, Zenon
  <2> QED
    BY <2>1, <2>2, Zenon DEF PutIceState, AttemptTimesOut, RenewalRefused, Errs
<1>7. ExecOK(x)'
  BY <1>1, <1>6, MovesOK, Zenon DEF others
<1>8. \A y \in Executors : exec'[y] = exec[y] \/ ExecOK(y)'
  BY <1>6, <1>7, Zenon DEF Moves
<1> QED
  BY <1>1, <1>2, <1>5, <1>6, <1>8, RowStep, Zenon DEF others, Moves, Typed

\* A stop, and a lease that lapses.
LEMMA StopStep ==
    ASSUME RegInv, Stop \/ \E r \in Runs : LeaseLapses(r) \/ ObservationLeaseLapses(r)
    PROVE  RegInv'
<1>1. UNCHANGED others /\ UNCHANGED ice /\ Typed /\ PartBacked(ice.part)
  BY Zenon DEF Stop, LeaseLapses, ObservationLeaseLapses, others, dataset, external, RegInv
<1>2. CASE exec' = exec
  BY <1>1, <1>2, RowStep, Zenon DEF others, Typed
<1>3. CASE exec' = [x \in Executors |-> Idle]
  <2>1. exec' \in [Executors -> ExecState]
    BY <1>3, RowsTyped, Zenon
  <2>2. \A x \in Executors : ExecOK(x)'
    BY <1>3, IdleOK, Zenon
  <2> QED
    BY <1>1, <2>1, <2>2, RowStep, Zenon DEF others, Typed
<1> QED
  BY <1>2, <1>3, Zenon DEF Stop, LeaseLapses, ObservationLeaseLapses

-----------------------------------------------------------------------------
(* Steps that write a registration row.                                    *)

LEMMA PositiveNumber == \A n \in Nat : n > 0 => n # 0
  OBVIOUS

\* What the new row of run r has to satisfy: a receipt or REGISTERED are backed.
LEMMA RowWritten ==
    ASSUME RegInv, NEW r \in Runs, NEW row \in RegRow, reg[r].seq > 0,
           reg' = [reg EXCEPT ![r] = row],
           row.seq = reg[r].seq,
           row.receipt # NoReceipt => reg[r].receipt # NoReceipt \/ Backed(r),
           row.status = "REGISTERED" => Backed(r) /\ row.current = 0,
           reg[r].status = "REGISTERED" => row.status = "REGISTERED",
           UNCHANGED <<run, part, lastRun, cat, sent, ice>>,
           exec' \in [Executors -> ExecState],
           \A x \in Executors : exec'[x] = exec[x] \/ ExecOK(x)'
    PROVE  RegInv'
<1>1. Typed /\ RegOK(r) /\ PartBacked(ice.part)
  BY Zenon DEF RegInv
<1>2. reg' \in [Runs -> RegRow] /\ reg'[r] = row /\ \A q \in Runs \ {r} : reg'[q] = reg[q]
  <2>1. reg \in [Runs -> RegRow]
    BY <1>1, Zenon DEF Typed
  <2> QED
    BY <2>1, Zenon
<1>3. row.seq > 0 /\ row.seq # 0
  <2>1. row.seq \in Nat
    BY Zenon DEF RegRow
  <2> QED
    BY <2>1, PositiveNumber, Zenon
<1>4. RegOK(r)'
  <2>1. Backed(r) => Backed(r)'
    BY Zenon DEF Backed, Referenced
  <2>2. run[r] = "SUCCEEDED"
    BY <1>1, <1>3, Zenon DEF RegOK
  <2>3. row.receipt # NoReceipt => Backed(r)
    BY <1>1, Zenon DEF RegOK
  <2> QED
    BY <1>2, <1>3, <2>1, <2>2, <2>3, Zenon DEF RegOK
<1>5. \A q \in Runs : reg'[q] = reg[q] \/ RegOK(q)'
  BY <1>2, <1>4, Zenon
<1>6. \A q \in Runs : /\ reg'[q].seq = reg[q].seq
                      /\ reg[q].status = "REGISTERED" => reg'[q].status = "REGISTERED"
  BY <1>2, Zenon
<1> QED
  BY <1>1, <1>2, <1>5, <1>6, RowStep, Zenon DEF Typed

\* The same for a step of an executor that ends with it.
LEMMA RowReleased ==
    ASSUME RegInv, NEW x \in Executors, Release(x)
    PROVE  exec' \in [Executors -> ExecState] /\ \A y \in Executors : exec'[y] = exec[y] \/ ExecOK(y)'
<1>1. exec \in [Executors -> ExecState]
  BY Zenon DEF RegInv, Typed
<1>2. exec' \in [Executors -> ExecState]
  BY <1>1, RowsTyped, Zenon DEF Release
<1>3. ExecOK(x)'
  BY <1>1, IdleOK, Zenon DEF Release
<1> QED
  BY <1>1, <1>2, <1>3, Zenon DEF Release

\* A row with a claimable status, or with a current attempt, has a sequence number.
LEMMA RowExists ==
    ASSUME RegInv, NEW r \in Runs, reg[r].status # "NONE" \/ reg[r].current # 0
    PROVE  reg[r].seq > 0 /\ reg[r] \in RegRow
<1>1. Typed /\ RegOK(r)
  BY Zenon DEF RegInv
<1>2. reg[r] \in RegRow /\ reg[r].seq \in Nat
  BY <1>1, Zenon DEF Typed, RegRow
<1> QED
  BY <1>1, <1>2 DEF RegOK

LEMMA ClaimStep ==
    ASSUME RegInv, RegistrationConstants, NEW x \in Executors, NEW r \in Runs, ClaimRegistration(x, r)
    PROVE  RegInv'
<1> DEFINE n == reg[r].count + 1
<1>0. Queued(r) /\ First(r) /\ UNCHANGED <<run, part, lastRun, cat, sent, ice>>
  BY Zenon DEF ClaimRegistration, dataset, external
<1>1. /\ Typed /\ reg \in [Runs -> RegRow] /\ exec \in [Executors -> ExecState]
      /\ RegOK(r) /\ reg[r].seq > 0 /\ reg[r] \in RegRow
  BY <1>0, RowExists, Zenon DEF RegInv, Typed, Queued
<1>2. CASE reg' = [reg EXCEPT ![r].status = "FAILED"] /\ UNCHANGED exec
  <2> DEFINE row == [reg[r] EXCEPT !.status = "FAILED"]
  <2>1. reg' = [reg EXCEPT ![r] = row] /\ row \in RegRow
    BY <1>1, <1>2, Zenon DEF RegRow, Statuses
  <2>2. row.seq = reg[r].seq /\ row.receipt = reg[r].receipt /\ row.status = "FAILED"
    BY <1>1, Zenon DEF RegRow
  <2>3. reg[r].status # "REGISTERED"
    BY <1>0, Zenon DEF Queued
  <2> HIDE DEF row
  <2> QED
    BY <1>0, <1>1, <1>2, <2>1, <2>2, <2>3, RowWritten, Zenon
<1>3. CASE /\ reg' = [reg EXCEPT ![r].status = "REGISTERING", ![r].count = n, ![r].current = n]
           /\ exec' = [exec EXCEPT ![x] =
                [Idle EXCEPT !.pc = IF reg[r].receipt = NoReceipt THEN "load" ELSE "repair",
                             !.run = r, !.n = n, !.receipt = reg[r].receipt]]
  <2> DEFINE row == [reg[r] EXCEPT !.status = "REGISTERING", !.count = n, !.current = n]
             e == [Idle EXCEPT !.pc = IF reg[r].receipt = NoReceipt THEN "load" ELSE "repair",
                               !.run = r, !.n = n, !.receipt = reg[r].receipt]
  <2>0. n \in Nat /\ n > 0 /\ reg[r].receipt \in Receipts
    BY <1>1 DEF RegRow
  <2>1. reg' = [reg EXCEPT ![r] = row] /\ row \in RegRow
    <3> HIDE DEF n
    <3> QED
      BY <1>1, <1>3, <2>0, Zenon DEF RegRow, Statuses
  <2>2. row.seq = reg[r].seq /\ row.receipt = reg[r].receipt /\ row.status = "REGISTERING"
    BY <1>1, Zenon DEF RegRow
  <2>3. reg[r].status # "REGISTERED"
    BY <1>0, Zenon DEF Queued
  <2>4. e \in ExecState
    <3> HIDE DEF n
    <3> QED
      BY <2>0, RowsTyped, Zenon DEF ExecState, Pcs
  <2>5. exec' \in [Executors -> ExecState] /\ exec'[x] = e /\ \A y \in Executors \ {x} : exec'[y] = exec[y]
    <3> HIDE DEF e, n
    <3>1. exec' = [exec EXCEPT ![x] = e]
      BY <1>3, Zenon DEF e, n
    <3> QED
      BY <1>1, <2>4, <3>1, Zenon
  <2>6. /\ e.pc \in {"load", "repair"} /\ e.run = r /\ e.n = n /\ e.receipt = reg[r].receipt
        /\ e.part = 0 /\ e.marked = FALSE
    BY Zenon DEF Idle
  <2> HIDE DEF e, n, row
  <2>7. reg'[r].seq = reg[r].seq /\ reg'[r] = row
    BY <1>1, <2>1, <2>2, Zenon
  <2>8. First(r)'
    <3>1. \A q \in Runs \ {r} : reg'[q] = reg[q]
      BY <1>1, <2>1, Zenon
    <3>2. ASSUME NEW q \in Runs, reg'[q].seq \in 1..(reg'[r].seq - 1) PROVE reg'[q].status = "REGISTERED"
      <4>1. reg[r].seq \in Nat
        BY <1>1, Zenon DEF RegRow
      <4>2. q # r
        BY <2>7, <3>2, <4>1
      <4> QED
        BY <1>0, <2>7, <3>1, <3>2, <4>2, Zenon DEF First
    <3> QED
      BY <3>2, Zenon DEF First
  <2>9. reg[r].receipt # NoReceipt => Backed(r)'
    <3>1. Backed(r) => Backed(r)'
      BY <1>0, Zenon DEF Backed, Referenced
    <3> QED
      BY <1>1, <3>1, Zenon DEF RegOK
  <2>10. ExecOK(x)'
    BY <1>1, <2>0, <2>5, <2>6, <2>7, <2>8, <2>9, Zenon
    DEF ExecOK, Holding, RegisteringPcs, Registering, PartBacked
  <2>11. \A y \in Executors : exec'[y] = exec[y] \/ ExecOK(y)'
    BY <2>5, <2>10, Zenon
  <2> QED
    BY <1>0, <1>1, <2>1, <2>2, <2>3, <2>5, <2>11, RowWritten, Zenon
<1> QED
  BY <1>2, <1>3, Zenon DEF ClaimRegistration

LEMMA ClaimObservationStep ==
    ASSUME RegInv, NEW x \in Executors, NEW r \in Runs, ClaimReconciliation(x, r)
    PROVE  RegInv'
<1> DEFINE n == reg[r].recCount + 1
           row == [reg[r] EXCEPT !.recStatus = "INSPECTING", !.recCount = n, !.recCurrent = n]
           e == [Idle EXCEPT !.pc = "inspect", !.run = r, !.n = n]
<1>0. reg[r].status = "RECONCILING" /\ UNCHANGED <<run, part, lastRun, cat, sent, ice>>
  BY Zenon DEF ClaimReconciliation, dataset, external
<1>1. /\ Typed /\ reg \in [Runs -> RegRow] /\ exec \in [Executors -> ExecState]
      /\ reg[r].seq > 0 /\ reg[r] \in RegRow
  BY <1>0, RowExists, Zenon DEF RegInv, Typed
<1>2. n \in Nat /\ n > 0
  BY <1>1 DEF RegRow
<1>3. /\ reg' = [reg EXCEPT ![r].recStatus = "INSPECTING", ![r].recCount = n, ![r].recCurrent = n]
      /\ exec' = [exec EXCEPT ![x] = e]
  BY Zenon DEF ClaimReconciliation
<1> HIDE DEF n
<1>4. reg' = [reg EXCEPT ![r] = row] /\ row \in RegRow
  BY <1>1, <1>2, <1>3, Zenon DEF RegRow, RecStatuses
<1>5. row.seq = reg[r].seq /\ row.receipt = reg[r].receipt /\ row.status = "RECONCILING"
  BY <1>0, <1>1, Zenon DEF RegRow
<1>6. e \in ExecState
  BY <1>2, RowsTyped, Zenon DEF ExecState, Idle, Pcs
<1>7. /\ e.pc = "inspect" /\ e.run = r /\ e.n = n /\ e.receipt = NoReceipt
      /\ e.part = 0 /\ e.marked = FALSE
  BY Zenon DEF Idle
<1> HIDE DEF e, row
<1>8. exec' \in [Executors -> ExecState] /\ exec'[x] = e /\ \A y \in Executors \ {x} : exec'[y] = exec[y]
  BY <1>1, <1>3, <1>6, Zenon
<1>9. ExecOK(x)'
  BY <1>1, <1>2, <1>4, <1>5, <1>7, <1>8, Zenon DEF ExecOK, Holding, RegisteringPcs, Registering, PartBacked
<1>10. \A y \in Executors : exec'[y] = exec[y] \/ ExecOK(y)'
  BY <1>8, <1>9, Zenon
<1> QED
  BY <1>0, <1>1, <1>4, <1>5, <1>8, <1>10, RowWritten, Zenon

\* A receipt is persisted by an attempt that saw the catalog answer, or found the
\* table as it has to be.
LEMMA ReceiptStep ==
    ASSUME RegInv, NEW x \in Executors, PersistCatalogReceipt(x) \/ PersistCatalogNoOpReceipt(x)
    PROVE  RegInv'
<1> DEFINE r == exec[x].run
           n == exec[x].n
<1>0. UNCHANGED <<run, part, lastRun, cat, sent, ice>> /\ exec[x].pc \in {"receipt", "noop"}
  BY Zenon DEF PersistCatalogReceipt, PersistCatalogNoOpReceipt, dataset, external
<1>1. /\ Typed /\ reg \in [Runs -> RegRow] /\ exec \in [Executors -> ExecState] /\ exec[x] \in ExecState
      /\ ExecOK(x)
  BY Zenon DEF RegInv, Typed
<1>2. r \in Runs /\ n > 0 /\ reg[r].seq > 0 /\ First(r) /\ Backed(r)
  BY <1>0, <1>1, Zenon DEF ExecOK, RegisteringPcs, Registering, Holding
<1>3. reg[r] \in RegRow /\ n \in Nat
  BY <1>1, <1>2, Zenon DEF ExecState
<1>4. PICK receipt \in Receipts, phase \in {"EXTERNAL_COMMIT_STARTED", "PREPARED"} :
          PersistReceipt(x, phase, receipt)
  <2>1. CatalogReceipt(r, n) \in Receipts /\ NoOpReceipt(r, n) \in Receipts
    BY <1>2, <1>3, Zenon DEF CatalogReceipt, NoOpReceipt, Receipts
  <2> QED
    BY <2>1, Zenon DEF PersistCatalogReceipt, PersistCatalogNoOpReceipt
<1>5. CASE Fail(x, "untyped") /\ UNCHANGED reg
  <2>1. Moves(x)
    BY <1>0, <1>5, FailMoves, Zenon DEF RegisteringPcs, Registering, Errs
  <2> QED
    BY <1>0, <1>5, <2>1, MovesStep, Zenon DEF others
<1>6. CASE /\ InPhase(r, n, phase)
           /\ reg' = [reg EXCEPT ![r].receipt = receipt]
           /\ exec' = [exec EXCEPT ![x].pc = "writing", ![x].receipt = receipt]
  <2> DEFINE row == [reg[r] EXCEPT !.receipt = receipt]
             e == [exec[x] EXCEPT !.pc = "writing", !.receipt = receipt]
  <2>1. reg' = [reg EXCEPT ![r] = row] /\ row \in RegRow
    BY <1>1, <1>3, <1>6, Zenon DEF RegRow
  <2>2. row.seq = reg[r].seq /\ row.status = "REGISTERING"
    BY <1>3, <1>6, Zenon DEF RegRow, InPhase, Owns
  <2>3. exec' = [exec EXCEPT ![x] = e] /\ e \in ExecState
    BY <1>1, <1>6, Zenon DEF ExecState, Pcs
  <2>4. e.pc = "writing" /\ e.run = r /\ e.n = n /\ e.part = exec[x].part /\ e.marked = exec[x].marked
    BY <1>1, Zenon DEF ExecState
  <2>5. reg[r].status = "REGISTERING"
    BY <1>6, Zenon DEF InPhase, Owns
  <2> HIDE DEF row, e
  <2>6. exec' \in [Executors -> ExecState] /\ exec'[x] = e /\ \A y \in Executors \ {x} : exec'[y] = exec[y]
    BY <1>1, <2>3, Zenon
  <2>7. /\ reg'[r].seq = reg[r].seq /\ \A q \in Runs \ {r} : reg'[q] = reg[q]
        /\ reg'[r].status = reg[r].status
    BY <1>1, <1>2, <2>1, <2>2, <2>5, Zenon
  <2>8. /\ exec'[x].run = r /\ exec'[x].n = n /\ exec'[x].pc = "writing"
        /\ exec'[x].part = exec[x].part /\ exec'[x].marked = exec[x].marked
    BY <2>4, <2>6, Zenon
  <2>9. /\ First(exec[x].run)' /\ Backed(exec[x].run)'
        /\ exec'[x].marked => Referenced(exec[x].run)'
        /\ PartBacked(exec[x].part)'
    <3>1. First(exec[x].run)'
      BY <1>2, <2>7, <2>8, Zenon DEF First
    <3>2. Backed(exec[x].run)'
      BY <1>0, <1>2, <2>8, Zenon DEF Backed, Referenced
    <3>3. exec'[x].marked => Referenced(exec[x].run)'
      BY <1>0, <1>1, <2>8, Zenon DEF ExecOK, Referenced
    <3>4. PartBacked(exec[x].part)'
      BY <1>0, <1>1, <2>8, Zenon DEF ExecOK, PartBacked, Referenced
    <3> QED
      BY <3>1, <3>2, <3>3, <3>4, Zenon
  <2>10. ExecOK(x)'
    BY <1>2, <2>7, <2>8, <2>9, Zenon DEF ExecOK
  <2>11. \A y \in Executors : exec'[y] = exec[y] \/ ExecOK(y)'
    BY <2>6, <2>10, Zenon
  <2> QED
    BY <1>0, <1>2, <2>1, <2>2, <2>5, <2>6, <2>11, RowWritten, Zenon
<1> QED
  BY <1>4, <1>5, <1>6, Zenon DEF PersistReceipt

LEMMA AttemptOverOK ==
    ASSUME NEW row \in RegRow, NEW st \in Statuses \ {"REGISTERED"}
    PROVE  /\ AttemptOver(row, st) \in RegRow
           /\ AttemptOver(row, st).seq = row.seq /\ AttemptOver(row, st).receipt = row.receipt
           /\ AttemptOver(row, st).status = st
BY Zenon DEF AttemptOver, RegRow, RecStatuses

\* An attempt or an observation ends in a row that is not REGISTERED: the receipt
\* stays, or is backed.
LEMMA RowEnds ==
    ASSUME RegInv, NEW r \in Runs, NEW row \in RegRow, reg[r].seq > 0,
           reg[r].status # "REGISTERED", reg' = [reg EXCEPT ![r] = row],
           row.seq = reg[r].seq, row.status # "REGISTERED",
           row.receipt = reg[r].receipt \/ Backed(r),
           UNCHANGED <<run, part, lastRun, cat, sent, ice>>,
           UNCHANGED exec \/ \E x \in Executors : Release(x)
    PROVE  RegInv'
<1>1. exec' \in [Executors -> ExecState] /\ \A y \in Executors : exec'[y] = exec[y] \/ ExecOK(y)'
  <2>1. CASE UNCHANGED exec
    BY <2>1, Zenon DEF RegInv, Typed
  <2> QED
    BY <2>1, RowReleased, Zenon
<1> QED
  BY <1>1, RowWritten, Zenon

LEMMA StatusesAfter ==
    /\ \A phase, n, f : StatusAfterFailure(phase, n, f) \in Statuses \ {"REGISTERED"}
    /\ \A phase, count : StatusAfterExpiry(phase, count) \in Statuses \ {"REGISTERED"}
<1>1. \A phase, n, f : StatusAfterFailure(phase, n, f) \in {"RETRY_REQUIRED", "FAILED", "RECONCILING"}
  BY Zenon DEF StatusAfterFailure
<1>2. \A phase, count : StatusAfterExpiry(phase, count) \in {"RETRY_REQUIRED", "FAILED", "RECONCILING"}
  BY Zenon DEF StatusAfterExpiry
<1> QED
  BY <1>1, <1>2, Zenon DEF Statuses

\* An attempt completes, fails or is expired, and a request of an operator.
LEMMA AttemptEndStep ==
    ASSUME RegInv,
           \/ \E x \in Executors : CompleteRegistration(x) \/ FailRegistrationAttempt(x)
           \/ \E r \in Runs : ExpireRegistrationAttempts(r) \/ CancelRegistration(r)
    PROVE  RegInv'
<1>0. UNCHANGED <<run, part, lastRun, cat, sent, ice>>
  BY Zenon DEF CompleteRegistration, FailRegistrationAttempt, ExpireRegistrationAttempts, CancelRegistration,
         dataset, external
<1>1. Typed /\ reg \in [Runs -> RegRow] /\ exec \in [Executors -> ExecState]
  BY Zenon DEF RegInv, Typed
<1>2. ASSUME NEW r \in Runs, reg[r].current # 0 PROVE reg[r].status # "REGISTERED"
  BY <1>2, Zenon DEF RegInv, RegOK
<1>3. ASSUME NEW r \in Runs, NEW st \in Statuses \ {"REGISTERED"},
             reg[r].status \notin {"NONE", "REGISTERED"} \/ reg[r].current # 0,
             \/ reg' = [reg EXCEPT ![r] = AttemptOver(@, st)]
             \/ reg' = [reg EXCEPT ![r].status = st],
             UNCHANGED exec \/ \E x \in Executors : Release(x)
      PROVE  RegInv'
  <2>1. reg[r] \in RegRow /\ reg[r].seq > 0 /\ reg[r].status # "REGISTERED"
    BY <1>2, <1>3, RowExists, Zenon
  <2>2. CASE reg' = [reg EXCEPT ![r] = AttemptOver(reg[r], st)]
    <3> DEFINE row == AttemptOver(reg[r], st)
    <3>1. /\ row \in RegRow /\ row.seq = reg[r].seq /\ row.receipt = reg[r].receipt /\ row.status = st
          /\ reg' = [reg EXCEPT ![r] = row]
      BY <2>1, <2>2, AttemptOverOK, Zenon
    <3> HIDE DEF row
    <3> QED
      BY <1>0, <1>3, <2>1, <3>1, RowEnds, Zenon
  <2>3. CASE reg' = [reg EXCEPT ![r].status = st]
    <3> DEFINE row == [reg[r] EXCEPT !.status = st]
    <3>1. reg' = [reg EXCEPT ![r] = row] /\ row \in RegRow
      BY <1>1, <2>1, <2>3, Zenon DEF RegRow
    <3>2. row.seq = reg[r].seq /\ row.receipt = reg[r].receipt /\ row.status = st
      BY <2>1, Zenon DEF RegRow
    <3> HIDE DEF row
    <3> QED
      BY <1>0, <1>3, <2>1, <3>1, <3>2, RowEnds, Zenon
  <2> QED
    BY <1>1, <1>3, <2>2, <2>3, Zenon
<1>4. ASSUME NEW x \in Executors, CompleteRegistration(x) PROVE RegInv'
  <2> DEFINE r == exec[x].run
             row == [reg[r] EXCEPT !.status = "REGISTERED", !.current = 0]
  <2>1. ExecOK(x) /\ exec[x].pc = "done" /\ Release(x)
    BY <1>4, Zenon DEF RegInv, CompleteRegistration
  <2>2. r \in Runs /\ reg[r].seq > 0 /\ Backed(r)
    BY <2>1, Zenon DEF ExecOK, Holding
  <2>3. CASE UNCHANGED reg
    BY <1>0, <2>1, <2>3, ReleaseStep, Zenon DEF others
  <2>4. CASE reg' = [reg EXCEPT ![r].status = "REGISTERED", ![r].current = 0]
    <3>1. reg[r] \in RegRow
      BY <1>1, <2>2, Zenon
    <3>2. reg' = [reg EXCEPT ![r] = row] /\ row \in RegRow
      BY <1>1, <2>4, <3>1, Zenon DEF RegRow, Statuses
    <3>3. /\ row.seq = reg[r].seq /\ row.receipt = reg[r].receipt /\ row.status = "REGISTERED"
          /\ row.current = 0
      BY <3>1, Zenon DEF RegRow
    <3> HIDE DEF row
    <3> QED
      BY <1>0, <2>1, <2>2, <3>2, <3>3, RowReleased, RowWritten, Zenon
  <2> QED
    BY <1>4, <2>3, <2>4, Zenon DEF CompleteRegistration
<1>5. ASSUME NEW x \in Executors, FailRegistrationAttempt(x) PROVE RegInv'
  <2> DEFINE r == exec[x].run
             st == StatusAfterFailure(att[r][exec[x].n].phase, exec[x].n,
                                      ClassifyFailure(exec[x].err, exec[x].ext))
  <2>1. ExecOK(x) /\ exec[x].pc = "failed" /\ Release(x) /\ exec[x] \in ExecState
    BY <1>1, <1>5, Zenon DEF RegInv, FailRegistrationAttempt
  <2>2. r \in Runs /\ exec[x].n # 0
    BY <2>1, AtWork, Zenon
  <2>3. CASE UNCHANGED reg
    BY <1>0, <2>1, <2>3, ReleaseStep, Zenon DEF others
  <2>4. CASE reg[r].current = exec[x].n /\ reg' = [reg EXCEPT ![r] = AttemptOver(@, st)]
    <3>1. st \in Statuses \ {"REGISTERED"}
      BY StatusesAfter, Zenon
    <3> HIDE DEF st
    <3> QED
      BY <1>3, <2>1, <2>2, <2>4, <3>1, Zenon
  <2> QED
    BY <1>5, <2>3, <2>4, Zenon DEF FailRegistrationAttempt
<1>6. ASSUME NEW r \in Runs, ExpireRegistrationAttempts(r) PROVE RegInv'
  <2> DEFINE st == StatusAfterExpiry(att[r][reg[r].current].phase, reg[r].count)
  <2>1. reg[r].current # 0 /\ reg' = [reg EXCEPT ![r] = AttemptOver(@, st)] /\ UNCHANGED exec
    BY <1>6, Zenon DEF ExpireRegistrationAttempts
  <2>2. st \in Statuses \ {"REGISTERED"}
    BY StatusesAfter, Zenon
  <2> HIDE DEF st
  <2> QED
    BY <1>3, <2>1, <2>2, Zenon
<1>7. ASSUME NEW r \in Runs, CancelRegistration(r) PROVE RegInv'
  <2>1. "CANCELED" \in Statuses \ {"REGISTERED"} /\ "RECONCILING" \in Statuses \ {"REGISTERED"}
    BY Zenon DEF Statuses
  <2>2. reg[r].status \notin {"NONE", "REGISTERED"} /\ UNCHANGED exec
    BY <1>7, Zenon DEF CancelRegistration, Queued, InPhase, Owns
  <2>3. \/ reg' = [reg EXCEPT ![r].status = "CANCELED"]
        \/ reg' = [reg EXCEPT ![r] = AttemptOver(@, "CANCELED")]
        \/ reg' = [reg EXCEPT ![r] = AttemptOver(@, "RECONCILING")]
    BY <1>7, Zenon DEF CancelRegistration
  <2> QED
    BY <1>3, <2>1, <2>2, <2>3, Zenon
<1> QED
  BY <1>4, <1>5, <1>6, <1>7, Zenon

LEMMA UnobservedOK ==
    ASSUME NEW r \in Runs, NEW n, reg[r] \in RegRow
    PROVE  /\ Unobserved(r, n) \in RegRow
           /\ Unobserved(r, n).seq = reg[r].seq /\ Unobserved(r, n).receipt = reg[r].receipt
           /\ Unobserved(r, n).status = reg[r].status /\ Unobserved(r, n).current = reg[r].current
BY Zenon DEF Unobserved, RegRow, RecStatuses

\* The only decision that leaves a receipt is the one that follows a mark seen in
\* the table.
LEMMA DecidedOK ==
    ASSUME NEW r \in Runs, NEW n \in Nat, NEW x \in Executors, reg[r] \in RegRow,
           reg[r].status = "RECONCILING"
    PROVE  /\ Decided(r, n, Decision(x)) \in RegRow
           /\ Decided(r, n, Decision(x)).seq = reg[r].seq
           /\ Decided(r, n, Decision(x)).status # "REGISTERED"
           /\ Decided(r, n, Decision(x)).receipt = reg[r].receipt \/ exec[x].marked
<1> DEFINE over == [reg[r] EXCEPT !.recCurrent = 0]
           d == Decision(x)
<1>1. over \in RegRow /\ over.seq = reg[r].seq /\ over.receipt = reg[r].receipt /\ over.status = "RECONCILING"
  BY Zenon DEF RegRow
<1>2. d = "EXACTLY_COMMITTED" => exec[x].marked
  BY Zenon DEF Decision, DecideReconciliation
<1>3. ReconciliationReceipt(r, n) \in Receipts /\ reg[r].cycles + 1 \in Nat
  BY DEF ReconciliationReceipt, Receipts, RegRow
<1> HIDE DEF d, over
<1>4. CASE d = "EXACTLY_COMMITTED"
  <2>1. Decided(r, n, d) = [over EXCEPT !.status = "RETRY_REQUIRED", !.recStatus = "SUCCEEDED",
                                        !.receipt = ReconciliationReceipt(r, n)]
    BY <1>4, Zenon DEF Decided, over
  <2> QED
    BY <1>1, <1>2, <1>3, <1>4, <2>1, ZenonT(60) DEF RegRow, Statuses, RecStatuses, d
<1>5. CASE d \in {"DEFINITELY_NOT_COMMITTED", "TABLE_NOT_FOUND"}
  <2> DEFINE k == reg[r].cycles + 1
             st == IF k > MaxAmbiguities THEN "QUARANTINED" ELSE "RETRY_REQUIRED"
             rst == IF k > MaxAmbiguities THEN "FAILED" ELSE "SUCCEEDED"
  <2>1. Decided(r, n, d) = [over EXCEPT !.cycles = k, !.status = st, !.recStatus = rst]
    BY <1>5, Zenon DEF Decided, over
  <2>2. k \in Nat /\ st \in Statuses \ {"REGISTERED"} /\ rst \in RecStatuses
    BY <1>3, Zenon DEF Statuses, RecStatuses
  <2> HIDE DEF k, st, rst
  <2>3. [over EXCEPT !.cycles = k, !.status = st, !.recStatus = rst] \in RegRow
    BY <1>1, <2>2, Zenon DEF RegRow
  <2>4. /\ Decided(r, n, d).seq = over.seq /\ Decided(r, n, d).status = st
        /\ Decided(r, n, d).receipt = over.receipt
    BY <1>1, <2>1, Zenon DEF RegRow
  <2> QED
    BY <1>1, <2>1, <2>2, <2>3, <2>4, Zenon DEF d
<1>6. CASE d \in {"PARTIALLY_COMMITTED", "CONFLICTING_COMMIT"}
  <2>1. Decided(r, n, d) = [over EXCEPT !.status = "QUARANTINED", !.recStatus = "FAILED"]
    BY <1>6, Zenon DEF Decided, over
  <2> QED
    BY <1>1, <2>1, Zenon DEF RegRow, Statuses, RecStatuses, d
<1>7. CASE d \notin {"EXACTLY_COMMITTED", "DEFINITELY_NOT_COMMITTED", "TABLE_NOT_FOUND",
                     "PARTIALLY_COMMITTED", "CONFLICTING_COMMIT"}
  <2>1. Decided(r, n, d) = [over EXCEPT !.recStatus = "FAILED"]
    BY <1>7, Zenon DEF Decided, over
  <2> QED
    BY <1>1, <2>1, Zenon DEF RegRow, RecStatuses, d
<1> QED
  BY <1>4, <1>5, <1>6, <1>7, Zenon

\* An observation ends, and the requests of an operator about a row.
LEMMA ObservationEndStep ==
    ASSUME RegInv,
           \/ \E x \in Executors : ApplyReconciliationDecision(x) \/ RetryReconciliationObservation(x)
           \/ \E r \in Runs : \/ ExpireReconciliationAttempts(r) \/ RequeueRegistrationManual(r)
                              \/ CancelReconciliation(r)
    PROVE  RegInv'
<1>0. UNCHANGED <<run, part, lastRun, cat, sent, ice>>
  BY Zenon DEF ApplyReconciliationDecision, RetryReconciliationObservation, ExpireReconciliationAttempts,
         RequeueRegistrationManual, CancelReconciliation, dataset, external
<1>1. Typed /\ reg \in [Runs -> RegRow] /\ exec \in [Executors -> ExecState]
  BY Zenon DEF RegInv, Typed
<1>2. ASSUME NEW x \in Executors, ApplyReconciliationDecision(x) PROVE RegInv'
  <2> DEFINE r == exec[x].run
             n == exec[x].n
             row == Decided(r, n, Decision(x))
  <2>1. ExecOK(x) /\ exec[x].pc = "record" /\ Release(x) /\ exec[x] \in ExecState
    BY <1>1, <1>2, Zenon DEF RegInv, ApplyReconciliationDecision
  <2>2. r \in Runs /\ n \in Nat /\ reg[r].seq > 0 /\ reg[r] \in RegRow /\ RegOK(r)
    BY <1>1, <2>1, Zenon DEF ExecOK, ExecState, RegInv
  <2>3. CASE UNCHANGED reg
    BY <1>0, <2>1, <2>3, ReleaseStep, Zenon DEF others
  <2>4. CASE Inspects(r, n) /\ reg' = [reg EXCEPT ![r] = row]
    <3>1. reg[r].status = "RECONCILING"
      BY <2>4, Zenon DEF Inspects
    <3>2. /\ row \in RegRow /\ row.seq = reg[r].seq /\ row.status # "REGISTERED"
          /\ row.receipt = reg[r].receipt \/ exec[x].marked
      BY <2>2, <3>1, DecidedOK, Zenon
    <3>3. exec[x].marked => Backed(r)
      <4>1. exec[x].marked => Referenced(r)
        BY <2>1, Zenon DEF ExecOK
      <4>2. Referenced(r) => r \notin EmptyRuns
        BY <2>2, Zenon DEF RegInv, TableInOrder
      <4> QED
        BY <4>1, <4>2, Zenon DEF Backed
    <3> HIDE DEF row
    <3> QED
      BY <1>0, <2>1, <2>2, <2>4, <3>1, <3>2, <3>3, RowEnds, Zenon
  <2> QED
    BY <1>2, <2>3, <2>4, Zenon DEF ApplyReconciliationDecision
<1>3. ASSUME NEW x \in Executors, RetryReconciliationObservation(x) PROVE RegInv'
  <2> DEFINE r == exec[x].run
             n == exec[x].n
             row == Unobserved(r, n)
  <2>1. ExecOK(x) /\ exec[x].pc = "unseen" /\ Release(x) /\ exec[x] \in ExecState
    BY <1>1, <1>3, Zenon DEF RegInv, RetryReconciliationObservation
  <2>2. r \in Runs /\ reg[r].seq > 0 /\ reg[r] \in RegRow /\ RegOK(r)
    BY <1>1, <2>1, Zenon DEF ExecOK, ExecState, RegInv
  <2>3. CASE UNCHANGED reg
    BY <1>0, <2>1, <2>3, ReleaseStep, Zenon DEF others
  <2>4. CASE reg' = [reg EXCEPT ![r] = row]
    <3>1. /\ row \in RegRow /\ row.seq = reg[r].seq /\ row.status = reg[r].status
          /\ row.receipt = reg[r].receipt /\ row.current = reg[r].current
      BY <2>2, UnobservedOK, Zenon
    <3>2. row.status = "REGISTERED" => Backed(r) /\ row.current = 0
      BY <2>2, <3>1, Zenon DEF RegOK
    <3> HIDE DEF row
    <3> QED
      BY <1>0, <2>1, <2>2, <2>4, <3>1, <3>2, RowReleased, RowWritten, Zenon
  <2>5. [reg EXCEPT ![r] = reg[r]] = reg
    BY <1>1, Zenon
  <2> QED
    BY <1>3, <2>3, <2>4, <2>5, Zenon DEF RetryReconciliationObservation
<1>4. ASSUME NEW r \in Runs, ExpireReconciliationAttempts(r) PROVE RegInv'
  <2> DEFINE row == Unobserved(r, reg[r].recCurrent)
  <2>1. reg[r].status = "RECONCILING" /\ reg' = [reg EXCEPT ![r] = row] /\ UNCHANGED exec
    BY <1>4, Zenon DEF ExpireReconciliationAttempts, Inspects
  <2>2. reg[r].seq > 0 /\ reg[r] \in RegRow
    BY <2>1, RowExists, Zenon
  <2>3. row \in RegRow /\ row.seq = reg[r].seq /\ row.status = reg[r].status /\ row.receipt = reg[r].receipt
    BY <2>2, UnobservedOK, Zenon
  <2> HIDE DEF row
  <2> QED
    BY <1>0, <2>1, <2>2, <2>3, RowEnds, Zenon
<1>5. ASSUME NEW r \in Runs, RequeueRegistrationManual(r) PROVE RegInv'
  <2>1. reg[r].status \in {"FAILED", "CANCELED"} /\ UNCHANGED exec
    BY <1>5, Zenon DEF RequeueRegistrationManual
  <2>2. reg[r].seq > 0 /\ reg[r] \in RegRow
    BY <2>1, RowExists, Zenon
  <2>3. reg[r].budget + 1 \in Nat
    <3>1. reg[r].budget \in Nat
      BY <2>2, Zenon DEF RegRow
    <3> QED
      BY <3>1, OneMore, Zenon
  <2> DEFINE row == [reg[r] EXCEPT !.status = "PENDING", !.current = 0, !.budget = reg[r].budget + 1]
  <2>4. reg' = [reg EXCEPT ![r] = row] /\ row \in RegRow
    BY <1>1, <1>5, <2>2, <2>3, Zenon DEF RequeueRegistrationManual, RegRow, Statuses
  <2>5. row.seq = reg[r].seq /\ row.status = "PENDING" /\ row.receipt = reg[r].receipt
    BY <2>2, Zenon DEF RegRow
  <2> HIDE DEF row
  <2> QED
    BY <1>0, <2>1, <2>2, <2>4, <2>5, RowEnds, Zenon
<1>6. ASSUME NEW r \in Runs, CancelReconciliation(r) PROVE RegInv'
  <2> DEFINE row == [reg[r] EXCEPT !.recStatus = "CANCELED", !.recCurrent = 0]
  <2>1. reg[r].status = "RECONCILING" /\ UNCHANGED exec
    BY <1>6, Zenon DEF CancelReconciliation
  <2>2. reg[r].seq > 0 /\ reg[r] \in RegRow
    BY <2>1, RowExists, Zenon
  <2>3. reg' = [reg EXCEPT ![r] = row] /\ row \in RegRow
    BY <1>1, <1>6, <2>2, Zenon DEF CancelReconciliation, RegRow, RecStatuses
  <2>4. row.seq = reg[r].seq /\ row.status = reg[r].status /\ row.receipt = reg[r].receipt
    BY <2>2, Zenon DEF RegRow
  <2> HIDE DEF row
  <2> QED
    BY <1>0, <2>1, <2>2, <2>3, <2>4, RowEnds, Zenon
<1> QED
  BY <1>2, <1>3, <1>4, <1>5, <1>6, Zenon

-----------------------------------------------------------------------------
(* Steps of the catalog and of the commits on their way.                   *)

\* Executor x goes on with its attempt while the table grows.
Goes(x) ==
    /\ exec'[x].run = exec[x].run /\ exec'[x].n = exec[x].n /\ exec'[x].receipt = exec[x].receipt
    /\ exec'[x].marked = exec[x].marked /\ exec'[x].part = exec[x].part
    /\ exec[x].pc \in RegisteringPcs /\ exec'[x].pc \in RegisteringPcs
    /\ exec'[x].pc \in Holding => Backed(exec[x].run)'

LEMMA TableStep ==
    ASSUME RegInv, UNCHANGED <<run, part, lastRun, reg, ice>>, Typed', TableGrows,
           CommitsOnTheWay', CommittedOnce', CatalogInOrder',
           \A x \in Executors : exec'[x] = exec[x] \/ Goes(x),
           \A r \in Runs : Referenced(r)' =>
               cat'.exists /\ r \notin EmptyRuns /\ reg[r].seq > 0 /\ First(r)
    PROVE  RegInv'
<1>1. Typed /\ RowsGrow
  <2>1. Typed /\ \A r \in Runs : reg[r].seq \in Nat
    BY Zenon DEF RegInv, Typed, RegRow
  <2> QED
    BY <2>1 DEF RowsGrow
<1>2. ASSUME NEW x \in Executors PROVE ExecOK(x)'
  <2>1. ExecOK(x) /\ exec[x] \in ExecState
    BY <1>1, Zenon DEF RegInv, Typed
  <2>2. CASE exec'[x] = exec[x]
    BY <1>1, <2>1, <2>2, ExecStays, Zenon
  <2>3. CASE Goes(x)
    <3> DEFINE r == exec[x].run
    <3>1. exec[x].pc # "idle" /\ exec'[x].pc # "idle"
      BY <2>3, Zenon DEF Goes, RegisteringPcs, Registering
    <3>2. r \in Runs /\ exec[x].n > 0 /\ reg[r].seq > 0 /\ First(r)
      BY <2>1, <2>3, <3>1, Zenon DEF ExecOK, Goes
    <3>3. exec'[x].run \in Runs /\ exec'[x].n > 0 /\ reg'[exec'[x].run].seq > 0
      BY <2>3, <3>2, Zenon DEF Goes
    <3>4. First(exec[x].run)'
      BY <2>3, <3>2, Zenon DEF First, Goes
    <3>5. Backed(r) => Backed(exec[x].run)'
      <4>1. Backed(r) => IF r \in EmptyRuns THEN cat'.exists ELSE \E i \in DOMAIN cat'.snaps : cat'.snaps[i] = r
        BY <3>2, Zenon DEF Backed, TableGrows, Referenced
      <4> QED
        BY <2>3, <4>1, Zenon DEF Backed, Referenced, Goes
    <3>6. Referenced(r) => Referenced(exec[x].run)'
      <4>1. Referenced(r) => \E i \in DOMAIN cat'.snaps : cat'.snaps[i] = r
        BY <3>2, Zenon DEF TableGrows, Referenced
      <4> QED
        BY <2>3, <4>1, Zenon DEF Referenced, Goes
    <3>7. PartBacked(exec[x].part)'
      <4>1. exec[x].part \in Nat /\ PartBacked(exec[x].part)
        BY <2>1, Zenon DEF ExecOK, ExecState
      <4>2. exec'[x].part = 0 \/ \E s \in Runs \ EmptyRuns : part'[s] = exec'[x].part /\ Referenced(s)'
        BY <2>3, <4>1, Zenon DEF PartBacked, Goes, TableGrows
      <4> QED
        BY <4>2, Zenon DEF PartBacked
    <3>8. exec'[x].pc \in Holding => Backed(exec[x].run)'
      BY <2>3, Zenon DEF Goes
    <3>9. exec'[x].receipt # NoReceipt => Backed(exec[x].run)'
      BY <2>1, <2>3, <3>5, Zenon DEF ExecOK, Goes
    <3>10. exec'[x].marked => Referenced(exec[x].run)'
      BY <2>1, <2>3, <3>6, Zenon DEF ExecOK, Goes
    <3> QED
      BY <3>1, <3>3, <3>4, <3>7, <3>8, <3>9, <3>10, Zenon DEF ExecOK
  <2> QED
    BY <2>2, <2>3, Zenon
<1>3. \A r \in Runs : RegOK(r)'
  BY RowStays, Zenon DEF RegInv
<1>4. PartsInOrder'
  BY Zenon DEF RegInv, PartsInOrder, Numbered
<1>5. SeqsInOrder'
  BY Zenon DEF RegInv, SeqsInOrder, Sequenced
<1>6. TableInOrder'
  BY Zenon DEF TableInOrder, First
<1>7. PartBacked(ice.part)'
  BY <1>1, PartStays, Zenon DEF RegInv, Typed
<1> QED
  BY <1>2, <1>3, <1>4, <1>5, <1>6, <1>7, Zenon DEF RegInv

\* The table is created, whether or not its creator learns of it.
LEMMA CreateStep ==
    ASSUME RegInv, NEW x \in Executors, createRESTGoTable(x)
    PROVE  RegInv'
<1>1. /\ exec[x].pc = "engine" /\ ~cat.exists /\ UNCHANGED <<run, part, lastRun, reg, sent, ice>>
      /\ exec[x].pc \in RegisteringPcs
  BY Zenon DEF createRESTGoTable, dataset, RegisteringPcs, Registering
<1>2. Typed /\ exec[x] \in ExecState /\ exec \in [Executors -> ExecState] /\ ExecOK(x)
  BY Zenon DEF RegInv, Typed
<1>3. CASE UNCHANGED cat
  <2>1. Fail(x, "net") \/ UNCHANGED exec
    <3>1. CASE UNCHANGED exec
      BY <3>1, Zenon
    <3>2. CASE exec' # exec
      <4>1. cat' = [cat EXCEPT !.exists = TRUE, !.ver = @ + 1] => FALSE
        BY <1>1, <1>2, <1>3, Zenon DEF Typed
      <4> QED
        BY <4>1, Zenon DEF createRESTGoTable
    <3> QED
      BY <3>1, <3>2, Zenon
  <2>2. CASE Fail(x, "net")
    BY <1>1, <1>3, <2>2, FailMoves, MovesStep, Zenon DEF others, Errs
  <2>3. CASE UNCHANGED exec
    <3>1. PartBacked(ice.part) /\ Typed
      BY Zenon DEF RegInv
    <3> QED
      BY <1>1, <1>3, <2>3, <3>1, RowStep, Zenon DEF Typed
  <2> QED
    BY <2>1, <2>2, <2>3, Zenon
<1>4. CASE cat' = [cat EXCEPT !.exists = TRUE, !.ver = cat.ver + 1]
  <2>1. \/ exec[x].run \in EmptyRuns /\ Goto(x, "receipt")
        \/ Fail(x, "net") \/ UNCHANGED exec
    BY Zenon DEF createRESTGoTable
  <2>2. exec' \in [Executors -> ExecState] /\ \A y \in Executors : exec'[y] = exec[y] \/ Goes(y)
    <3>1. CASE exec[x].run \in EmptyRuns /\ Goto(x, "receipt")
      <4>1. exec' = [exec EXCEPT ![x] = [exec[x] EXCEPT !.pc = "receipt"]]
        BY <1>2, <3>1, Zenon DEF Goto
      <4>2. [exec[x] EXCEPT !.pc = "receipt"] \in ExecState
        BY <1>2, Zenon DEF ExecState, Pcs
      <4>3. exec'[x].run \in EmptyRuns /\ cat'.exists
        BY <1>2, <1>4, <3>1, <4>1, Zenon DEF ExecState, Typed
      <4>4. Backed(exec[x].run)'
        BY <4>3, Zenon DEF Backed
      <4> QED
        BY <1>1, <1>2, <4>1, <4>2, <4>4, Zenon DEF Goes, ExecState, RegisteringPcs, Registering
    <3>2. CASE Fail(x, "net")
      <4>1. Moves(x) /\ exec' = [exec EXCEPT ![x] = [exec[x] EXCEPT !.pc = "failed", !.err = "net"]]
        BY <1>1, <1>2, <3>2, FailMoves, Zenon DEF Fail, Errs
      <4> QED
        BY <1>1, <1>2, <4>1, Zenon DEF Goes, Moves, ExecState, RegisteringPcs, Registering, Holding
    <3>3. CASE UNCHANGED exec
      BY <1>2, <3>3, Zenon
    <3> QED
      BY <2>1, <3>1, <3>2, <3>3, Zenon
  <2>3. cat' \in [exists : BOOLEAN, ver : Nat, snaps : Seq(Runs)] /\ cat'.snaps = cat.snaps
    <3>1. cat \in [exists : BOOLEAN, ver : Nat, snaps : Seq(Runs)]
      BY <1>2, Zenon DEF Typed
    <3>2. cat.ver + 1 \in Nat
      BY <3>1
    <3> QED
      BY <1>4, <3>1, <3>2, Zenon
  <2>4. Typed'
    BY <1>1, <1>2, <2>2, <2>3, Zenon DEF Typed
  <2>5. \A r \in Runs : Referenced(r)' <=> Referenced(r)
    BY <2>3, Zenon DEF Referenced
  <2>6. TableGrows
    BY <1>1, <2>5, Zenon DEF TableGrows
  <2>7. sent = {} /\ \A r \in Runs : ~Referenced(r)
    BY <1>1, Zenon DEF RegInv, CommitsOnTheWay, TableInOrder
  <2>8. CommitsOnTheWay'
    BY <1>1, <2>7, Zenon DEF CommitsOnTheWay
  <2>9. CommittedOnce' /\ CatalogInOrder'
    BY <1>1, <2>3, Zenon DEF RegInv, TableInOrder, CommittedOnce, CatalogInOrder
  <2> QED
    BY <1>1, <2>2, <2>4, <2>5, <2>6, <2>7, <2>8, <2>9, TableStep, Zenon
<1> QED
  BY <1>3, <1>4, Zenon DEF createRESTGoTable

\* A commit is sent only for files the table lacks, by an attempt at the head.
LEMMA SendStep ==
    ASSUME RegInv, NEW x \in Executors, commitRESTGoFiles(x)
    PROVE  RegInv'
<1> DEFINE r == exec[x].run
           q == [run |-> r, n |-> exec[x].n, base |-> cat.ver]
<1>1. /\ exec[x].pc = "engine" /\ cat.exists /\ UNCHANGED <<run, part, lastRun, reg, cat, ice>>
      /\ exec[x].pc \in RegisteringPcs
  BY Zenon DEF commitRESTGoFiles, dataset, RegisteringPcs, Registering
<1>2. Typed /\ exec[x] \in ExecState /\ exec \in [Executors -> ExecState] /\ ExecOK(x)
  BY Zenon DEF RegInv, Typed
<1>3. ASSUME UNCHANGED sent, NEW err \in Errs, Fail(x, err) PROVE RegInv'
  BY <1>1, <1>3, FailMoves, MovesStep, Zenon DEF others
<1>4. ASSUME r \notin EmptyRuns, ~Referenced(r), sent' = sent \cup {q}, Goto(x, "commit") PROVE RegInv'
  <2>1. r \in Runs /\ reg[r].seq > 0 /\ First(r)
    BY <1>1, <1>2, Zenon DEF ExecOK
  <2>2. exec' = [exec EXCEPT ![x] = [exec[x] EXCEPT !.pc = "commit"]]
    BY <1>2, <1>4, Zenon DEF Goto
  <2>3. [exec[x] EXCEPT !.pc = "commit"] \in ExecState
    BY <1>2, Zenon DEF ExecState, Pcs
  <2>4. exec' \in [Executors -> ExecState] /\ \A y \in Executors : exec'[y] = exec[y] \/ Goes(y)
    BY <1>1, <1>2, <2>2, <2>3, Zenon DEF Goes, ExecState, RegisteringPcs, Registering, Holding
  <2>5. q \in [run : Runs, n : Nat, base : Nat]
    BY <1>2, <2>1, Zenon DEF ExecState, Typed
  <2>6. Typed'
    BY <1>1, <1>2, <1>4, <2>4, <2>5, Zenon DEF Typed
  <2>7. TableGrows
    BY <1>1, Zenon DEF TableGrows, Referenced
  <2>8. ASSUME NEW p \in sent'
        PROVE  /\ p.run \notin EmptyRuns /\ cat.exists /\ p.base <= cat.ver
               /\ p.base = cat.ver => ~Referenced(p.run)
               /\ reg[p.run].seq > 0 /\ First(p.run)
    <3>1. CASE p \in sent
      BY <3>1, Zenon DEF RegInv, CommitsOnTheWay
    <3>2. CASE p = q
      BY <1>1, <1>2, <1>4, <2>1, <3>2 DEF Typed
    <3> QED
      BY <1>4, <3>1, <3>2, Zenon
  <2>9. CommitsOnTheWay'
    BY <1>1, <2>8, Zenon DEF CommitsOnTheWay, Referenced, First
  <2>10. CommittedOnce' /\ CatalogInOrder'
    BY <1>1, Zenon DEF RegInv, TableInOrder, CommittedOnce, CatalogInOrder
  <2>11. \A s \in Runs : Referenced(s)' => cat'.exists /\ s \notin EmptyRuns /\ reg[s].seq > 0 /\ First(s)
    BY <1>1, Zenon DEF RegInv, TableInOrder, Referenced
  <2> QED
    BY <1>1, <2>4, <2>6, <2>7, <2>9, <2>10, <2>11, TableStep, Zenon
<1> QED
  BY <1>3, <1>4, Zenon DEF commitRESTGoFiles, Errs

\* Executors that wait for the answer to q go on when it comes or is lost.
Answered(q, pc, err) ==
    exec' = [x \in Executors |-> IF ~Awaits(x, q) THEN exec[x]
                                 ELSE [exec[x] EXCEPT !.pc = pc, !.err = err[x]]]

LEMMA AnswerOK ==
    ASSUME RegInv, NEW q \in sent, NEW pc \in {"receipt", "failed"}, NEW err \in [Executors -> Errs],
           Answered(q, pc, err), pc = "receipt" => Referenced(q.run)'
    PROVE  exec' \in [Executors -> ExecState] /\ \A x \in Executors : exec'[x] = exec[x] \/ Goes(x)
<1>1. exec \in [Executors -> ExecState]
  BY Zenon DEF RegInv, Typed
<1>2. ASSUME NEW x \in Executors PROVE [exec[x] EXCEPT !.pc = pc, !.err = err[x]] \in ExecState
  <2>1. exec[x] \in ExecState /\ pc \in Pcs
    BY <1>1, Zenon DEF Pcs
  <2> QED
    BY <2>1, Zenon DEF ExecState
<1>3. exec' \in [Executors -> ExecState]
  BY <1>1, <1>2, Zenon DEF Answered
<1>4. ASSUME NEW x \in Executors, Awaits(x, q) PROVE Goes(x)
  <2>1. exec'[x] = [exec[x] EXCEPT !.pc = pc, !.err = err[x]]
    BY <1>4, Zenon DEF Answered
  <2>2. exec[x].pc = "commit" /\ exec[x].run = q.run /\ exec'[x].run = q.run /\ exec'[x].pc = pc
    BY <1>1, <1>4, <2>1 DEF Awaits, ExecState
  <2>3. pc = "receipt" => Backed(exec[x].run)'
    <3>1. q.run \notin EmptyRuns
      BY Zenon DEF RegInv, CommitsOnTheWay
    <3>2. pc = "receipt" => \E i \in DOMAIN cat'.snaps : cat'.snaps[i] = q.run
      BY Zenon DEF Referenced
    <3> QED
      BY <2>2, <3>1, <3>2, Zenon DEF Backed, Referenced
  <2> QED
    BY <1>1, <2>1, <2>2, <2>3 DEF Goes, ExecState, RegisteringPcs, Registering, Holding
<1> QED
  BY <1>3, <1>4, Zenon DEF Answered

LEMMA DropStep ==
    ASSUME RegInv, NEW q \in sent, sent' = sent \ {q}, UNCHANGED <<run, part, lastRun, reg, cat, ice>>,
           NEW err \in [Executors -> Errs], Answered(q, "failed", err)
    PROVE  RegInv'
<1>1. exec' \in [Executors -> ExecState] /\ \A x \in Executors : exec'[x] = exec[x] \/ Goes(x)
  BY AnswerOK, Zenon
<1>2. Typed'
  BY <1>1, Zenon DEF RegInv, Typed
<1>3. TableGrows
  BY Zenon DEF TableGrows, Referenced
<1>4. CommitsOnTheWay'
  BY Zenon DEF RegInv, CommitsOnTheWay, Referenced, First
<1>5. CommittedOnce' /\ CatalogInOrder'
  BY Zenon DEF RegInv, TableInOrder, CommittedOnce, CatalogInOrder
<1>6. \A s \in Runs : Referenced(s)' => cat'.exists /\ s \notin EmptyRuns /\ reg[s].seq > 0 /\ First(s)
  BY Zenon DEF RegInv, TableInOrder, Referenced
<1> QED
  BY <1>1, <1>2, <1>3, <1>4, <1>5, <1>6, TableStep, Zenon

\* The run of a commit the table can still take comes after all runs in it.
LEMMA TakesItsTurn ==
    ASSUME RegInv, NEW r \in Runs, NEW s \in Runs, r \notin EmptyRuns, ~Referenced(r), Referenced(s),
           reg[r].seq > 0, First(r)
    PROVE  reg[s].seq < reg[r].seq
<1>1. Typed /\ reg[r].seq \in Nat /\ reg[s].seq \in Nat
  BY Zenon DEF RegInv, Typed, RegRow
<1>2. reg[s].seq > 0 /\ First(s)
  BY Zenon DEF RegInv, TableInOrder
<1>3. reg[r].status # "REGISTERED"
  BY Zenon DEF RegInv, RegOK, Backed
<1>4. ~(reg[r].seq \in 1..(reg[s].seq - 1))
  BY <1>2, <1>3, Zenon DEF First
<1>5. reg[r].seq # reg[s].seq
  BY Zenon DEF RegInv, SeqsInOrder
<1> QED
  BY <1>1, <1>2, <1>4, <1>5

LEMMA UpTo ==
    ASSUME NEW k \in Nat \ {0}
    PROVE  1..k = (1..(k - 1)) \cup {k}
OBVIOUS

LEMMA Appended ==
    ASSUME NEW S, NEW s \in Seq(S), NEW e \in S
    PROVE  /\ Append(s, e) \in Seq(S) /\ Len(s) \in Nat
           /\ DOMAIN s = 1..Len(s) /\ DOMAIN Append(s, e) = 1..(Len(s) + 1)
           /\ Append(s, e)[Len(s) + 1] = e
           /\ \A i \in 1..Len(s) : Append(s, e)[i] = s[i] /\ s[i] \in S
OBVIOUS

LEMMA NotLast ==
    ASSUME NEW k \in Nat \ {0}, NEW i \in 1..k, i # k \/ \E j \in 1..k : i < j
    PROVE  i \in 1..(k - 1)
OBVIOUS

\* The catalog applies a commit built on the table as it is.
TakesEffect(q) ==
    /\ q.base = cat.ver
    /\ cat' = [cat EXCEPT !.ver = cat.ver + 1, !.snaps = Append(cat.snaps, q.run)]

LEMMA AppendStep ==
    ASSUME RegInv, NEW q \in sent, sent' = sent \ {q}, UNCHANGED <<run, part, lastRun, reg, ice>>,
           TakesEffect(q), NEW pc \in {"receipt", "failed"}, NEW err \in [Executors -> Errs], Answered(q, pc, err)
    PROVE  RegInv'
<1> DEFINE r == q.run
           k == Len(cat.snaps) + 1
<1>1. /\ Typed /\ cat \in [exists : BOOLEAN, ver : Nat, snaps : Seq(Runs)]
      /\ sent \subseteq [run : Runs, n : Nat, base : Nat]
  BY Zenon DEF RegInv, Typed
<1>2. r \in Runs /\ r \notin EmptyRuns /\ cat.exists /\ ~Referenced(r) /\ reg[r].seq > 0 /\ First(r)
  BY <1>1, Zenon DEF RegInv, CommitsOnTheWay, TakesEffect
<1>3. cat.ver + 1 \in Nat /\ Append(cat.snaps, r) \in Seq(Runs)
  <2>1. cat.ver \in Nat /\ cat.snaps \in Seq(Runs)
    BY <1>1, Zenon
  <2> QED
    BY <1>2, <2>1, Appended
<1>4. /\ cat' \in [exists : BOOLEAN, ver : Nat, snaps : Seq(Runs)]
      /\ cat'.exists = cat.exists /\ cat'.ver = cat.ver + 1 /\ cat'.snaps = Append(cat.snaps, r)
  BY <1>1, <1>3, Zenon DEF TakesEffect
<1>5. /\ DOMAIN cat'.snaps = 1..k /\ DOMAIN cat.snaps = 1..(k - 1) /\ k \in Nat \ {0}
      /\ cat'.snaps[k] = r /\ \A i \in 1..(k - 1) : cat'.snaps[i] = cat.snaps[i] /\ cat.snaps[i] \in Runs
  <2>1. cat.snaps \in Seq(Runs) /\ cat'.snaps = Append(cat.snaps, r)
    BY <1>1, <1>4, Zenon
  <2>2. Len(cat.snaps) \in Nat
    BY <2>1
  <2>3. k \in Nat \ {0} /\ k - 1 = Len(cat.snaps)
    BY <2>2
  <2> HIDE DEF r
  <2> QED
    BY <1>2, <2>1, <2>3, Appended
<1> HIDE DEF k
<1>0. k \in Nat \ {0}
  BY <1>5, Zenon
<1>6. \A s \in Runs : Referenced(s)' <=> Referenced(s) \/ s = r
  <2>1. 1..k = (1..(k - 1)) \cup {k}
    BY <1>0, UpTo, Zenon
  <2> QED
    BY <1>5, <2>1, Zenon DEF Referenced
<1>7. TableGrows
  BY <1>4, <1>6, Zenon DEF TableGrows
<1>8. exec' \in [Executors -> ExecState] /\ \A x \in Executors : exec'[x] = exec[x] \/ Goes(x)
  BY <1>2, <1>6, AnswerOK, Zenon
<1>9. Typed'
  BY <1>1, <1>4, <1>8, Zenon DEF Typed
<1>10. CommitsOnTheWay'
  <2>1. ASSUME NEW p \in sent \ {q}
        PROVE  /\ p.run \notin EmptyRuns /\ cat'.exists /\ p.base <= cat'.ver /\ p.base # cat'.ver
               /\ reg[p.run].seq > 0 /\ First(p.run)
    <3>1. /\ p.run \notin EmptyRuns /\ p.base <= cat.ver /\ reg[p.run].seq > 0 /\ First(p.run)
          /\ p.base \in Nat /\ cat.ver \in Nat
      BY <1>1, Zenon DEF RegInv, CommitsOnTheWay
    <3>2. p.base <= cat.ver + 1 /\ p.base # cat.ver + 1
      BY <3>1
    <3> QED
      BY <1>2, <1>4, <3>1, <3>2, Zenon
  <2> QED
    BY <2>1, Zenon DEF CommitsOnTheWay, First
<1>11. \A i \in 1..(k - 1) : Referenced(cat.snaps[i]) /\ cat.snaps[i] # r
  BY <1>2, <1>5, Zenon DEF Referenced
<1>12. CommittedOnce'
  <2>1. ASSUME NEW i \in 1..k, NEW j \in 1..k, cat'.snaps[i] = cat'.snaps[j] PROVE i = j
    <3>1. CASE i # k /\ j # k
      <4>1. i \in 1..(k - 1) /\ j \in 1..(k - 1)
        BY <1>0, <3>1, NotLast, Zenon
      <4> QED
        BY <1>5, <2>1, <4>1, Zenon DEF RegInv, TableInOrder, CommittedOnce
    <3>2. CASE i = k /\ j # k
      <4>1. j \in 1..(k - 1)
        BY <1>0, <3>2, NotLast, Zenon
      <4> QED
        BY <1>5, <1>11, <2>1, <3>2, <4>1, Zenon
    <3>3. CASE i # k /\ j = k
      <4>1. i \in 1..(k - 1)
        BY <1>0, <3>3, NotLast, Zenon
      <4> QED
        BY <1>5, <1>11, <2>1, <3>3, <4>1, Zenon
    <3> QED
      BY <3>1, <3>2, <3>3, Zenon
  <2> QED
    BY <1>5, <2>1, Zenon DEF CommittedOnce
<1>13. CatalogInOrder'
  <2>1. ASSUME NEW i \in 1..k, NEW j \in 1..k, i < j PROVE reg[cat'.snaps[i]].seq < reg[cat'.snaps[j]].seq
    <3>1. i \in 1..(k - 1)
      BY <1>0, <2>1, NotLast, Zenon
    <3>2. CASE j # k
      <4>1. j \in 1..(k - 1)
        BY <1>0, <3>2, NotLast, Zenon
      <4> QED
        BY <1>5, <2>1, <3>1, <4>1, Zenon DEF RegInv, TableInOrder, CatalogInOrder
    <3>3. CASE j = k
      BY <1>2, <1>5, <1>11, <3>1, <3>3, TakesItsTurn, Zenon
    <3> QED
      BY <3>2, <3>3, Zenon
  <2> QED
    BY <1>5, <2>1, Zenon DEF CatalogInOrder
<1>14. \A s \in Runs : Referenced(s)' => cat'.exists /\ s \notin EmptyRuns /\ reg[s].seq > 0 /\ First(s)
  BY <1>2, <1>4, <1>6, Zenon DEF RegInv, TableInOrder
<1> QED
  BY <1>7, <1>8, <1>9, <1>10, <1>12, <1>13, <1>14, TableStep, Zenon

\* A commit on its way arrives, or is lost.
LEMMA CatalogStep ==
    ASSUME RegInv, NEW q \in sent, CatalogApplies(q) \/ CatalogLoses(q)
    PROVE  RegInv'
<1> DEFINE all(e) == [x \in Executors |-> e]
           own == [x \in Executors |-> exec[x].err]
<1>1. sent' = sent \ {q} /\ UNCHANGED <<run, part, lastRun, reg, ice>>
  BY Zenon DEF CatalogApplies, CatalogLoses, dataset
<1>2. exec \in [Executors -> ExecState]
  BY Zenon DEF RegInv, Typed
<1>3. own \in [Executors -> Errs] /\ all("net") \in [Executors -> Errs] /\ all("untyped") \in [Executors -> Errs]
  BY <1>2, Zenon DEF ExecState, Errs
<1>4. CASE CatalogLoses(q)
  <2>1. Answered(q, "failed", all("net")) /\ UNCHANGED cat
    BY <1>4, Zenon DEF CatalogLoses, Answered
  <2> QED
    BY <1>1, <1>3, <2>1, DropStep, Zenon
<1>5. CASE CatalogApplies(q) /\ q.base = cat.ver
  <2>1. TakesEffect(q)
    BY <1>5, Zenon DEF CatalogApplies, TakesEffect
  <2>2. \/ exec' = [x \in Executors |-> IF ~Awaits(x, q) THEN exec[x] ELSE [exec[x] EXCEPT !.pc = "receipt"]]
        \/ Answered(q, "failed", all("net"))
    BY <1>5, Zenon DEF CatalogApplies, Answered
  <2>3. \A x \in Executors : [exec[x] EXCEPT !.pc = "receipt"] = [exec[x] EXCEPT !.pc = "receipt", !.err = own[x]]
    BY <1>2, Zenon DEF ExecState
  <2>4. Answered(q, "receipt", own) \/ Answered(q, "failed", all("net"))
    BY <2>2, <2>3, Zenon DEF Answered
  <2> HIDE DEF all, own
  <2> QED
    BY <1>1, <1>3, <2>1, <2>4, AppendStep, Zenon
<1>6. CASE CatalogApplies(q) /\ q.base # cat.ver
  <2>1. UNCHANGED cat /\ (Answered(q, "failed", all("net")) \/ Answered(q, "failed", all("untyped")))
    BY <1>6, Zenon DEF CatalogApplies, Answered
  <2> HIDE DEF all, own
  <2> QED
    BY <1>1, <1>3, <2>1, DropStep, Zenon
<1> QED
  BY <1>4, <1>5, <1>6, Zenon

-----------------------------------------------------------------------------
(* Steps of the commit of a run.                                           *)

\* The number after the last one handed out.
LEMMA NextNumber ==
    ASSUME RegistrationConstants, NEW f \in [Runs -> Nat], NEW r \in Runs, f[r] = 0,
           \A q \in Runs : f[q] <= Cardinality({s \in Runs : f[s] > 0})
    PROVE  LET n == 1 + Cardinality({s \in Runs : f[s] > 0})
               g == [f EXCEPT ![r] = n]
           IN  /\ n \in Nat \ {0} /\ Cardinality({s \in Runs : g[s] > 0}) = n
               /\ \A q \in Runs : f[q] < n /\ g[q] <= n
<1> DEFINE c == Cardinality({s \in Runs : f[s] > 0})
           n == 1 + c
           g == [f EXCEPT ![r] = n]
<1>1. IsFiniteSet({s \in Runs : f[s] > 0})
  BY FS_Subset, Zenon DEF RegistrationConstants
<1>2. c \in Nat /\ n \in Nat \ {0}
  BY <1>1, FS_CardinalityType
<1>3. {s \in Runs : g[s] > 0} = {s \in Runs : f[s] > 0} \cup {r}
  <2> HIDE DEF c
  <2>1. n > 0
    BY <1>2
  <2> HIDE DEF n
  <2> QED
    BY <2>1, Zenon
<1>4. r \notin {s \in Runs : f[s] > 0}
  OBVIOUS
<1>5. Cardinality({s \in Runs : g[s] > 0}) = c + 1
  BY <1>1, <1>3, <1>4, FS_AddElement, ZenonT(60)
<1>6. \A q \in Runs : f[q] \in Nat /\ f[q] <= c
  BY Zenon
<1> HIDE DEF c
<1>7. \A q \in Runs : f[q] < n /\ f[q] <= n /\ n <= n /\ c + 1 = n
  BY <1>2, <1>6
<1>8. \A q \in Runs : g[q] = f[q] \/ g[q] = n
  BY Zenon
<1>9. \A q \in Runs : g[q] <= n
  BY <1>7, <1>8, Zenon
<1> QED
  BY <1>2, <1>5, <1>7, <1>9, Zenon DEF c

LEMMA PublishedOK ==
    ASSUME RegInv, NEW r \in Runs, run[r] = "OPEN", run' = [run EXCEPT ![r] = "PUBLISHED"], lastRun' = r,
           UNCHANGED <<reg, exec, cat, sent, ice>>, part' \in [Runs -> Nat], PartsInOrder',
           \A q \in Runs : part[q] > 0 => part'[q] = part[q]
    PROVE  RegInv'
<1>1. Typed /\ Typed'
  BY Zenon DEF RegInv, Typed
<1>2. RowsGrow
  <2>1. \A q \in Runs : reg[q].seq \in Nat
    BY <1>1, Zenon DEF Typed, RegRow
  <2> QED
    BY <2>1 DEF RowsGrow
<1>3. TableGrows
  BY Zenon DEF TableGrows, Referenced
<1>4. \A x \in Executors : ExecOK(x)'
  BY <1>1, <1>2, <1>3, ExecStays, Zenon DEF RegInv
<1>5. ASSUME NEW q \in Runs PROVE RegOK(q)'
  <2>1. CASE q = r
    BY <2>1, Zenon DEF RegInv, RegOK, Backed, Referenced
  <2>2. CASE q # r
    BY <1>1, <1>3, <2>2, RowStays, Zenon DEF RegInv, Typed
  <2> QED
    BY <2>1, <2>2, Zenon
<1>6. CommitsOnTheWay'
  BY Zenon DEF RegInv, CommitsOnTheWay, Referenced, First
<1>7. SeqsInOrder'
  BY Zenon DEF RegInv, SeqsInOrder, Sequenced
<1>8. TableInOrder'
  BY Zenon DEF RegInv, TableInOrder, CommittedOnce, CatalogInOrder, Referenced, First
<1>9. PartBacked(ice.part)'
  BY <1>1, <1>3, PartStays, Zenon DEF RegInv, Typed
<1> QED
  BY <1>1, <1>4, <1>5, <1>6, <1>7, <1>8, <1>9, Zenon DEF RegInv

\* The commit of a run replaces _state.json.
LEMMA PublishStep ==
    ASSUME RegistrationConstants, RegInv, NEW r \in Runs, PublishState(r)
    PROVE  RegInv'
<1> DEFINE n == 1 + Cardinality({q \in Runs : part[q] > 0})
<1>1. run[r] = "OPEN" /\ run' = [run EXCEPT ![r] = "PUBLISHED"] /\ lastRun' = r
  BY Zenon DEF PublishState
<1>2. UNCHANGED <<reg, exec, cat, sent, ice>>
  BY Zenon DEF PublishState, external
<1>3. Typed /\ PartsInOrder /\ part \in [Runs -> Nat] /\ part[r] = 0
  BY <1>1, Zenon DEF RegInv, Typed, PartsInOrder
<1>4. /\ n \in Nat \ {0} /\ Cardinality({s \in Runs : [part EXCEPT ![r] = n][s] > 0}) = n
      /\ \A q \in Runs : part[q] < n /\ [part EXCEPT ![r] = n][q] <= n
  BY <1>3, NextNumber, Zenon DEF PartsInOrder, Numbered
<1>5. part' = [part EXCEPT ![r] = IF r \in EmptyRuns THEN 0 ELSE n]
  BY Zenon DEF PublishState
<1> HIDE DEF n
<1>6. CASE r \in EmptyRuns
  <2>1. part' = part
    BY <1>3, <1>5, <1>6, Zenon
  <2> QED
    <3>1. PartsInOrder'
      BY <1>1, <1>3, <1>6, <2>1, Zenon DEF PartsInOrder, Numbered, Typed
    <3> QED
      BY <1>1, <1>2, <1>3, <2>1, <3>1, PublishedOK, Zenon
<1>7. CASE r \notin EmptyRuns
  <2>1. part' = [part EXCEPT ![r] = n]
    BY <1>5, <1>7, Zenon
  <2>2. Cardinality(Numbered)' = n
    BY <1>4, <2>1, Zenon DEF Numbered
  <2>3. \A q \in Runs : part'[q] <= Cardinality(Numbered)'
    BY <1>4, <2>1, <2>2, Zenon
  <2>4. \A q \in Runs : run'[q] = "OPEN" => part'[q] = 0
    BY <1>1, <1>3, <2>1, Zenon DEF PartsInOrder, Typed
  <2>5. \A q \in Runs \ EmptyRuns : run'[q] # "OPEN" => part'[q] > 0
    BY <1>1, <1>3, <1>4, <2>1, Zenon DEF PartsInOrder, Typed
  <2>6. ASSUME NEW q \in Runs, part'[q] >= part'[r] PROVE q = r
    <3>1. part'[r] = n /\ (q # r => part'[q] = part[q])
      BY <1>3, <2>1, Zenon
    <3>2. part[q] < n /\ part[q] \in Nat /\ n \in Nat
      BY <1>3, <1>4, Zenon
    <3> QED
      BY <2>6, <3>1, <3>2
  <2>7. PartsInOrder'
    BY <1>1, <2>3, <2>4, <2>5, <2>6, Zenon DEF PartsInOrder
  <2>8. part' \in [Runs -> Nat] /\ \A q \in Runs : part[q] > 0 => part'[q] = part[q]
    BY <1>3, <1>4, <2>1
  <2> QED
    BY <1>1, <1>2, <1>3, <2>7, <2>8, PublishedOK, Zenon
<1> QED
  BY <1>6, <1>7, Zenon

\* The completing transaction puts the run at the end of the queue.
LEMMA CompleteStep ==
    ASSUME RegistrationConstants, RegInv, NEW r \in Runs, CompleteCommit(r)
    PROVE  RegInv'
<1> DEFINE f == [q \in Runs |-> reg[q].seq]
           n == 1 + Cardinality({q \in Runs : reg[q].seq > 0})
<1>1. run[r] = "PUBLISHED" /\ run' = [run EXCEPT ![r] = "SUCCEEDED"]
  BY Zenon DEF CompleteCommit
<1>2. UNCHANGED <<part, lastRun, exec, cat, sent, ice>>
  BY Zenon DEF CompleteCommit, external
<1>3. Typed /\ reg \in [Runs -> RegRow] /\ SeqsInOrder /\ PartsInOrder /\ TableInOrder
  BY Zenon DEF RegInv, Typed
<1>4. reg[r].seq = 0 /\ reg[r].receipt = NoReceipt /\ reg[r].status = "NONE" /\ reg[r].current = 0
  BY <1>1, Zenon DEF RegInv, RegOK
<1>5. /\ n \in Nat \ {0} /\ Cardinality({s \in Runs : [f EXCEPT ![r] = n][s] > 0}) = n
      /\ \A q \in Runs : f[q] < n /\ [f EXCEPT ![r] = n][q] <= n
  <2>1. f \in [Runs -> Nat] /\ f[r] = 0
    BY <1>3, <1>4, Zenon DEF RegRow
  <2>2. {q \in Runs : f[q] > 0} = {q \in Runs : reg[q].seq > 0} /\ \A q \in Runs : f[q] = reg[q].seq
    BY Zenon
  <2>3. \A q \in Runs : f[q] <= Cardinality({s \in Runs : f[s] > 0})
    BY <1>3, <2>2, Zenon DEF SeqsInOrder, Sequenced
  <2>4. n = 1 + Cardinality({s \in Runs : f[s] > 0})
    BY <2>2, Zenon
  <2> HIDE DEF f, n
  <2>5. LET m == 1 + Cardinality({s \in Runs : f[s] > 0})
            g == [f EXCEPT ![r] = m]
        IN  /\ m \in Nat \ {0} /\ Cardinality({s \in Runs : g[s] > 0}) = m
            /\ \A q \in Runs : f[q] < m /\ g[q] <= m
    BY <2>1, <2>3, NextNumber, Zenon
  <2> QED
    BY <2>4, <2>5, Zenon
<1>6. reg' = [reg EXCEPT ![r] = [reg[r] EXCEPT !.status = "PENDING", !.seq = n]]
  BY <1>3, Zenon DEF CompleteCommit, ensureRegistrationTx
<1> HIDE DEF n
<1>7. [reg[r] EXCEPT !.status = "PENDING", !.seq = n] \in RegRow
  BY <1>3, <1>5, ZenonT(60) DEF RegRow, Statuses
<1>8. /\ reg' \in [Runs -> RegRow] /\ \A q \in Runs \ {r} : reg'[q] = reg[q]
      /\ reg'[r].seq = n /\ reg'[r].status = "PENDING" /\ reg'[r].receipt = NoReceipt
      /\ reg'[r].current = 0
  BY <1>3, <1>4, <1>6, <1>7, Zenon DEF RegRow
<1>9. \A q \in Runs : reg[q].seq \in Nat /\ reg[q].seq < n
  BY <1>3, <1>5, Zenon DEF RegRow
<1>10. Typed'
  BY <1>1, <1>2, <1>3, <1>8, Zenon DEF Typed
<1>11. RowsGrow
  <2>1. ASSUME NEW q \in Runs
        PROVE  /\ reg[q].seq > 0 => reg'[q].seq = reg[q].seq
               /\ reg[q].status = "REGISTERED" => reg'[q].status = "REGISTERED"
               /\ reg[q].seq = 0 /\ reg'[q].seq > 0 => \A s \in Runs : reg[s].seq < reg'[q].seq
    BY <1>4, <1>8, <1>9
  <2> QED
    BY <2>1, Zenon DEF RowsGrow
<1>12. TableGrows
  BY <1>2, Zenon DEF TableGrows, Referenced
<1>13. \A x \in Executors : ExecOK(x)'
  BY <1>2, <1>3, <1>10, <1>11, <1>12, ExecStays, Zenon DEF RegInv
<1>14. ASSUME NEW q \in Runs PROVE RegOK(q)'
  <2>1. CASE q = r
    <3>1. run'[r] = "SUCCEEDED" /\ n # 0
      BY <1>1, <1>3, <1>5, Zenon DEF Typed
    <3> QED
      BY <1>8, <2>1, <3>1, Zenon DEF RegOK
  <2>2. CASE q # r
    BY <1>1, <1>3, <1>8, <1>12, <2>2, RowStays, Zenon DEF RegInv, Typed
  <2> QED
    BY <2>1, <2>2, Zenon
<1>15. CommitsOnTheWay'
  <2>1. ASSUME NEW q \in sent
        PROVE  /\ q.run \notin EmptyRuns /\ cat.exists /\ q.base <= cat.ver
               /\ q.base = cat.ver => ~Referenced(q.run)
               /\ reg'[q.run].seq > 0 /\ First(q.run)'
    <3>1. /\ q.run \notin EmptyRuns /\ cat.exists /\ q.base <= cat.ver
          /\ q.base = cat.ver => ~Referenced(q.run)
          /\ reg[q.run].seq > 0 /\ First(q.run) /\ q.run \in Runs
      BY <1>3, Zenon DEF RegInv, CommitsOnTheWay, Typed
    <3> QED
      BY <1>3, <1>10, <1>11, <3>1, FirstStays, Zenon
  <2> QED
    BY <1>2, <2>1, Zenon DEF CommitsOnTheWay, Referenced
<1>16. PartsInOrder'
  BY <1>1, <1>2, <1>3, Zenon DEF PartsInOrder, Numbered, Typed
<1>17. SeqsInOrder'
  <2>1. \A q \in Runs : reg'[q].seq = [f EXCEPT ![r] = n][q]
    BY <1>8, Zenon
  <2>2. Sequenced' = {s \in Runs : [f EXCEPT ![r] = n][s] > 0}
    BY <2>1, Zenon DEF Sequenced
  <2>3. \A q \in Runs : reg'[q].seq <= Cardinality(Sequenced')
    BY <1>5, <2>1, <2>2, Zenon
  <2>4. ASSUME NEW p \in Runs, NEW q \in Runs, reg'[p].seq = reg'[q].seq, reg'[p].seq > 0 PROVE p = q
    <3>1. CASE p # r /\ q # r
      BY <1>3, <1>8, <2>4, <3>1, Zenon DEF SeqsInOrder
    <3>2. CASE p = r /\ q # r
      BY <1>8, <1>9, <2>4, <3>2
    <3>3. CASE p # r /\ q = r
      BY <1>8, <1>9, <2>4, <3>3
    <3> QED
      BY <3>1, <3>2, <3>3, Zenon
  <2> QED
    BY <2>3, <2>4, Zenon DEF SeqsInOrder
<1>18. TableInOrder'
  <2>1. \A s \in Runs : Referenced(s)' <=> Referenced(s)
    BY <1>2, Zenon DEF Referenced
  <2>2. ASSUME NEW s \in Runs, Referenced(s)
        PROVE  cat.exists /\ s \notin EmptyRuns /\ reg'[s].seq = reg[s].seq /\ reg'[s].seq > 0 /\ First(s)'
    <3>1. cat.exists /\ s \notin EmptyRuns /\ reg[s].seq > 0 /\ First(s)
      BY <1>3, <2>2, Zenon DEF TableInOrder
    <3>2. reg'[s].seq = reg[s].seq
      BY <1>11, <3>1, Zenon DEF RowsGrow
    <3> QED
      BY <1>3, <1>10, <1>11, <3>1, <3>2, FirstStays, Zenon
  <2>3. \A i \in DOMAIN cat.snaps : cat.snaps[i] \in Runs /\ Referenced(cat.snaps[i])
    BY <1>3 DEF Typed, Referenced
  <2>4. CommittedOnce' /\ CatalogInOrder'
    BY <1>2, <1>3, <2>2, <2>3, Zenon DEF TableInOrder, CommittedOnce, CatalogInOrder
  <2> QED
    BY <1>2, <2>1, <2>2, <2>4, Zenon DEF TableInOrder
<1>19. PartBacked(ice.part)'
  BY <1>2, <1>3, <1>12, PartStays, Zenon DEF RegInv, Typed
<1> QED
  BY <1>10, <1>13, <1>14, <1>15, <1>16, <1>17, <1>18, <1>19, Zenon DEF RegInv

-----------------------------------------------------------------------------
LEMMA RegInitHolds == ASSUME RegistrationConstants, Init PROVE RegInv
<1> USE DEF RegistrationConstants, Init
<1>1. NoReceipt \in Receipts /\ Unregistered \in RegRow /\ Idle \in ExecState
  BY RowsTyped, Zenon
<1>2. sent = {} /\ exec = [x \in Executors |-> Idle]
  BY Zenon
<1>3. CASE NewDataset
  <2>1. Typed
    BY <1>1, <1>2, <1>3 DEF NewDataset, Typed
  <2>2. \A r \in Runs : ~Referenced(r)
    BY <1>3 DEF NewDataset, Referenced
  <2>3. Numbered = {} /\ Sequenced = {}
    BY <1>3 DEF NewDataset, Numbered, Sequenced, Unregistered
  <2>4. Cardinality(Numbered) = 0 /\ Cardinality(Sequenced) = 0
    BY <2>3, FS_EmptySet, Zenon
  <2>5. \A x \in Executors : ExecOK(x)
    BY <1>2 DEF ExecOK, Idle, RegisteringPcs, Registering, Holding, PartBacked
  <2>6. \A r \in Runs : RegOK(r)
    BY <1>3, Zenon DEF NewDataset, RegOK, Unregistered
  <2>7. PartsInOrder /\ SeqsInOrder
    BY <1>3, <2>4 DEF NewDataset, PartsInOrder, SeqsInOrder, Unregistered
  <2>8. TableInOrder
    BY <1>3, <2>2 DEF NewDataset, TableInOrder, CommittedOnce, CatalogInOrder
  <2> QED
    BY <1>2, <1>3, <2>1, <2>5, <2>6, <2>7, <2>8, Zenon DEF NewDataset, RegInv, CommitsOnTheWay, PartBacked
<1>4. ASSUME NEW r \in Runs \ EmptyRuns, LeftBehind(r) PROVE RegInv
  <2>1. [Unregistered EXCEPT !.status = "PENDING", !.seq = 1] \in RegRow
    BY <1>1, Zenon DEF RegRow, Statuses, Unregistered
  <2>2. /\ \A q \in Runs \ {r} : reg[q] = Unregistered /\ run[q] = "OPEN" /\ part[q] = 0
        /\ reg[r].seq = 1 /\ reg[r].status = "PENDING" /\ reg[r].receipt = NoReceipt
        /\ run[r] = "SUCCEEDED" /\ part[r] = 1 /\ lastRun = r
        /\ cat.exists /\ cat.ver = 1 /\ cat.snaps = <<r>> /\ ice.part = 1
    BY <1>4, Zenon DEF LeftBehind, Unregistered
  <2>3. Typed
    BY <1>1, <1>2, <1>4, <2>1 DEF LeftBehind, Typed
  <2>4. \A q \in Runs : Referenced(q) <=> q = r
    BY <2>2 DEF Referenced
  <2>5. Numbered = {r} /\ Sequenced = {r}
    BY <2>2 DEF Numbered, Sequenced, Unregistered
  <2>6. Cardinality(Numbered) = 1 /\ Cardinality(Sequenced) = 1
    BY <2>5, FS_Singleton, Zenon
  <2>7. \A x \in Executors : ExecOK(x)
    BY <1>2 DEF ExecOK, Idle, RegisteringPcs, Registering, Holding, PartBacked
  <2>8. \A q \in Runs : RegOK(q)
    BY <2>2, SMTT(60) DEF RegOK, Unregistered
  <2>9. PartsInOrder /\ SeqsInOrder
    BY <2>2, <2>6 DEF PartsInOrder, SeqsInOrder, Unregistered
  <2>10. First(r)
    BY <2>2 DEF First
  <2>11. TableInOrder
    BY <1>4, <2>2, <2>4, <2>10 DEF TableInOrder, CommittedOnce, CatalogInOrder
  <2>12. PartBacked(ice.part)
    BY <1>4, <2>2, <2>4, Zenon DEF PartBacked
  <2> QED
    BY <1>2, <2>3, <2>7, <2>8, <2>9, <2>11, <2>12, Zenon DEF RegInv, CommitsOnTheWay
<1> QED
  BY <1>3, <1>4, Zenon

(* The theorems.                                                           *)
LEMMA RegUnchanged ==
    ASSUME RegInv, UNCHANGED vars
    PROVE  RegInv'
<1>1. Typed /\ PartBacked(ice.part)
  BY Zenon DEF RegInv
<1> QED
  BY <1>1, RowStep, Zenon DEF vars, Typed

LEMMA RegStep ==
    ASSUME RegistrationConstants, RegInv, [Next]_vars
    PROVE  RegInv'
<1>1. CASE UNCHANGED vars
  BY <1>1, RegUnchanged, Zenon
<1>2. ASSUME NEW r \in Runs, PublishState(r) \/ CompleteCommit(r) PROVE RegInv'
  BY <1>2, PublishStep, CompleteStep, Zenon
<1>3. ASSUME NEW x \in Executors, Step(x) PROVE RegInv'
  <2>1. CASE \/ BeginRepair(x) \/ RegisterRunLoad(x) \/ BeforeExternalCommit(x)
             \/ requireNoOpReconciliation(x) \/ IceStateWriting(x)
    BY <2>1, LoadStep, PhaseStep, Zenon
  <2>2. CASE createRESTGoTable(x) \/ commitRESTGoFiles(x)
    BY <2>2, CreateStep, SendStep, Zenon
  <2>3. CASE PersistCatalogReceipt(x) \/ PersistCatalogNoOpReceipt(x) \/ PutIceState(x)
    BY <2>3, ReceiptStep, IceStep, Zenon
  <2>4. CASE CompleteRegistration(x) \/ FailRegistrationAttempt(x)
    BY <2>4, AttemptEndStep, Zenon
  <2>5. CASE InspectCatalog(x) \/ finalizeCatalogObservation(x)
    BY <2>5, ObservationStep, Zenon
  <2>6. CASE ApplyReconciliationDecision(x) \/ RetryReconciliationObservation(x)
    BY <2>6, ObservationEndStep, Zenon
  <2> QED
    BY <1>3, <2>1, <2>2, <2>3, <2>4, <2>5, <2>6, Zenon DEF Step
<1>4. ASSUME NEW x \in Executors, Interrupt(x) PROVE RegInv'
  BY <1>4, IceStep, ObservationStep, Zenon DEF Interrupt
<1>5. ASSUME NEW x \in Executors, Claim(x) PROVE RegInv'
  BY <1>5, ClaimStep, ClaimObservationStep, Zenon DEF Claim
<1>6. ASSUME NEW q \in sent, CatalogApplies(q) \/ CatalogLoses(q) PROVE RegInv'
  BY <1>6, CatalogStep, Zenon
<1>7. CASE Expire
  BY <1>7, StopStep, AttemptEndStep, ObservationEndStep, Zenon DEF Expire
<1>8. ASSUME NEW r \in Runs,
             CancelRegistration(r) \/ RequeueRegistrationManual(r) \/ CancelReconciliation(r)
      PROVE  RegInv'
  BY <1>8, AttemptEndStep, ObservationEndStep, Zenon
<1>9. CASE Stop
  BY <1>9, StopStep, Zenon
<1> QED
  BY <1>1, <1>2, <1>3, <1>4, <1>5, <1>6, <1>7, <1>8, <1>9, Zenon DEF Next

LEMMA RegHolds == ASSUME RegistrationConstants PROVE Spec => []RegInv
<1>1. Init => RegInv
  BY RegInitHolds, Zenon
<1>2. RegInv /\ [Next]_vars => RegInv'
  BY RegStep, Zenon
<1> QED
  BY <1>1, <1>2, PTL DEF Spec

\* A commit is sent only for a run without a receipt, because the table holds
\* the run of every receipt.
LEMMA NoReplay ==
    ASSUME RegInv, [Next]_vars, NEW q \in sent' \ sent
    PROVE  reg[q.run].receipt = NoReceipt /\ q.run \in Runs
<1>1. PICK x \in Executors : commitRESTGoFiles(x)
  <2>1. ASSUME NEW x \in Executors, Step(x) \/ Interrupt(x), ~commitRESTGoFiles(x) PROVE sent' = sent
    BY <2>1, Zenon
    DEF Step, Interrupt, external, BeginRepair, RegisterRunLoad, BeforeExternalCommit,
        requireNoOpReconciliation, createRESTGoTable, PersistCatalogReceipt, PersistCatalogNoOpReceipt,
        IceStateWriting, PutIceState, CompleteRegistration, FailRegistrationAttempt, InspectCatalog,
        finalizeCatalogObservation, ApplyReconciliationDecision, RetryReconciliationObservation,
        AttemptTimesOut, RenewalRefused, ObservationTimesOut, RenewReconciliationLease
  <2>2. ASSUME NEW x \in Executors, Claim(x) PROVE sent' = sent
    BY <2>2, Zenon DEF Claim, ClaimRegistration, ClaimReconciliation, external
  <2>3. ASSUME NEW p \in sent, CatalogApplies(p) \/ CatalogLoses(p) PROVE sent' = sent \ {p}
    BY <2>3, Zenon DEF CatalogApplies, CatalogLoses
  <2>4. ASSUME Expire \/ Stop \/ UNCHANGED vars PROVE sent' = sent
    BY <2>4, Zenon DEF Expire, Stop, vars, external, LeaseLapses, ExpireRegistrationAttempts,
                ObservationLeaseLapses, ExpireReconciliationAttempts
  <2>5. ASSUME NEW r \in Runs,
               \/ PublishState(r) \/ CompleteCommit(r) \/ CancelRegistration(r)
               \/ RequeueRegistrationManual(r) \/ CancelReconciliation(r)
        PROVE  sent' = sent
    BY <2>5, Zenon DEF PublishState, CompleteCommit, CancelRegistration, RequeueRegistrationManual,
                CancelReconciliation, external
  <2> QED
    BY <2>1, <2>2, <2>3, <2>4, <2>5, Zenon DEF Next
<1>2. q.run = exec[x].run /\ q.run \notin EmptyRuns /\ ~Referenced(q.run) /\ exec[x].pc = "engine"
  BY <1>1 DEF commitRESTGoFiles
<1>3. q.run \in Runs
  BY <1>2, Zenon DEF RegInv, ExecOK
<1> QED
  BY <1>2, <1>3, Zenon DEF RegInv, RegOK, Backed

\* What a step writes into the row of a run keeps its receipt or replaces it.
LEMMA ReceiptKept ==
    ASSUME RegInv, NEW s \in Runs, NEW row, reg' = [reg EXCEPT ![s] = row],
           row.receipt = reg[s].receipt \/ row.receipt # NoReceipt,
           NEW r \in Runs, reg[r].receipt # NoReceipt
    PROVE  reg'[r].receipt # NoReceipt
BY Zenon DEF RegInv, Typed

\* The steps that write a registration row.
RowsWritten ==
    \/ \E r \in Runs : CompleteCommit(r)
    \/ \E x \in Executors, r \in Runs : ClaimRegistration(x, r) \/ ClaimReconciliation(x, r)
    \/ \E x \in Executors :
         \/ PersistCatalogReceipt(x) \/ PersistCatalogNoOpReceipt(x) \/ CompleteRegistration(x)
         \/ FailRegistrationAttempt(x) \/ ApplyReconciliationDecision(x)
         \/ RetryReconciliationObservation(x)
    \/ \E r \in Runs :
         \/ ExpireRegistrationAttempts(r) \/ ExpireReconciliationAttempts(r) \/ CancelRegistration(r)
         \/ RequeueRegistrationManual(r) \/ CancelReconciliation(r)

LEMMA RowsWrittenOnly == ASSUME [Next]_vars PROVE RowsWritten \/ UNCHANGED reg
<1>1. CASE UNCHANGED vars
  BY <1>1, Zenon DEF vars
<1>2. ASSUME NEW x \in Executors, Step(x) \/ Interrupt(x) PROVE RowsWritten \/ UNCHANGED reg
  BY <1>2, Zenon
  DEF RowsWritten, Step, Interrupt, BeginRepair, RegisterRunLoad, BeforeExternalCommit,
      requireNoOpReconciliation, createRESTGoTable, commitRESTGoFiles, IceStateWriting, PutIceState,
      InspectCatalog, finalizeCatalogObservation, AttemptTimesOut, RenewalRefused, ObservationTimesOut,
      RenewReconciliationLease
<1>3. ASSUME NEW x \in Executors, Claim(x) PROVE RowsWritten
  BY <1>3, Zenon DEF RowsWritten, Claim
<1>4. CASE (\E r \in Runs : PublishState(r) \/ CompleteCommit(r)) \/ (\E q \in sent : CatalogApplies(q) \/ CatalogLoses(q))
  BY <1>4, Zenon DEF RowsWritten, PublishState, CatalogApplies, CatalogLoses
<1>5. CASE Expire \/ Stop \/ \E r \in Runs : \/ CancelRegistration(r) \/ RequeueRegistrationManual(r)
                                             \/ CancelReconciliation(r)
  BY <1>5, Zenon DEF RowsWritten, Expire, Stop, LeaseLapses, ObservationLeaseLapses
<1> QED
  BY <1>1, <1>2, <1>3, <1>4, <1>5, Zenon DEF Next

LEMMA ReceiptsStay ==
    ASSUME RegInv, [Next]_vars, NEW r \in Runs, reg[r].receipt # NoReceipt
    PROVE  reg'[r].receipt # NoReceipt
<1> DEFINE Kept(s, row) == reg' = [reg EXCEPT ![s] = row] /\ (row.receipt = reg[s].receipt \/ row.receipt # NoReceipt)
<1>1. reg \in [Runs -> RegRow] /\ exec \in [Executors -> ExecState]
  BY Zenon DEF RegInv, Typed
<1>2. ASSUME NEW s \in Runs, NEW row, Kept(s, row) PROVE reg'[r].receipt # NoReceipt
  BY <1>2, ReceiptKept, Zenon
<1>3. ASSUME NEW s \in Runs, CompleteCommit(s) PROVE reg'[r].receipt # NoReceipt
  <2> DEFINE row == [reg[s] EXCEPT !.status = "PENDING", !.seq = 1 + Cardinality({q \in Runs : reg[q].seq > 0})]
  <2>1. Kept(s, row)
    BY <1>1, <1>3, Zenon DEF CompleteCommit, ensureRegistrationTx, RegRow
  <2> QED
    BY <1>2, <2>1, Zenon
<1>4. ASSUME NEW x \in Executors, NEW s \in Runs, ClaimRegistration(x, s) PROVE reg'[r].receipt # NoReceipt
  <2>1. \/ reg' = [reg EXCEPT ![s].status = "FAILED"]
        \/ reg' = [reg EXCEPT ![s].status = "REGISTERING", ![s].count = reg[s].count + 1,
                             ![s].current = reg[s].count + 1]
    BY <1>4, Zenon DEF ClaimRegistration
  <2>2. CASE reg' = [reg EXCEPT ![s].status = "FAILED"]
    BY <1>1, <2>2, Zenon DEF RegRow
  <2>3. CASE reg' = [reg EXCEPT ![s].status = "REGISTERING", ![s].count = reg[s].count + 1,
                                ![s].current = reg[s].count + 1]
    BY <1>1, <2>3, Zenon DEF RegRow
  <2> QED
    BY <2>1, <2>2, <2>3, Zenon
<1>5. ASSUME NEW x \in Executors, NEW s \in Runs, ClaimReconciliation(x, s) PROVE reg'[r].receipt # NoReceipt
  <2> DEFINE k == reg[s].recCount + 1
             row == [reg[s] EXCEPT !.recStatus = "INSPECTING", !.recCount = k, !.recCurrent = k]
  <2>1. Kept(s, row)
    BY <1>1, <1>5, Zenon DEF ClaimReconciliation, RegRow
  <2> QED
    BY <1>2, <2>1, Zenon
<1>6. ASSUME NEW x \in Executors, PersistCatalogReceipt(x) \/ PersistCatalogNoOpReceipt(x)
      PROVE  reg'[r].receipt # NoReceipt
  <2> DEFINE s == exec[x].run
  <2>1. s \in Runs
    BY <1>6, Zenon DEF RegInv, ExecOK, PersistCatalogReceipt, PersistCatalogNoOpReceipt
  <2>2. \/ UNCHANGED reg
        \/ \E c \in {CatalogReceipt(s, exec[x].n), NoOpReceipt(s, exec[x].n)} : reg' = [reg EXCEPT ![s].receipt = c]
    BY <1>6, Zenon DEF PersistCatalogReceipt, PersistCatalogNoOpReceipt, PersistReceipt
  <2>3. CatalogReceipt(s, exec[x].n) # NoReceipt /\ NoOpReceipt(s, exec[x].n) # NoReceipt
    BY Zenon DEF CatalogReceipt, NoOpReceipt, NoReceipt
  <2>4. ASSUME NEW c, c # NoReceipt, reg' = [reg EXCEPT ![s].receipt = c] PROVE Kept(s, [reg[s] EXCEPT !.receipt = c])
    BY <1>1, <2>1, <2>4, Zenon DEF RegRow
  <2> HIDE DEF s
  <2> QED
    BY <1>2, <2>1, <2>2, <2>3, <2>4, Zenon
<1>7. ASSUME NEW x \in Executors, CompleteRegistration(x) PROVE reg'[r].receipt # NoReceipt
  <2> DEFINE s == exec[x].run
             row == [reg[s] EXCEPT !.status = "REGISTERED", !.current = 0]
  <2>1. s \in Runs
    BY <1>7, Zenon DEF RegInv, ExecOK, CompleteRegistration
  <2>2. UNCHANGED reg \/ reg' = [reg EXCEPT ![s].status = "REGISTERED", ![s].current = 0]
    BY <1>7, Zenon DEF CompleteRegistration
  <2> HIDE DEF s
  <2>3. Kept(s, row) \/ UNCHANGED reg
    <3>1. reg[s] \in RegRow
      BY <1>1, <2>1, Zenon
    <3>2. row.receipt = reg[s].receipt
      BY <3>1, Zenon DEF RegRow
    <3>3. [reg EXCEPT ![s].status = "REGISTERED", ![s].current = 0] = [reg EXCEPT ![s] = row]
      BY <1>1, <2>1, Zenon
    <3> QED
      BY <2>2, <3>2, <3>3, Zenon
  <2> HIDE DEF row
  <2> QED
    BY <1>2, <2>1, <2>3, Zenon
<1>8. ASSUME NEW s \in Runs, NEW st, reg' = [reg EXCEPT ![s] = AttemptOver(@, st)] PROVE reg'[r].receipt # NoReceipt
  <2>1. Kept(s, AttemptOver(reg[s], st))
    BY <1>1, <1>8, Zenon DEF AttemptOver, RegRow
  <2> QED
    BY <1>2, <2>1, Zenon
<1>9. ASSUME NEW x \in Executors, FailRegistrationAttempt(x) PROVE reg'[r].receipt # NoReceipt
  <2>1. exec[x].run \in Runs
    BY <1>9, Zenon DEF RegInv, ExecOK, FailRegistrationAttempt
  <2> QED
    BY <1>8, <1>9, <2>1, Zenon DEF FailRegistrationAttempt
<1>10. ASSUME NEW x \in Executors, ApplyReconciliationDecision(x) PROVE reg'[r].receipt # NoReceipt
  <2> DEFINE s == exec[x].run
             d == Decision(x)
             row == Decided(s, exec[x].n, d)
  <2>1. s \in Runs /\ reg[s] \in RegRow
    BY <1>1, <1>10, Zenon DEF RegInv, ExecOK, ApplyReconciliationDecision
  <2>2. row.receipt = reg[s].receipt \/ row.receipt = ReconciliationReceipt(s, exec[x].n)
    <3> HIDE DEF s, d
    <3>1. CASE d = "EXACTLY_COMMITTED"
      BY <2>1, <3>1, Zenon DEF Decided, RegRow
    <3>2. CASE d \in {"DEFINITELY_NOT_COMMITTED", "TABLE_NOT_FOUND"}
      BY <2>1, <3>2, Zenon DEF Decided, RegRow
    <3>3. CASE d \in {"PARTIALLY_COMMITTED", "CONFLICTING_COMMIT"}
      BY <2>1, <3>3, Zenon DEF Decided, RegRow
    <3>4. CASE d \notin {"EXACTLY_COMMITTED", "DEFINITELY_NOT_COMMITTED", "TABLE_NOT_FOUND",
                         "PARTIALLY_COMMITTED", "CONFLICTING_COMMIT"}
      BY <2>1, <3>4, Zenon DEF Decided, RegRow
    <3> QED
      BY <3>1, <3>2, <3>3, <3>4, Zenon
  <2>3. ReconciliationReceipt(s, exec[x].n) # NoReceipt
    BY Zenon DEF ReconciliationReceipt, NoReceipt
  <2>4. reg' = [reg EXCEPT ![s] = row] \/ UNCHANGED reg
    BY <1>10, Zenon DEF ApplyReconciliationDecision
  <2> HIDE DEF row
  <2> QED
    BY <1>2, <2>1, <2>2, <2>3, <2>4, Zenon
<1>11. ASSUME NEW s \in Runs, NEW n, reg' = [reg EXCEPT ![s] = Unobserved(s, n)] PROVE reg'[r].receipt # NoReceipt
  <2>1. Kept(s, Unobserved(s, n))
    BY <1>1, <1>11, Zenon DEF Unobserved, RegRow
  <2> QED
    BY <1>2, <2>1, Zenon
<1>12. ASSUME NEW x \in Executors, RetryReconciliationObservation(x) PROVE reg'[r].receipt # NoReceipt
  <2> DEFINE s == exec[x].run
             n == exec[x].n
  <2>1. s \in Runs
    BY <1>12, Zenon DEF RegInv, ExecOK, RetryReconciliationObservation
  <2>2. [reg EXCEPT ![s] = reg[s]] = reg
    BY <1>1, Zenon
  <2>3. reg' = [reg EXCEPT ![s] = Unobserved(s, n)] \/ UNCHANGED reg
    BY <1>12, <2>2, Zenon DEF RetryReconciliationObservation
  <2> QED
    BY <1>11, <2>1, <2>3, Zenon
<1>13. ASSUME NEW s \in Runs,
              \/ ExpireRegistrationAttempts(s) \/ ExpireReconciliationAttempts(s) \/ CancelRegistration(s)
              \/ RequeueRegistrationManual(s) \/ CancelReconciliation(s)
       PROVE  reg'[r].receipt # NoReceipt
  <2>1. CASE ExpireRegistrationAttempts(s)
    BY <1>8, <2>1, Zenon DEF ExpireRegistrationAttempts
  <2>2. CASE ExpireReconciliationAttempts(s)
    BY <1>11, <2>2, Zenon DEF ExpireReconciliationAttempts
  <2>3. CASE CancelRegistration(s)
    <3>1. reg' = [reg EXCEPT ![s].status = "CANCELED"] => Kept(s, [reg[s] EXCEPT !.status = "CANCELED"])
      BY <1>1, Zenon DEF RegRow
    <3> QED
      BY <1>2, <1>8, <2>3, <3>1, Zenon DEF CancelRegistration
  <2>4. CASE RequeueRegistrationManual(s)
    <3>1. Kept(s, [reg[s] EXCEPT !.status = "PENDING", !.current = 0, !.budget = reg[s].budget + 1])
      BY <1>1, <2>4, Zenon DEF RequeueRegistrationManual, RegRow
    <3> QED
      BY <1>2, <3>1, Zenon
  <2>5. CASE CancelReconciliation(s)
    <3>1. Kept(s, [reg[s] EXCEPT !.recStatus = "CANCELED", !.recCurrent = 0])
      BY <1>1, <2>5, Zenon DEF CancelReconciliation, RegRow
    <3> QED
      BY <1>2, <3>1, Zenon
  <2> QED
    BY <1>13, <2>1, <2>2, <2>3, <2>4, <2>5, Zenon
<1> QED
  BY <1>3, <1>4, <1>5, <1>6, <1>7, <1>9, <1>10, <1>12, <1>13, RowsWrittenOnly, Zenon DEF RowsWritten

LEMMA ReceiptStepHolds ==
    ASSUME RegInv, [Next]_vars
    PROVE  ReceiptForbidsReplay
<1>1. ASSUME NEW r \in Runs, reg[r].receipt # NoReceipt
      PROVE  /\ r \in EmptyRuns \/ Referenced(r)
             /\ reg'[r].receipt # NoReceipt
             /\ \A q \in sent' \ sent : q.run # r
  <2>1. r \in EmptyRuns \/ Referenced(r)
    BY <1>1, Zenon DEF RegInv, RegOK, Backed
  <2>2. reg'[r].receipt # NoReceipt
    BY <1>1, ReceiptsStay, Zenon
  <2>3. \A q \in sent' \ sent : q.run # r
    BY <1>1, NoReplay, Zenon
  <2> QED
    BY <2>1, <2>2, <2>3, Zenon
<1> QED
  BY <1>1, Zenon DEF ReceiptForbidsReplay

(* No retry, reconciliation, replay, lost answer or commit left in flight  *)
(* by a dead executor puts the data of a run into the table a second time  *)
(* (registration_execution.go, reconciliation_execution.go), for any       *)
(* number of runs, executors and faults.                                   *)
THEOREM RunsEnterOnce == ASSUME RegistrationConstants PROVE Spec => []CommittedOnce
<1>1. RegInv => CommittedOnce
  BY Zenon DEF RegInv, TableInOrder
<1> QED
  BY <1>1, RegHolds, PTL

(* The table holds the runs in commit order, a REGISTERED row has its      *)
(* files in the table, and a receipt is true, stays, and forbids sending   *)
(* its commit again (registrations.go, reconciliation.go).                 *)
THEOREM CatalogStaysHonest == ASSUME RegistrationConstants PROVE Spec => CatalogIsHonest
<1>1. RegInv => CatalogInOrder /\ RegisteredIsQueryable
  BY Zenon DEF RegInv, TableInOrder, RegOK, Backed, RegisteredIsQueryable
<1>2. RegInv /\ [Next]_vars => [ReceiptForbidsReplay]_vars
  BY ReceiptStepHolds, Zenon
<1> QED
  BY <1>1, <1>2, RegHolds, PTL DEF Spec, CatalogIsHonest
=============================================================================
