---------------------------- MODULE Registration ----------------------------
(***************************************************************************)
(* The catalog registration queue of one dataset and target table.        *)
(*                                                                         *)
(* A committed run is registered in the Iceberg catalog by a leased        *)
(* attempt: claim, read _state.json and _ice_state.json, record that the   *)
(* external commit starts, commit to the catalog, persist the receipt,     *)
(* write _ice_state.json, complete.  An attempt whose catalog outcome is   *)
(* unknown is reconciled: the catalog is observed under a lease of its     *)
(* own and the evidence decides whether to repair, replay or quarantine.   *)
(* Source: internal/db/registrations.go, internal/db/reconciliation.go,    *)
(* internal/grpc/registration_execution.go,                                *)
(* internal/grpc/reconciliation_execution.go, internal/icebergreg.         *)
(*                                                                         *)
(* The job is incremental and uses the rest-go engine.  Every store call   *)
(* is one action (one SQLite transaction); the catalog and the object      *)
(* store are the external parts.                                           *)
(***************************************************************************)
EXTENDS Integers, Sequences, FiniteSets

CONSTANTS
    Runs,             \* the runs of the dataset
    NoRun,            \* no run
    EmptyRuns,        \* the runs that committed no artifact
    Executors,        \* goroutines inside tryAcquireCatalogWork: its limit
    MaxAttempts,      \* RegistrationPolicy.MaxAttempts
    MaxObservations,  \* ReconciliationMaxAttempts
    MaxAmbiguities,   \* reconciliationMaxAmbiguities
    MaxFaults,        \* bound: I/O errors, timeouts, lost answers, stops
    MaxLapses,        \* bound: leases that lapse under a live executor
    MaxCommands       \* bound: operator requests

VARIABLES
    run,      \* of each run: "OPEN", "PUBLISHED" (_state.json), "SUCCEEDED"
    part,     \* the part number of its files, 0 for none
    lastRun,  \* last_committed_run_id of _state.json
    reg,      \* the iceberg_registrations row of each run
    att,      \* its iceberg_registration_attempts rows, by attempt number
    obs,      \* its iceberg_reconciliation_attempts rows, by number
    exec,     \* the local state of each executor
    cat,      \* external: the table in the catalog
    sent,     \* external: catalog commits on their way
    ice,      \* external: _ice_state.json
    faults, lapses, commands

vars == <<run, part, lastRun, reg, att, obs, exec, cat, sent, ice, faults, lapses, commands>>

RegistrationConstants ==
    /\ IsFiniteSet(Runs) /\ NoRun \notin Runs
    /\ EmptyRuns \subseteq Runs
    /\ MaxAttempts \in Nat \ {0}
    /\ MaxObservations \in Nat \ {0}
    /\ MaxAmbiguities \in Nat
    /\ {MaxFaults, MaxLapses, MaxCommands} \subseteq Nat

-----------------------------------------------------------------------------
(* Receipts differ by what built them: CatalogReceipt carries DefiniteAt,  *)
(* ReconciliationReceipt reconciled_at.                                    *)
NoReceipt == [kind |-> "none", of |-> NoRun, n |-> 0]
CatalogReceipt(r, n) == [kind |-> "commit", of |-> r, n |-> n]
NoOpReceipt(r, n) == [kind |-> "noop", of |-> r, n |-> n]
ReconciliationReceipt(r, n) == [kind |-> "reconciled", of |-> r, n |-> n]

Unregistered == [status |-> "NONE", seq |-> 0, count |-> 0, current |-> 0, budget |-> 0,
                 receipt |-> NoReceipt, recStatus |-> "NONE", recCount |-> 0,
                 recCurrent |-> 0, cycles |-> 0]

Idle == [pc |-> "idle", run |-> NoRun, n |-> 0, ext |-> FALSE, receipt |-> NoReceipt,
         part |-> 0, put |-> FALSE, err |-> "none", start |-> 0, marked |-> FALSE, end |-> 0]

NewDataset ==
    /\ run = [r \in Runs |-> "OPEN"]
    /\ part = [r \in Runs |-> 0]
    /\ lastRun = NoRun
    /\ reg = [r \in Runs |-> Unregistered]
    /\ cat = [exists |-> FALSE, ver |-> 0, snaps |-> <<>>]
    /\ ice = [part |-> 0, receipt |-> NoReceipt]

\* An older master wrote _ice_state.json, without a receipt, and stopped before
\* it recorded that it registered r.
LeftBehind(r) ==
    /\ run = [q \in Runs |-> IF q = r THEN "SUCCEEDED" ELSE "OPEN"]
    /\ part = [q \in Runs |-> IF q = r THEN 1 ELSE 0]
    /\ lastRun = r
    /\ reg = [q \in Runs |-> IF q = r THEN [Unregistered EXCEPT !.status = "PENDING", !.seq = 1]
                            ELSE Unregistered]
    /\ cat = [exists |-> TRUE, ver |-> 1, snaps |-> <<r>>]
    /\ ice = [part |-> 1, receipt |-> NoReceipt]

Init ==
    /\ NewDataset \/ \E r \in Runs \ EmptyRuns : LeftBehind(r)
    /\ att = [r \in Runs |-> <<>>]
    /\ obs = [r \in Runs |-> <<>>]
    /\ exec = [x \in Executors |-> Idle]
    /\ sent = {}
    /\ faults = 0 /\ lapses = 0 /\ commands = 0

dataset == <<run, part, lastRun>>
external == <<cat, sent, ice>>
budgets == <<faults, lapses, commands>>
NoFault == UNCHANGED budgets
Fault == faults < MaxFaults /\ faults' = faults + 1 /\ UNCHANGED <<lapses, commands>>
Command == commands < MaxCommands /\ commands' = commands + 1 /\ UNCHANGED <<faults, lapses>>

-----------------------------------------------------------------------------
(* The commit of a run, as registration sees it: _state.json is replaced,  *)
(* then the completing transaction creates the registration.  One run of   *)
(* a dataset is active at a time.                                          *)
PublishState(r) ==
    /\ run[r] = "OPEN"
    /\ \A q \in Runs : run[q] # "PUBLISHED"
    /\ run' = [run EXCEPT ![r] = "PUBLISHED"]
    /\ part' = [part EXCEPT ![r] = IF r \in EmptyRuns THEN 0
                                   ELSE 1 + Cardinality({q \in Runs : part[q] > 0})]
    /\ lastRun' = r
    /\ UNCHANGED <<reg, att, obs, exec, external, budgets>>

ensureRegistrationTx(r) ==
    reg' = [reg EXCEPT ![r].status = "PENDING",
                       ![r].seq = 1 + Cardinality({q \in Runs : reg[q].seq > 0})]

CompleteCommit(r) ==
    /\ run[r] = "PUBLISHED"
    /\ run' = [run EXCEPT ![r] = "SUCCEEDED"]
    /\ ensureRegistrationTx(r)
    /\ UNCHANGED <<part, lastRun, att, obs, exec, external, budgets>>

-----------------------------------------------------------------------------
(* Claims, leases and fencing.                                             *)
Queued(r) == reg[r].status \in {"PENDING", "RETRY_REQUIRED"}
First(r) == \A q \in Runs : reg[q].seq \in 1..(reg[r].seq - 1) => reg[q].status = "REGISTERED"

Active(r, n) == n \in DOMAIN att[r] /\ att[r][n].status = "ACTIVE"
Owns(r, n) == Active(r, n) /\ reg[r].status = "REGISTERING" /\ reg[r].current = n
InPhase(r, n, phase) == Owns(r, n) /\ att[r][n].phase = phase

\* Mutant: the current attempt stays the current one.
AttemptOverKept(row, st) ==
    [row EXCEPT !.status = st, !.recStatus = IF st = "RECONCILING" THEN "PENDING" ELSE @]

\* The row of a registration whose current attempt ends with status st.
AttemptOver(row, st) ==
    [row EXCEPT !.status = st, !.current = 0,
                !.recStatus = IF st = "RECONCILING" THEN "PENDING" ELSE @]

ClaimRegistration(x, r) ==
    /\ exec[x] = Idle
    /\ Queued(r) /\ First(r)
    /\ LET n == reg[r].count + 1 IN
       \/ /\ reg[r].count >= MaxAttempts + reg[r].budget
          /\ reg' = [reg EXCEPT ![r].status = "FAILED"]
          /\ UNCHANGED <<att, exec>>
       \/ /\ reg[r].count < MaxAttempts + reg[r].budget
          /\ reg[r].current = 0
          /\ reg' = [reg EXCEPT ![r].status = "REGISTERING", ![r].count = n, ![r].current = n]
          /\ att' = [att EXCEPT ![r] = Append(@, [status |-> "ACTIVE", phase |-> "PREPARED",
                                                  lapsed |-> FALSE])]
          /\ exec' = [exec EXCEPT ![x] =
                [Idle EXCEPT !.pc = IF reg[r].receipt = NoReceipt THEN "load" ELSE "repair",
                             !.run = r, !.n = n, !.receipt = reg[r].receipt]]
    /\ UNCHANGED <<dataset, obs, external, budgets>>

Goto(x, pc) == exec' = [exec EXCEPT ![x].pc = pc]
Fail(x, err) == exec' = [exec EXCEPT ![x].pc = "failed", ![x].err = err]
Release(x) == exec' = [exec EXCEPT ![x] = Idle]

\* done when the attempt still holds the lease in phase "from", fenced otherwise.
AdvanceRegistrationPhase(x, from, to, done, fenced) ==
    LET r == exec[x].run
        n == exec[x].n
    IN  \/ InPhase(r, n, from) /\ att' = [att EXCEPT ![r][n].phase = to] /\ done
        \/ ~InPhase(r, n, from) /\ fenced /\ UNCHANGED att

\* A receipt is already durable: the attempt repairs local state only.
BeginRepair(x) ==
    /\ exec[x].pc = "repair"
    /\ AdvanceRegistrationPhase(x, "PREPARED", "CATALOG_COMMITTED", Goto(x, "load"), Release(x))
    /\ UNCHANGED <<dataset, reg, obs, external, budgets>>

AlreadyCommitted(x) == exec[x].receipt # NoReceipt

verifyIceStateReceipt(stored, receipt) ==
    \/ stored = NoReceipt
    \/ receipt = NoReceipt
    \/ stored.of # receipt.of
    \/ stored = receipt

\* Mutant: a run without files never needs a table.
NeverCreateEmpty(exists) == "NO_OP"

decideVerifiedEmptyAction(exists) == IF exists THEN "NO_OP" ELSE "CREATE_EMPTY"

loadDatasetState(r) == lastRun = r

Loaded(x, pc, put) == exec' = [exec EXCEPT ![x].pc = pc, ![x].put = put, ![x].part = ice.part]

\* The step RegisterRun takes once both state files are read.
AfterLoad(x) ==
    LET r == exec[x].run
        commitOrRepair ==
            IF AlreadyCommitted(x) THEN Loaded(x, "writing", TRUE) ELSE Loaded(x, "before", TRUE)
    IN  IF r \in EmptyRuns
        THEN IF decideVerifiedEmptyAction(cat.exists) = "CREATE_EMPTY" THEN commitOrRepair
             ELSE IF AlreadyCommitted(x) THEN Fail(x, "definite")   \* buildNoOpReceipt
             ELSE Loaded(x, "noop", TRUE)
        ELSE IF part[r] > ice.part THEN commitOrRepair
             ELSE IF ice.receipt = NoReceipt THEN Loaded(x, "unproven", FALSE)
             ELSE IF AlreadyCommitted(x) THEN Loaded(x, "writing", FALSE)
             ELSE Loaded(x, "noop", FALSE)

RegisterRunLoad(x) ==
    /\ exec[x].pc = "load"
    /\ \/ /\ NoFault
          /\ loadDatasetState(exec[x].run)
          /\ verifyIceStateReceipt(ice.receipt, exec[x].receipt)
          /\ AfterLoad(x)
       \/ NoFault /\ ~loadDatasetState(exec[x].run) /\ Fail(x, "untyped")
       \/ /\ NoFault
          /\ ~verifyIceStateReceipt(ice.receipt, exec[x].receipt)
          /\ Fail(x, "definite")
       \/ Fault /\ \E e \in {"net", "untyped"} : Fail(x, e)
    /\ UNCHANGED <<dataset, reg, att, obs, external>>

BeforeExternalCommit(x) ==
    /\ exec[x].pc = "before"
    /\ AdvanceRegistrationPhase(x, "PREPARED", "EXTERNAL_COMMIT_STARTED",
           exec' = [exec EXCEPT ![x].pc = "engine", ![x].ext = TRUE], Fail(x, "untyped"))
    /\ UNCHANGED <<dataset, reg, obs, external, budgets>>

\* The files are below the mark but _ice_state.json proves nothing.
requireNoOpReconciliation(x) ==
    /\ exec[x].pc = "unproven"
    /\ AdvanceRegistrationPhase(x, "PREPARED", "EXTERNAL_COMMIT_STARTED",
           exec' = [exec EXCEPT ![x].pc = "failed", ![x].err = "ambiguous", ![x].ext = TRUE],
           Fail(x, "untyped"))
    /\ UNCHANGED <<dataset, reg, obs, external, budgets>>

-----------------------------------------------------------------------------
(* External: the catalog.  A commit names the metadata version it was      *)
(* built on and the catalog applies it only to that version; iceberg-go    *)
(* refuses to add a file the loaded table already references.  A request   *)
(* outlives the client that gave up on it.                                 *)
Referenced(r) == \E i \in DOMAIN cat.snaps : cat.snaps[i] = r
Awaits(x, q) == exec[x].pc = "commit" /\ exec[x].run = q.run /\ exec[x].n = q.n

createRESTGoTable(x) ==
    /\ exec[x].pc = "engine"
    /\ ~cat.exists
    /\ LET made == cat' = [cat EXCEPT !.exists = TRUE, !.ver = @ + 1]
       IN  \/ made /\ NoFault
              /\ IF exec[x].run \in EmptyRuns THEN Goto(x, "receipt") ELSE UNCHANGED exec
           \/ Fault /\ Fail(x, "net") /\ (made \/ UNCHANGED cat)
    /\ UNCHANGED <<dataset, reg, att, obs, sent, ice>>

\* Mutant: files the table already references are added again.
commitIgnoringDuplicates(x) ==
    /\ exec[x].pc = "engine"
    /\ cat.exists
    /\ sent' = sent \cup {[run |-> exec[x].run, n |-> exec[x].n, base |-> cat.ver]}
    /\ Goto(x, "commit")
    /\ UNCHANGED <<dataset, reg, att, obs, cat, ice, budgets>>

commitRESTGoFiles(x) ==
    LET r == exec[x].run IN
    /\ exec[x].pc = "engine"
    /\ cat.exists
    /\ \/ /\ NoFault
          /\ r \in EmptyRuns \/ Referenced(r)
          /\ Fail(x, "untyped")
          /\ UNCHANGED sent
       \/ /\ NoFault
          /\ r \notin EmptyRuns /\ ~Referenced(r)
          /\ sent' = sent \cup {[run |-> r, n |-> exec[x].n, base |-> cat.ver]}
          /\ Goto(x, "commit")
       \/ Fault /\ UNCHANGED sent /\ \E e \in {"unavailable", "definite"} : Fail(x, e)
    /\ UNCHANGED <<dataset, reg, att, obs, cat, ice>>

CatalogApplies(q) ==
    /\ sent' = sent \ {q}
    /\ LET ok == q.base = cat.ver
           Answer(lost) ==
               exec' = [x \in Executors |->
                   IF ~Awaits(x, q) THEN exec[x]
                   ELSE IF ok /\ ~lost THEN [exec[x] EXCEPT !.pc = "receipt"]
                   ELSE [exec[x] EXCEPT !.pc = "failed", !.err = IF lost THEN "net" ELSE "untyped"]]
       IN  /\ cat' = IF ok THEN [cat EXCEPT !.ver = @ + 1, !.snaps = Append(@, q.run)] ELSE cat
           /\ \/ NoFault /\ Answer(FALSE)
              \/ Fault /\ (\E x \in Executors : Awaits(x, q)) /\ Answer(TRUE)
    /\ UNCHANGED <<dataset, reg, att, obs, ice>>

CatalogLoses(q) ==
    /\ Fault
    /\ sent' = sent \ {q}
    /\ exec' = [x \in Executors |->
           IF Awaits(x, q) THEN [exec[x] EXCEPT !.pc = "failed", !.err = "net"] ELSE exec[x]]
    /\ UNCHANGED <<dataset, reg, att, obs, cat, ice>>

-----------------------------------------------------------------------------
(* Receipt, _ice_state.json, completion.                                   *)
PersistReceipt(x, phase, receipt) ==
    LET r == exec[x].run
        n == exec[x].n
        may == InPhase(r, n, phase) /\ (receipt.kind = "noop" => reg[r].receipt = NoReceipt)
    IN  \/ /\ may
           /\ att' = [att EXCEPT ![r][n].phase = "CATALOG_COMMITTED"]
           /\ reg' = [reg EXCEPT ![r].receipt = receipt]
           /\ exec' = [exec EXCEPT ![x].pc = "writing", ![x].receipt = receipt]
        \/ ~may /\ Fail(x, "untyped") /\ UNCHANGED <<reg, att>>

PersistCatalogReceipt(x) ==
    /\ exec[x].pc = "receipt"
    /\ PersistReceipt(x, "EXTERNAL_COMMIT_STARTED", CatalogReceipt(exec[x].run, exec[x].n))
    /\ UNCHANGED <<dataset, obs, external, budgets>>

PersistCatalogNoOpReceipt(x) ==
    /\ exec[x].pc = "noop"
    /\ PersistReceipt(x, "PREPARED", NoOpReceipt(exec[x].run, exec[x].n))
    /\ UNCHANGED <<dataset, obs, external, budgets>>

IceStateWriting(x) ==
    /\ exec[x].pc = "writing"
    /\ AdvanceRegistrationPhase(x, "CATALOG_COMMITTED", "ICE_STATE_WRITING",
           Goto(x, IF exec[x].put THEN "put" ELSE "done"), Fail(x, "untyped"))
    /\ UNCHANGED <<dataset, reg, obs, external, budgets>>

nextIceState(x) == [part |-> IF exec[x].run \in EmptyRuns THEN exec[x].part ELSE part[exec[x].run],
                    receipt |-> exec[x].receipt]

PutIceState(x) ==
    /\ exec[x].pc = "put"
    /\ \/ NoFault /\ ice' = nextIceState(x) /\ Goto(x, "done")
       \/ Fault /\ ice' \in {ice, nextIceState(x)} /\ Fail(x, "icewrite")
    /\ UNCHANGED <<dataset, reg, att, obs, cat, sent>>

CompleteRegistration(x) ==
    LET r == exec[x].run
        n == exec[x].n
    IN  /\ exec[x].pc = "done"
        /\ \/ /\ InPhase(r, n, "ICE_STATE_WRITING")
              /\ att' = [att EXCEPT ![r][n].status = "SUCCEEDED", ![r][n].phase = "VERIFIED"]
              /\ reg' = [reg EXCEPT ![r].status = "REGISTERED", ![r].current = 0]
           \/ ~InPhase(r, n, "ICE_STATE_WRITING") /\ UNCHANGED <<reg, att>>
        /\ Release(x)
        /\ UNCHANGED <<dataset, obs, external, budgets>>

-----------------------------------------------------------------------------
(* Failures.  classifyRegistrationFailure: ext says the external commit    *)
(* began in this attempt.                                                  *)
ClassifyFailure(err, ext) ==
    IF err \in {"icewrite", "unavailable"} THEN [retryable |-> TRUE, definite |-> TRUE]
    ELSE IF err = "definite" THEN [retryable |-> FALSE, definite |-> TRUE]
    ELSE IF err = "ambiguous" \/ ext THEN [retryable |-> FALSE, definite |-> FALSE]
    ELSE [retryable |-> err \in {"net", "timeout"}, definite |-> TRUE]

StatusAfterFailure(phase, n, f) ==
    CASE phase = "CATALOG_COMMITTED" -> IF n < MaxAttempts THEN "RETRY_REQUIRED" ELSE "FAILED"
      [] phase \notin {"CATALOG_COMMITTED", "PREPARED"} /\ ~f.definite -> "RECONCILING"
      [] OTHER -> IF f.retryable /\ n < MaxAttempts THEN "RETRY_REQUIRED" ELSE "FAILED"

FailRegistrationAttempt(x) ==
    LET r == exec[x].run
        n == exec[x].n
        f == ClassifyFailure(exec[x].err, exec[x].ext)
    IN  /\ exec[x].pc = "failed"
        /\ \/ /\ Active(r, n) /\ reg[r].current = n
              /\ LET st == StatusAfterFailure(att[r][n].phase, n, f) IN
                 /\ att' = [att EXCEPT ![r][n].status = st]
                 /\ reg' = [reg EXCEPT ![r] = AttemptOver(@, st)]
           \/ ~(Active(r, n) /\ reg[r].current = n) /\ UNCHANGED <<reg, att>>
        /\ Release(x)
        /\ UNCHANGED <<dataset, obs, external, budgets>>

Registering == {"load", "before", "unproven", "engine", "commit", "receipt", "noop", "writing", "put"}

\* The attempt's own deadline passes; a put under way may have been applied.
AttemptTimesOut(x) ==
    /\ exec[x].pc \in Registering
    /\ Fault
    /\ Fail(x, "timeout")
    /\ ice' \in IF exec[x].pc = "put" THEN {ice, nextIceState(x)} ELSE {ice}
    /\ UNCHANGED <<dataset, reg, att, obs, cat, sent>>

\* RenewRegistrationLease refuses: the lease lapsed or the attempt is over.
RenewalRefused(x) ==
    LET r == exec[x].run
        n == exec[x].n
    IN  /\ exec[x].pc \in Registering
        /\ ~Active(r, n) \/ att[r][n].lapsed
        /\ Fail(x, IF exec[x].pc = "put" THEN "icewrite" ELSE "canceled")
        /\ ice' \in IF exec[x].pc = "put" THEN {ice, nextIceState(x)} ELSE {ice}
        /\ UNCHANGED <<dataset, reg, att, obs, cat, sent, budgets>>

Works(x, r, n) == exec[x].pc \in Registering \cup {"repair", "failed", "done"}
                  /\ exec[x].run = r /\ exec[x].n = n

LeaseLapses(r) ==
    LET n == reg[r].current IN
    /\ n # 0 /\ ~att[r][n].lapsed
    /\ \/ (\A x \in Executors : ~Works(x, r, n)) /\ NoFault
       \/ /\ \E x \in Executors : Works(x, r, n)
          /\ lapses < MaxLapses /\ lapses' = lapses + 1
          /\ UNCHANGED <<faults, commands>>
    /\ att' = [att EXCEPT ![r][n].lapsed = TRUE]
    /\ UNCHANGED <<dataset, reg, obs, exec, external>>

StatusAfterExpiry(phase, count) ==
    CASE phase \in {"CATALOG_COMMITTED", "ICE_STATE_WRITING"} -> "RETRY_REQUIRED"
      [] phase = "PREPARED" -> IF count >= MaxAttempts THEN "FAILED" ELSE "RETRY_REQUIRED"
      [] OTHER -> "RECONCILING"

ExpireRegistrationAttempts(r) ==
    LET n == reg[r].current IN
    /\ n # 0 /\ Active(r, n) /\ att[r][n].lapsed
    /\ LET st == StatusAfterExpiry(att[r][n].phase, reg[r].count) IN
       /\ att' = [att EXCEPT ![r][n].status = IF st = "RECONCILING" THEN st ELSE "EXPIRED"]
       /\ reg' = [reg EXCEPT ![r] = AttemptOver(@, st)]
    /\ UNCHANGED <<dataset, obs, exec, external, budgets>>

-----------------------------------------------------------------------------
(* Reconciliation: observe the catalog and decide from the evidence.       *)
ClaimReconciliation(x, r) ==
    LET n == reg[r].recCount + 1 IN
    /\ exec[x] = Idle
    /\ reg[r].status = "RECONCILING" /\ reg[r].recStatus \in {"PENDING", "RETRY_REQUIRED"}
    /\ reg' = [reg EXCEPT ![r].recStatus = "INSPECTING", ![r].recCount = n, ![r].recCurrent = n]
    /\ obs' = [obs EXCEPT ![r] = Append(@, [active |-> TRUE, lapsed |-> FALSE])]
    /\ exec' = [exec EXCEPT ![x] = [Idle EXCEPT !.pc = "inspect", !.run = r, !.n = n]]
    /\ UNCHANGED <<dataset, att, external, budgets>>

Inspects(r, n) == reg[r].status = "RECONCILING" /\ reg[r].recStatus = "INSPECTING"
                  /\ reg[r].recCurrent = n

\* InspectCatalog reads the table and its snapshots, then the table again.
InspectCatalog(x) ==
    /\ exec[x].pc = "inspect"
    /\ \/ /\ NoFault
          /\ exec' = [exec EXCEPT ![x].pc = "confirm", ![x].start = cat.ver,
                                  ![x].marked = Referenced(exec[x].run)]
       \/ Fault /\ Goto(x, "unseen")
    /\ UNCHANGED <<dataset, reg, att, obs, external>>

\* An error after the table was loaded leaves the end identity empty.
finalizeCatalogObservation(x) ==
    /\ exec[x].pc = "confirm"
    /\ \/ NoFault /\ exec' = [exec EXCEPT ![x].pc = "record", ![x].end = cat.ver]
       \/ /\ Fault
          /\ \/ exec[x].start > 0 /\ exec' = [exec EXCEPT ![x].pc = "record", ![x].end = -1]
             \/ Goto(x, "unseen")
    /\ UNCHANGED <<dataset, reg, att, obs, external>>

\* o: the evidence; expected, o.matched: how many files; version 0: no table.
DecideReconciliation(expected, o) ==
    IF o.start # o.end THEN "INSUFFICIENT_EVIDENCE"
    ELSE IF o.start = 0 THEN "TABLE_NOT_FOUND"
    ELSE IF o.conflict THEN "CONFLICTING_COMMIT"
    ELSE IF o.matched \in 1..(expected - 1) THEN "PARTIALLY_COMMITTED"
    ELSE IF o.matched = expected /\ o.marked THEN "EXACTLY_COMMITTED"
    ELSE IF o.matched = expected /\ expected > 0 THEN "INSUFFICIENT_EVIDENCE"
    ELSE IF o.matched = 0 THEN "DEFINITELY_NOT_COMMITTED" ELSE "INSUFFICIENT_EVIDENCE"

Decision(x) ==
    LET files == IF exec[x].run \in EmptyRuns THEN 0 ELSE 1
    IN  DecideReconciliation(files,
            [start |-> exec[x].start, end |-> exec[x].end, conflict |-> FALSE,
             marked |-> exec[x].marked, matched |-> IF exec[x].marked THEN files ELSE 0])

\* The registration row once a decision is applied by observation n.
Decided(r, n, outcome) ==
    LET over == [reg[r] EXCEPT !.recCurrent = 0]
        ambiguous == reg[r].cycles + 1
    IN  CASE outcome = "EXACTLY_COMMITTED" ->
               [over EXCEPT !.status = "RETRY_REQUIRED", !.recStatus = "SUCCEEDED",
                            !.receipt = ReconciliationReceipt(r, n)]
          [] outcome \in {"DEFINITELY_NOT_COMMITTED", "TABLE_NOT_FOUND"} ->
               [over EXCEPT !.cycles = ambiguous,
                            !.status = IF ambiguous > MaxAmbiguities THEN "QUARANTINED" ELSE "RETRY_REQUIRED",
                            !.recStatus = IF ambiguous > MaxAmbiguities THEN "FAILED" ELSE "SUCCEEDED"]
          [] outcome \in {"PARTIALLY_COMMITTED", "CONFLICTING_COMMIT"} ->
               [over EXCEPT !.status = "QUARANTINED", !.recStatus = "FAILED"]
          [] OTHER -> [over EXCEPT !.recStatus = "FAILED"]

ApplyReconciliationDecision(x) ==
    LET r == exec[x].run
        n == exec[x].n
    IN  /\ exec[x].pc = "record"
        /\ \/ /\ Inspects(r, n)
              /\ obs' = [obs EXCEPT ![r][n].active = FALSE]
              /\ reg' = [reg EXCEPT ![r] = Decided(r, n, Decision(x))]
           \/ ~Inspects(r, n) /\ UNCHANGED <<obs, reg>>
        /\ Release(x)
        /\ UNCHANGED <<dataset, att, external, budgets>>

\* Mutant: the status stays INSPECTING, which no pass claims.
UnobservedStays(r, n) == [reg[r] EXCEPT !.recCurrent = 0]

\* The row when observation n ends without evidence.
Unobserved(r, n) ==
    [reg[r] EXCEPT !.recCurrent = 0,
                   !.recStatus = IF n >= MaxObservations THEN "FAILED" ELSE "RETRY_REQUIRED"]

RetryReconciliationObservation(x) ==
    LET r == exec[x].run
        n == exec[x].n
    IN  /\ exec[x].pc = "unseen"
        /\ \/ /\ obs[r][n].active
              /\ obs' = [obs EXCEPT ![r][n].active = FALSE]
              /\ reg' = [reg EXCEPT ![r] = IF reg[r].recCurrent = n THEN Unobserved(r, n) ELSE @]
           \/ ~obs[r][n].active /\ UNCHANGED <<obs, reg>>
        /\ Release(x)
        /\ UNCHANGED <<dataset, att, external, budgets>>

Observing == {"inspect", "confirm", "record", "unseen"}
Observes(x, r, n) == exec[x].pc \in Observing /\ exec[x].run = r /\ exec[x].n = n

ObservationTimesOut(x) ==
    /\ exec[x].pc \in {"inspect", "confirm"}
    /\ Fault
    /\ Goto(x, "unseen")
    /\ UNCHANGED <<dataset, reg, att, obs, external>>

ObservationLeaseLapses(r) ==
    LET n == reg[r].recCurrent IN
    /\ n # 0 /\ ~obs[r][n].lapsed
    /\ \/ (\A x \in Executors : ~Observes(x, r, n)) /\ NoFault
       \/ /\ \E x \in Executors : Observes(x, r, n)
          /\ lapses < MaxLapses /\ lapses' = lapses + 1
          /\ UNCHANGED <<faults, commands>>
    /\ obs' = [obs EXCEPT ![r][n].lapsed = TRUE]
    /\ UNCHANGED <<dataset, reg, att, exec, external>>

\* Unlike the registration lease, a lapsed one that was not expired is renewed.
RenewReconciliationLease(x) ==
    LET r == exec[x].run
        n == exec[x].n
    IN  /\ exec[x].pc \in {"inspect", "confirm"}
        /\ \/ /\ Inspects(r, n) /\ obs[r][n].lapsed
              /\ obs' = [obs EXCEPT ![r][n].lapsed = FALSE]
              /\ UNCHANGED exec
           \/ ~Inspects(r, n) /\ Goto(x, "unseen") /\ UNCHANGED obs
        /\ UNCHANGED <<dataset, reg, att, external, budgets>>

ExpireReconciliationAttempts(r) ==
    LET n == reg[r].recCurrent IN
    /\ n # 0 /\ Inspects(r, n) /\ obs[r][n].active /\ obs[r][n].lapsed
    /\ obs' = [obs EXCEPT ![r][n].active = FALSE]
    /\ reg' = [reg EXCEPT ![r] = Unobserved(r, n)]
    /\ UNCHANGED <<dataset, att, exec, external, budgets>>

-----------------------------------------------------------------------------
(* Operator requests.                                                      *)
CancelRegistration(r) ==
    LET n == reg[r].current IN
    /\ Command
    /\ \/ Queued(r) /\ reg' = [reg EXCEPT ![r].status = "CANCELED"] /\ UNCHANGED att
       \/ /\ InPhase(r, n, "PREPARED")
          /\ att' = [att EXCEPT ![r][n].status = "CANCELED"]
          /\ reg' = [reg EXCEPT ![r] = AttemptOver(@, "CANCELED")]
       \/ /\ InPhase(r, n, "EXTERNAL_COMMIT_STARTED")
          /\ att' = [att EXCEPT ![r][n].status = "RECONCILING"]
          /\ reg' = [reg EXCEPT ![r] = AttemptOver(@, "RECONCILING")]
    /\ UNCHANGED <<dataset, obs, exec, external>>

RequeueRegistrationManual(r) ==
    /\ Command
    /\ run[r] = "SUCCEEDED"
    /\ reg[r].status \in {"FAILED", "CANCELED"}
    /\ reg' = [reg EXCEPT ![r].status = "PENDING", ![r].current = 0, ![r].budget = @ + 1]
    /\ UNCHANGED <<dataset, att, obs, exec, external>>

CancelReconciliation(r) ==
    /\ Command
    /\ reg[r].status = "RECONCILING"
    /\ reg[r].recStatus \in {"PENDING", "RETRY_REQUIRED", "INSPECTING"}
    /\ obs' = [obs EXCEPT ![r] = [k \in DOMAIN @ |->
                   IF k = reg[r].recCurrent THEN [@[k] EXCEPT !.active = FALSE] ELSE @[k]]]
    /\ reg' = [reg EXCEPT ![r].recStatus = "CANCELED", ![r].recCurrent = 0]
    /\ UNCHANGED <<dataset, att, exec, external>>

-----------------------------------------------------------------------------
\* The process stops or loses leadership: nothing more is recorded.
Stop ==
    /\ Fault
    /\ \E x \in Executors : exec[x] # Idle
    /\ exec' = [x \in Executors |-> Idle]
    /\ UNCHANGED <<dataset, reg, att, obs, external>>

Step(x) ==
    \/ BeginRepair(x) \/ RegisterRunLoad(x) \/ BeforeExternalCommit(x)
    \/ requireNoOpReconciliation(x) \/ createRESTGoTable(x) \/ commitRESTGoFiles(x)
    \/ PersistCatalogReceipt(x) \/ PersistCatalogNoOpReceipt(x) \/ IceStateWriting(x)
    \/ PutIceState(x) \/ CompleteRegistration(x) \/ FailRegistrationAttempt(x)
    \/ InspectCatalog(x) \/ finalizeCatalogObservation(x)
    \/ ApplyReconciliationDecision(x) \/ RetryReconciliationObservation(x)

Interrupt(x) ==
    \/ AttemptTimesOut(x) \/ RenewalRefused(x)
    \/ ObservationTimesOut(x) \/ RenewReconciliationLease(x)

Claim(x) == \E r \in Runs : ClaimRegistration(x, r) \/ ClaimReconciliation(x, r)

Expire ==
    \E r \in Runs : LeaseLapses(r) \/ ExpireRegistrationAttempts(r)
                    \/ ObservationLeaseLapses(r) \/ ExpireReconciliationAttempts(r)

Next ==
    \/ \E r \in Runs : PublishState(r) \/ CompleteCommit(r)
    \/ \E x \in Executors : Step(x) \/ Interrupt(x) \/ Claim(x)
    \/ \E q \in sent : CatalogApplies(q) \/ CatalogLoses(q)
    \/ Expire
    \/ \E r \in Runs : CancelRegistration(r) \/ RequeueRegistrationManual(r) \/ CancelReconciliation(r)
    \/ Stop

(* The loops of the master run every few seconds, expiry has a loop of its *)
(* own, and an executor, a request and an unrenewed lease do not stand     *)
(* still for ever.                                                         *)
SomeCommitApplies == \E q \in sent : CatalogApplies(q)

Fairness ==
    /\ \A x \in Executors : WF_vars(Step(x)) /\ WF_vars(Claim(x))
    /\ WF_vars(Expire) /\ WF_vars(SomeCommitApplies)

Spec == Init /\ [][Next]_vars /\ Fairness

-----------------------------------------------------------------------------
Statuses == {"NONE", "PENDING", "REGISTERING", "RETRY_REQUIRED", "RECONCILING",
             "REGISTERED", "FAILED", "QUARANTINED", "CANCELED"}
RecStatuses == {"NONE", "PENDING", "RETRY_REQUIRED", "INSPECTING", "SUCCEEDED", "FAILED", "CANCELED"}

(* Type invariant: the rows, and that a current attempt is an existing one *)
(* of a registration that is being registered or inspected.                *)
RegistrationTypeOK ==
    /\ run \in [Runs -> {"OPEN", "PUBLISHED", "SUCCEEDED"}]
    /\ lastRun \in Runs \cup {NoRun}
    /\ \A r \in Runs :
         /\ reg[r].status \in Statuses /\ reg[r].recStatus \in RecStatuses
         /\ reg[r].current \in 0..Len(att[r]) /\ Len(att[r]) = reg[r].count
         /\ reg[r].recCurrent \in 0..Len(obs[r]) /\ Len(obs[r]) = reg[r].recCount
         /\ (reg[r].current # 0) <=> (reg[r].status = "REGISTERING")
         /\ (reg[r].recCurrent # 0) <=> (reg[r].recStatus = "INSPECTING")

(* The data of a run enters the table at most once, whatever is retried,   *)
(* reconciled, replayed or left in flight.                                 *)
CommittedOnce ==
    \A i, j \in DOMAIN cat.snaps : cat.snaps[i] = cat.snaps[j] => i = j

(* The catalog receives the runs of a dataset in commit order, whichever   *)
(* of them are retried or reconciled.                                      *)
CatalogInOrder ==
    \A i, j \in DOMAIN cat.snaps : i < j => reg[cat.snaps[i]].seq < reg[cat.snaps[j]].seq

(* READY is honest: a registration marked REGISTERED has its files in the  *)
(* table, or had none and the table exists.                                *)
RegisteredIsQueryable ==
    \A r \in Runs : reg[r].status = "REGISTERED" =>
        IF r \in EmptyRuns THEN cat.exists ELSE Referenced(r)

(* A durable receipt is a proof, whatever attempt or observation still runs *)
(* with a lost lease: the catalog holds what it says, it is never           *)
(* withdrawn, and no attempt sends the commit again.                        *)
ReceiptForbidsReplay ==
    \A r \in Runs : reg[r].receipt # NoReceipt =>
        /\ r \in EmptyRuns \/ Referenced(r)
        /\ reg'[r].receipt # NoReceipt
        /\ \A q \in sent' \ sent : q.run # r

(* What the rows say of the catalog is so in every state, and what a       *)
(* receipt says stays so.                                                  *)
CatalogIsHonest ==
    /\ [](CatalogInOrder /\ RegisteredIsQueryable)
    /\ [][ReceiptForbidsReplay]_vars

(* The registration at the head of its queue is decided or waits for an    *)
(* operator: no attempt, observation or lease holds it for ever.           *)
AtHead(r) == reg[r].seq > 0 /\ First(r)
HeadSettled(r) ==
    \/ reg[r].status \in {"REGISTERED", "FAILED", "QUARANTINED", "CANCELED"}
    \/ reg[r].status = "RECONCILING" /\ reg[r].recStatus \in {"FAILED", "CANCELED"}
HeadIsDecided == \A r \in Runs : []<>(AtHead(r) => HeadSettled(r))

=============================================================================
