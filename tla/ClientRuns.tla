----------------------------- MODULE ClientRuns -----------------------------
(***************************************************************************)
(* `orabbit-client run submit`, `run watch`, `run cancel` and the watching *)
(* half of `run interactive` (internal/orabbitcli), against the events the *)
(* master stores and broadcasts for the run (internal/grpc, internal/http, *)
(* internal/db).                                                           *)
(*                                                                         *)
(* A client submits with four HTTP calls: the two connections, the job and *)
(* the run.  Connections and jobs are looked up by name and updated when   *)
(* they exist, so clients that use one name share the row; the names of    *)
(* connections are unique, those of jobs are not.  It then follows         *)
(* the run over server-sent events until a terminal message, and turns     *)
(* what it saw into an exit code.  Bounds: one run is followed, and        *)
(* MaxBreaks streams may break.                                            *)
(***************************************************************************)
EXTENDS Integers, Sequences, FiniteSets

CONSTANTS
    Clients,        \* the command line invocations
    Interactive,    \* those that are `run interactive`; the rest `run submit` then `run watch`
    Registers,      \* whether the job registers its output in a catalog
    ChanSize,       \* capacity of a subscriber's channel (128 in the code)
    MaxBreaks,      \* streams that break or end early
    NoOne

ClientAssumption ==
    /\ Interactive \subseteq Clients
    /\ Registers \in BOOLEAN
    /\ ChanSize \in Nat \ {0} /\ MaxBreaks \in Nat
    /\ NoOne \notin Clients

VARIABLES
    conn,       \* whose source connection is stored under the shared name
    job,        \* the job rows of the shared name, oldest first: whose definition each holds
    run,        \* [status, owner, source]: the run and the configuration it took
    reg,        \* its registration
    rows,       \* the stored run events, in order
    unsent,     \* events stored and not yet handed to the broadcaster
    client,     \* [Clients -> what the invocation is doing]
    breaks

clientVars == <<conn, job, run, reg, rows, unsent, client, breaks>>

Terminal == {"SUCCEEDED", "FAILED", "CANCELED"}
RunStatuses == {"NONE", "RUNNING", "COMMITTING"} \cup Terminal

\* The messages of internal/grpc and internal/http a watching client looks at.
\* "run COMMITTING" and "attempt failed" are printed and otherwise ignored.
Messages == {"run COMMITTING", "run FAILED", "run CANCELED", "run committed",
             "iceberg registration SUCCEEDED", "attempt failed"}

ExitSuccess == 0
ExitOperational == 1
ExitInterrupted == 130

NoWatch == [subscribed |-> FALSE, chan |-> <<>>, inbox |-> <<>>,
            committed |-> FALSE, registrationDone |-> FALSE, runStatus |-> ""]

\* At least one client runs; each one starts with its first HTTP call.
ClientsInit ==
    /\ conn = NoOne /\ job = <<>>
    /\ run = [status |-> "NONE", owner |-> NoOne, source |-> NoOne]
    /\ reg = "none"
    /\ rows = <<>> /\ unsent = {}
    /\ client = [c \in Clients |-> [pc |-> "source", found |-> 0, exit |-> -1, watch |-> NoWatch]]
    /\ breaks = 0

At(c, pc) == client[c].pc = pc
Goto(c, pc) == client' = [client EXCEPT ![c].pc = pc]
Exit(c, code) ==
    client' = [client EXCEPT ![c].pc = "done", ![c].exit = code, ![c].found = 0,
                             ![c].watch.subscribed = FALSE]

-----------------------------------------------------------------------------
(* Submission: prepareRunPlan, then startRun.                              *)

\* upsertConnection: list, then update the row of that name or create it.  A
\* name taken since the list makes the create fail and the command end.
ListConnections(c) ==
    /\ At(c, "source")
    /\ client' = [client EXCEPT ![c].pc = "putSource", ![c].found = IF conn = NoOne THEN 0 ELSE 1]
    /\ UNCHANGED <<conn, job, run, reg, rows, unsent, breaks>>

upsertConnection(c) ==
    /\ At(c, "putSource")
    /\ IF client[c].found = 0 /\ conn # NoOne
         THEN /\ Exit(c, ExitOperational)
              /\ UNCHANGED conn
         ELSE /\ conn' = c
              /\ Goto(c, "job")
    /\ UNCHANGED <<job, run, reg, rows, unsent, breaks>>

\* upsertJob: of the rows of that name the list has the newest first, and
\* found = 0 when there is none.  A name taken since then gets a second row.
ListJobs(c) ==
    /\ At(c, "job")
    /\ client' = [client EXCEPT ![c].pc = "putJob", ![c].found = Len(job)]
    /\ UNCHANGED <<conn, job, run, reg, rows, unsent, breaks>>

upsertJob(c) ==
    /\ At(c, "putJob")
    /\ \/ /\ client[c].found = 0
          /\ job' = Append(job, c)
          /\ client' = [client EXCEPT ![c].pc = "start", ![c].found = Len(job) + 1]
       \/ /\ client[c].found > 0
          /\ job' = [job EXCEPT ![client[c].found] = c]
          /\ Goto(c, "start")
    /\ UNCHANGED <<conn, run, reg, rows, unsent, breaks>>

\* POST /jobs/{id}/runs: the master snapshots whatever the row holds now, and
\* refuses while the dataset has a run (RunSubmission models the planning).
startRun(c) ==
    /\ At(c, "start")
    /\ \/ /\ run.status = "NONE"
          /\ run' = [status |-> "RUNNING", owner |-> job[client[c].found], source |-> conn]
          /\ client' = [client EXCEPT ![c].pc = IF c \in Interactive THEN "connect" ELSE "details",
                                      ![c].found = 0]
       \/ /\ run.status # "NONE"
          /\ Exit(c, ExitOperational)
          /\ UNCHANGED run
    /\ UNCHANGED <<conn, job, reg, rows, unsent, breaks>>

-----------------------------------------------------------------------------
(* The master: what it stores and publishes about the run.                 *)

Store(m) == rows' = Append(rows, m) /\ unsent' = unsent \cup {m}

\* ReportTaskResult: TryFinalizeRun moves the run to COMMITTING or FAILED and
\* the event carries the new status.
TryFinalizeRun ==
    /\ run.status = "RUNNING"
    /\ \E s \in {"COMMITTING", "FAILED"} :
          /\ run' = [run EXCEPT !.status = s]
          /\ Store(IF s = "FAILED" THEN "run FAILED" ELSE "run COMMITTING")
    /\ UNCHANGED <<conn, job, reg, client, breaks>>

\* CompleteRunCommit stores "run committed" with the new status; the committer
\* publishes it afterwards.
CompleteRunCommit ==
    /\ run.status = "COMMITTING"
    /\ run' = [run EXCEPT !.status = "SUCCEEDED"]
    /\ reg' = IF Registers THEN "queued" ELSE "none"
    /\ Store("run committed")
    /\ UNCHANGED <<conn, job, client, breaks>>

\* A commit that cannot succeed ends the run and tells the watchers.
CommitFails ==
    /\ run.status = "COMMITTING"
    /\ run' = [run EXCEPT !.status = "FAILED"]
    /\ Store("run FAILED")
    /\ UNCHANGED <<conn, job, reg, client, breaks>>

\* `run cancel` from some terminal: refused once the run is committing.
handleRunCancel ==
    /\ run.status = "RUNNING"
    /\ run' = [run EXCEPT !.status = "CANCELED"]
    /\ Store("run CANCELED")
    /\ UNCHANGED <<conn, job, reg, client, breaks>>

\* The registration queue stores its events and never publishes them.
RegistrationStep ==
    /\ reg = "queued"
    /\ \/ /\ reg' = "registered"
          /\ rows' = Append(rows, "iceberg registration SUCCEEDED")
       \/ /\ reg' = "failed"
          /\ rows' = Append(rows, "attempt failed")
    /\ UNCHANGED <<conn, job, run, unsent, client, breaks>>

\* Broadcaster.Publish: every subscriber's channel gets the event unless full.
Publish(m) ==
    /\ m \in unsent
    /\ unsent' = unsent \ {m}
    /\ client' = [c \in Clients |->
                    IF client[c].watch.subscribed /\ Len(client[c].watch.chan) < ChanSize
                      THEN [client[c] EXCEPT !.watch.chan = Append(@, m)]
                      ELSE client[c]]
    /\ UNCHANGED <<conn, job, run, reg, rows, breaks>>

-----------------------------------------------------------------------------
(* Watching: cmdRunWatch, streamSSE and the end of cmdRunInteractive.      *)

\* Mutant: every status that is not a failure is taken for success.
ZeroUnlessFailed(status) == IF status \in {"FAILED", "CANCELED"} THEN ExitOperational ELSE ExitSuccess

exitStatusForRun(status) == IF status = "SUCCEEDED" THEN ExitSuccess ELSE ExitOperational

\* cmdRunWatch asks for the run first and does not stream a finished one.
getRunDetails(c) ==
    /\ At(c, "details")
    /\ IF run.status \in Terminal
         THEN Exit(c, exitStatusForRun(run.status))
         ELSE Goto(c, "connect")
    /\ UNCHANGED <<conn, job, run, reg, rows, unsent, breaks>>

\* SSEHandler subscribes, then replays what is stored.
Connect(c) ==
    /\ At(c, "connect")
    /\ client' = [client EXCEPT ![c].pc = "replay",
                    ![c].watch = [NoWatch EXCEPT !.subscribed = TRUE,
                                    !.registrationDone = ~(c \in Interactive /\ Registers)]]
    /\ UNCHANGED <<conn, job, run, reg, rows, unsent, breaks>>

Replay(c) ==
    /\ At(c, "replay")
    /\ client' = [client EXCEPT ![c].pc = "scan", ![c].watch.inbox = rows]
    /\ UNCHANGED <<conn, job, run, reg, rows, unsent, breaks>>

\* What one event changes in the client's view of the run.
Seen(w, m) ==
    CASE m = "run committed" -> [w EXCEPT !.committed = TRUE]
      [] m = "iceberg registration SUCCEEDED" -> [w EXCEPT !.registrationDone = TRUE]
      [] m = "run SUCCEEDED" -> [w EXCEPT !.runStatus = "SUCCEEDED"]
      [] m \in {"run FAILED", "run CANCELED"} ->
            [w EXCEPT !.runStatus = IF m = "run FAILED" THEN "FAILED" ELSE "CANCELED"]
      [] OTHER -> w

\* A failed or canceled run is reported at once; a successful one only when
\* status, commit and registration have all been seen.
StreamOver(w) ==
    \/ w.runStatus \in {"FAILED", "CANCELED"}
    \/ w.runStatus = "SUCCEEDED" /\ w.committed /\ w.registrationDone

Scan(c) ==
    /\ At(c, "scan")
    /\ LET w == client[c].watch
           replaying == w.inbox # <<>>
           m == Head(IF replaying THEN w.inbox ELSE w.chan)
           rest == IF replaying THEN [w EXCEPT !.inbox = Tail(@)] ELSE [w EXCEPT !.chan = Tail(@)]
           seen == Seen(rest, m)
       IN /\ replaying \/ w.chan # <<>>
          /\ client' = [client EXCEPT ![c] =
               IF StreamOver(seen)
                 THEN [@ EXCEPT !.pc = "done", !.exit = exitStatusForRun(seen.runStatus),
                                !.watch = [seen EXCEPT !.subscribed = FALSE]]
                 ELSE [@ EXCEPT !.watch = seen]]
    /\ UNCHANGED <<conn, job, run, reg, rows, unsent, breaks>>

\* A broken stream falls back to asking for the status once, whatever it is.
StreamBreaks(c) ==
    /\ client[c].pc \in {"replay", "scan"}
    /\ breaks < MaxBreaks /\ breaks' = breaks + 1
    /\ client' = [client EXCEPT ![c].pc = "status", ![c].watch.subscribed = FALSE]
    /\ UNCHANGED <<conn, job, run, reg, rows, unsent>>

getRunStatus(c) ==
    /\ At(c, "status")
    /\ Exit(c, exitStatusForRun(run.status))
    /\ UNCHANGED <<conn, job, run, reg, rows, unsent, breaks>>

\* The stream ends without an error (the master stops): no status was seen.
StreamEnds(c) ==
    /\ client[c].pc \in {"replay", "scan"}
    /\ breaks < MaxBreaks /\ breaks' = breaks + 1
    /\ Exit(c, exitStatusForRun(""))
    /\ UNCHANGED <<conn, job, run, reg, rows, unsent>>

Interrupt(c) ==
    /\ client[c].pc # "done"
    /\ breaks < MaxBreaks /\ breaks' = breaks + 1
    /\ Exit(c, ExitInterrupted)
    /\ UNCHANGED <<conn, job, run, reg, rows, unsent>>

-----------------------------------------------------------------------------
ClientStep(c) ==
    \/ ListConnections(c) \/ upsertConnection(c) \/ ListJobs(c) \/ upsertJob(c) \/ startRun(c)
    \/ getRunDetails(c) \/ Connect(c) \/ Replay(c) \/ Scan(c) \/ getRunStatus(c)

ClientsNext ==
    \/ \E c \in Clients : ClientStep(c) \/ StreamBreaks(c) \/ StreamEnds(c) \/ Interrupt(c)
    \/ TryFinalizeRun \/ CompleteRunCommit \/ CommitFails \/ handleRunCancel \/ RegistrationStep
    \/ \E m \in Messages : Publish(m)

ClientsSpec == ClientsInit /\ [][ClientsNext]_clientVars

-----------------------------------------------------------------------------
\* The state has the shape internal/orabbitcli and the run row give it.
ClientsTypeOK ==
    /\ {conn, run.owner, run.source} \subseteq Clients \cup {NoOne}
    /\ job \in Seq(Clients) /\ Len(job) <= Cardinality(Clients)
    /\ run.status \in RunStatuses
    /\ reg \in {"none", "queued", "registered", "failed"}
    /\ rows \in Seq(Messages) /\ unsent \subseteq Messages
    /\ \A c \in Clients :
          /\ client[c].exit \in {-1, ExitSuccess, ExitOperational, ExitInterrupted}
          /\ (client[c].pc = "done") <=> (client[c].exit # -1)
          /\ Len(client[c].watch.chan) <= ChanSize

\* An invocation that exits 0 followed a run that the master holds SUCCEEDED:
\* neither a replayed event, a broken stream's single status request nor a
\* stream that ends early turns an unfinished or failed run into success
\* (cmdRunWatch, streamSSE, exitStatusForRun).
ExitZeroMeansSucceeded ==
    \A c \in Clients : client[c].exit = ExitSuccess => run.status = "SUCCEEDED"

=============================================================================
