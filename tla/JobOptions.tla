---------------------------- MODULE JobOptions ----------------------------
(***************************************************************************)
(* A job's options_json on its way from a caller to a run plan.            *)
(*                                                                         *)
(* Three writers store a job: PUT/POST /jobs (validateJobRequest, strict), *)
(* `run submit` of the command line (its own validation, then the same     *)
(* endpoint) and POST /api/runs/submit (its own validation, then a direct  *)
(* upsert).  Starting a run validates the stored job again (lenient),      *)
(* tunes the omitted values from the source's statistics, and writes the   *)
(* tuned options back to the job, where the next run reads them.           *)
(*                                                                         *)
(* Sizes are in MiB, memory in GiB and row counts in thousands.  A text    *)
(* (query, where clause, pool, format, column types, lookback) is only     *)
(* "none", "ok" or "bad", as the parser of its kind judges it.             *)
(***************************************************************************)
EXTENDS Integers, FiniteSets, TLC

CONSTANTS Engines,         \* the source engines jobs use
          MaxFetchSize,    \* connectors.MaxFetchSize, scaled down
          MaxDeviations,   \* how many options of a job differ from the base job
          Cpus, Mems,      \* hosts the master runs on (0: memory unknown)
          Workers,         \* counts of active workers
          TableSizes,      \* source table sizes (0: unknown)
          RowCounts,       \* source row counts (0: unknown)
          MaxRuns          \* runs started per history

JobOptionsAssumption ==
    /\ Engines \subseteq {"postgres", "cassandra", "mongodb", "s3", "flightsql"}
    /\ MaxFetchSize \in Nat \ {0}
    /\ MaxDeviations \in 0..2
    /\ MaxRuns \in Nat

VARIABLES job,     \* the stored job, or NoJob
          asked,   \* the options its caller last stored (history)
          sticky,  \* a run's own target_file_size has been stored on the job
          run,     \* the last run's plan and the statistics it was made from
          last,    \* who asked last, and the answer
          runs     \* runs started so far

jobVars == <<job, asked, sticky, run, last, runs>>

-----------------------------------------------------------------------------
(* What the build's engines can do.                                        *)

SupportsOrderedCursor(e) == e \in {"postgres", "cassandra", "mongodb"}

SupportsDocumentReader(e) == e \in {"mongodb", "s3"}

SupportsQueryMode(e) == e \in {"postgres", "cassandra"}

SupportsQueryModeWhereClause(e) == e = "postgres"

SupportsRangeCount(e) == e = "postgres"

-----------------------------------------------------------------------------
(* options_json.                                                           *)

Base == [strategy |-> "ordered_cursor", mode |-> "", table |-> TRUE,
         query |-> "none", where |-> "none", cursor |-> TRUE,
         consistency |-> "", planned |-> 0, plannedSource |-> "",
         inFlight |-> 0, inFlightSource |-> "", file |-> 0, rows |-> 0,
         multiplier |-> 0, chunk |-> 0, fetch |-> 0, pool |-> "none",
         format |-> "none", keys |-> FALSE, unknown |-> FALSE,
         recon |-> "none", types |-> "none", lookback |-> "none"]

Deviations ==
    {[strategy |-> s] : s \in {"", "int_range", "cursor", "cdc_stream", "other"}}
    \cup {[mode |-> m] : m \in {"query", "sql", "other"}}
    \cup {[mode |-> "query", query |-> q, table |-> FALSE] : q \in {"ok", "bad"}}
    \cup {[where |-> w] : w \in {"ok", "bad"}}
    \cup {[table |-> FALSE], [cursor |-> FALSE], [keys |-> TRUE], [unknown |-> TRUE]}
    \cup {[consistency |-> c] : c \in {"STRONG_SNAPSHOT", "STRONG_CDC", "other"}}
    \cup {[planned |-> n] : n \in {-1, 6}}
    \cup {[planned |-> 6, plannedSource |-> "inferred"]}
    \cup {[inFlight |-> n] : n \in {-1, 2}}
    \cup {[file |-> n] : n \in {-1, 128, 256}}
    \cup {[rows |-> n] : n \in {-1, 100}}
    \cup {[chunk |-> n] : n \in {-1, 5}}
    \cup {[fetch |-> n] : n \in {-1, MaxFetchSize, MaxFetchSize + 1}}
    \cup {[pool |-> p] : p \in {"ok", "bad"}}
    \cup {[format |-> f] : f \in {"ok", "bad"}}
    \cup {[recon |-> r] : r \in {"off", "count", "bad", "typo"}}
    \cup {[types |-> t] : t \in {"ok", "bad"}}
    \cup {[lookback |-> t] : t \in {"ok", "bad"}}

OptionSets ==
    {Base}
    \cup (IF MaxDeviations > 0 THEN {d @@ Base : d \in Deviations} ELSE {})
    \cup (IF MaxDeviations > 1
          THEN {p[1] @@ (p[2] @@ Base) : p \in Deviations \X Deviations} ELSE {})

NormalizedPartitionStrategy(o) ==
    CASE o.strategy \in {"", "single"} -> "single"
      [] o.strategy \in {"int_range", "ordered_cursor", "cursor_range", "cursor"} -> "ordered_cursor"
      [] OTHER -> o.strategy

NormalizedSourceMode(o) ==
    CASE o.mode \in {"", "table"} -> "table"
      [] o.mode \in {"query", "sql"} -> "query"
      [] OTHER -> o.mode

\* The query a query-mode job runs: the option, or else the job's source_sql.
sourceQueryForJob(o, sql) == IF o.query # "none" THEN o.query ELSE sql

\* EffectiveReconciliation(o).Enabled()
ReconciliationEnabled(o) == o.recon = "count"

validateReconciliation(o) ==
    \/ o.recon \in {"none", "off"}
    \/ o.recon = "count" /\ NormalizedPartitionStrategy(o) = "ordered_cursor"

ValidateReconciliationEngine(o, e) == ReconciliationEnabled(o) => SupportsRangeCount(e)

ValidateWhereClauseEngine(o, e) ==
    NormalizedSourceMode(o) = "query" /\ o.where # "none" => SupportsQueryModeWhereClause(e)

ValidateWriteMode(write, incremental) ==
    write \in {"", IF incremental THEN "append" ELSE "overwrite"}

EffectiveWriteMode(write, incremental) ==
    IF write \in {"append", "overwrite"} THEN write
    ELSE IF incremental THEN "append" ELSE "overwrite"

Counts == {"planned", "inFlight", "file", "rows", "multiplier", "chunk", "fetch"}

strictOnlyChecks(o) ==
    {c \in Counts : o[c] < 0}
    \cup {c \in {"consistency"} : o.consistency \notin {"", "EVENTUAL", "STRONG_SNAPSHOT", "STRONG_CDC"}}

rejectPartitionKeys(o) == {k \in {"keys"} : o.keys}

\* Unknown keys and values of the wrong shape: later checks are not reached.
ShapeErrors(o, strict) ==
    {k \in {"unknown"} : strict /\ o.unknown} \cup {k \in {"recon"} : o.recon = "typo"}

\* The options an error is reported for.
Validate(o, sql, strict) ==
    IF ShapeErrors(o, strict) # {} THEN ShapeErrors(o, strict)
    ELSE {f \in {"strategy", "consistency", "mode", "query", "pool", "where", "types",
                 "lookback", "format", "fetch", "recon"} :
            \/ f = "strategy" /\ NormalizedPartitionStrategy(o) \notin {"single", "ordered_cursor"}
            \/ f = "consistency" /\ o.consistency = "STRONG_CDC"
            \/ f = "mode" /\ NormalizedSourceMode(o) \notin {"table", "query"}
            \/ f = "query" /\ NormalizedSourceMode(o) = "query" /\ sourceQueryForJob(o, sql) # "ok"
            \/ f \in {"pool", "where", "types", "lookback", "format"} /\ o[f] = "bad"
            \/ f = "fetch" /\ o.fetch > MaxFetchSize
            \/ f = "recon" /\ ~validateReconciliation(o)}
         \cup (IF strict THEN strictOnlyChecks(o) \cup rejectPartitionKeys(o) ELSE {})

\* Defaults of omitted options; the cursor column falls back to "ID".
Parse(o) ==
    [o EXCEPT !.strategy = NormalizedPartitionStrategy(o),
              !.mode = NormalizedSourceMode(o),
              !.cursor = TRUE,
              !.rows = IF @ > 0 THEN @ ELSE 200,
              !.multiplier = IF @ > 0 THEN @ ELSE 2,
              !.file = IF @ > 0 THEN @ ELSE 256]

\* options_json after the tuned options were merged into it.
MergeInto(o, raw) ==
    [o EXCEPT !.fetch = IF @ > 0 THEN @ ELSE 0,
              !.pool = raw.pool, !.unknown = raw.unknown]
-----------------------------------------------------------------------------
(* Planning.                                                               *)

Envs == [cpus : Cpus, mem : Mems, local : BOOLEAN, workers : Workers,
         table : TableSizes, count : RowCounts, column : {"good", "nullable", "missing"}]

Least(a, b) == IF a < b THEN a ELSE b
Most(a, b) == IF a > b THEN a ELSE b
CeilDiv(a, b) == (a + b - 1) \div b

\* Tasks the master's host can carry: CPUs, 1.5 GiB each, and fewer when the
\* source or the object store shares the machine.
heuristicMaxInFlightTasks(env) ==
    LET ramCap == IF env.mem = 0 THEN 32 ELSE Most((env.mem * 2) \div 3, 2)
        n == Least(Least(Most(env.cpus, 2), ramCap), 32)
        localCap == CASE env.mem \in 1..12 -> 2
                      [] env.mem \in 13..24 -> 4
                      [] env.mem = 0 \/ env.mem \in 25..64 -> 8
                      [] env.mem > 64 -> 16
    IN IF env.local THEN Least(n, localCap) ELSE n

adaptiveFallbackRowsPerTask(rows, count) ==
    IF rows # 200 \/ count <= 1000 THEN rows
    ELSE IF count <= 10000 THEN 500 ELSE 1000

\* The default file size follows the concurrency once the table's size is known.
TargetFileSize(file, inFlight, table) ==
    IF file # 256 \/ table = 0 THEN file
    ELSE IF inFlight <= 2 THEN IF table <= 8 * 1024 THEN 1024 ELSE 512
    ELSE IF inFlight <= 8 THEN 512 ELSE 256

\* Mutant: inferred values count as the caller's.
KeepResolved(o) == o

\* A value an earlier run resolved is not the caller's.
ForgetResolved(o) ==
    [o EXCEPT !.planned = IF o.plannedSource = "inferred" THEN 0 ELSE @,
              !.inFlight = IF o.inFlightSource = "inferred" THEN 0 ELSE @]

PlannedTasks(o, file, inFlight, concurrency, env) ==
    LET minTasks == Most(concurrency * o.multiplier, 1)
        byBytes == IF env.table > 0 /\ env.count > 0 THEN CeilDiv(env.table, file * 4) ELSE 0
        byRows == CeilDiv(env.count, adaptiveFallbackRowsPerTask(o.rows, env.count))
        wanted == IF byBytes > 0 THEN byBytes ELSE byRows
        maxTasks == Least(Most(inFlight * 64, 128), 4096)
    IN Least(Most(wanted, minTasks), maxTasks)

\* autoTuneCursorPlanWithDecisionUsingHeuristic over a splittable cursor.
autoTune(opts, env) ==
    LET o == ForgetResolved(opts)
        explicitInFlight == o.inFlight > 0
        explicitPlanned == o.planned > 0
        inFlight == IF explicitInFlight THEN o.inFlight ELSE heuristicMaxInFlightTasks(env)
        concurrency == IF ~explicitInFlight /\ env.workers > 0
                       THEN Least(inFlight, env.workers) ELSE inFlight
        file == TargetFileSize(o.file, inFlight, env.table)
        planned == PlannedTasks(o, file, inFlight, concurrency, env)
        source == IF explicitInFlight THEN "explicit" ELSE "inferred"
    IN IF explicitPlanned
       THEN [o EXCEPT !.inFlight = inFlight, !.plannedSource = "explicit", !.inFlightSource = source]
       ELSE [o EXCEPT !.planned = planned, !.plannedSource = "inferred", !.file = file,
                      !.inFlight = IF ~explicitInFlight /\ env.workers > 0
                                   THEN Least(planned, env.workers) ELSE inFlight,
                      !.inFlightSource = source]

Plan(o) == [planned |-> o.planned, inFlight |-> o.inFlight, file |-> o.file]

validateStoredJob(j) ==
    Validate(j.opts, j.sql, FALSE)
        \cup {w \in {"write_mode"} : ~ValidateWriteMode(j.write, j.incremental)}

\* Refused before a run exists: the configuration itself is invalid.
ConfigurationInvalid(j) ==
    \/ validateStoredJob(j) # {}
    \/ ~ValidateReconciliationEngine(Parse(j.opts), j.engine)
    \/ ~ValidateWhereClauseEngine(Parse(j.opts), j.engine)

\* Refused by the planner once the run exists; the run is failed.
PlanningFails(j, o, env) ==
    /\ o.strategy = "ordered_cursor"
    /\ \/ ~SupportsOrderedCursor(j.engine)
       \/ o.mode = "table" /\ ~o.table
       \/ o.mode = "query" /\ ~SupportsQueryMode(j.engine)
       \/ env.column = "missing" /\ (j.incremental \/ ReconciliationEnabled(o))
       \/ env.column = "nullable"

\* One task for everything: nothing is tuned and nothing is written back.
SingleTask(o, env) == o.strategy = "single" \/ env.column = "missing"

\* createRunForJobRequest's effect on the options it read: the run's own
\* Iceberg target_file_size replaces the job's.
WithRegistrationFileSize(o, size) == IF size > 0 THEN [o EXCEPT !.file = size] ELSE o
-----------------------------------------------------------------------------
(* The three writers.                                                      *)

NoJob == [origin |-> "none", engine |-> "none", incremental |-> FALSE, write |-> "",
          sql |-> "none", opts |-> Base]

NoRun == [status |-> "none", plan |-> Plan(Base), env |-> [workers |-> 0]]

JobsInit ==
    /\ job = NoJob
    /\ asked = Base
    /\ sticky = FALSE
    /\ run = NoRun
    /\ last = [by |-> "none", answer |-> "none"]
    /\ runs = 0

\* Mutant: the rules that depend on the engine are not applied.
OptionsOnly(j) ==
    Validate(j.opts, j.sql, TRUE)
        \cup {w \in {"write_mode"} : ~ValidateWriteMode(j.write, j.incremental)}

validateJobRequest(j) ==
    Validate(j.opts, j.sql, TRUE)
        \cup {w \in {"write_mode"} : ~ValidateWriteMode(j.write, j.incremental)}
        \cup {r \in {"recon"} : /\ Parse(j.opts).pool # "bad"
                                /\ ~ValidateReconciliationEngine(Parse(j.opts), j.engine)}
        \cup {w \in {"where"} : /\ Parse(j.opts).pool # "bad"
                                /\ ~ValidateWhereClauseEngine(Parse(j.opts), j.engine)}

Answer(by, answer) == last' = [by |-> by, answer |-> answer]

Stored(j) ==
    /\ job' = j
    /\ asked' = j.opts
    /\ sticky' = FALSE
    /\ run' = NoRun
    /\ UNCHANGED runs

Refused == UNCHANGED <<job, asked, sticky, run, runs>>

\* PUT /jobs/{id}
handleJobByID(j) ==
    IF validateJobRequest(j) # {} THEN Answer("put", "refused") /\ Refused
    ELSE Answer("put", "stored") /\ Stored(j)

PutJob ==
    \E o \in OptionSets, e \in Engines, inc \in BOOLEAN, w \in {"", "append"}, q \in {"none", "ok"} :
        handleJobByID([origin |-> "put", engine |-> e, incremental |-> inc, write |-> w,
                       sql |-> q, opts |-> o])

\* GET /jobs/{id}, then PUT of what it returned.
SaveBack ==
    /\ job # NoJob
    /\ IF validateJobRequest(job) # {} THEN Answer("saveback", "refused") /\ Refused
       ELSE Answer("saveback", "stored") /\ Stored([job EXCEPT !.origin = "put"])

\* runSubmitFile.validate and validateRunConfigForSubmission
ManualPlanning(s) == {s.inFlight, s.rows, s.planned, s.chunk, s.fetch} # {0}

\* Mutant: the fetch size has no upper bound.
AcceptAnyFetch(s) ==
    \A v \in {s.inFlight, s.rows, s.planned, s.chunk, s.fetch} : v >= 0

validateNumbers(s) ==
    /\ \A v \in {s.inFlight, s.rows, s.planned, s.chunk} : v >= 0
    /\ s.fetch \in 0..MaxFetchSize

validate(s) ==
    /\ s.table
    /\ ValidateWriteMode(s.write, s.incremental)
    /\ validateNumbers(s)
    /\ \/ /\ s.engine = "flightsql"
          /\ s.sql # "none" /\ ~s.incremental /\ ~s.cursor /\ ~s.autoTune
          /\ ~ManualPlanning(s)
       \/ /\ SupportsOrderedCursor(s.engine)
          /\ s.sql = "none" /\ s.cursor
          /\ IF s.autoTune THEN s.planned = 0 /\ s.chunk = 0
             ELSE s.inFlight > 0 /\ (s.planned > 0 \/ s.rows > 0 \/ s.chunk > 0)

buildJobPayloadFromConfig(s) ==
    LET cursor == SupportsOrderedCursor(s.engine)
        inc == cursor /\ s.incremental
    IN [origin |-> "cli", engine |-> s.engine, incremental |-> inc,
        write |-> EffectiveWriteMode(s.write, inc), sql |-> s.sql,
        opts |-> IF cursor
                 THEN [Base EXCEPT !.inFlight = s.inFlight, !.rows = s.rows, !.planned = s.planned,
                                   !.chunk = s.chunk, !.fetch = s.fetch]
                 ELSE [Base EXCEPT !.strategy = "single", !.cursor = FALSE, !.inFlight = 1]]

Specs == [engine : Engines, incremental : BOOLEAN, write : {"", "append", "overwrite"},
          sql : {"none", "ok"}, table : BOOLEAN, cursor : BOOLEAN, autoTune : BOOLEAN,
          inFlight : {0, 2}, rows : {0, 100}, planned : {0, 6}, chunk : {0, 5},
          fetch : {0, MaxFetchSize, MaxFetchSize + 1}]

\* `run submit`: validate the file, then store the job through the API.
cmdRunSubmit ==
    /\ job = NoJob
    /\ \E s \in Specs :
          IF ~validate(s) THEN Answer("cli", "client refused") /\ Refused
          ELSE IF validateJobRequest(buildJobPayloadFromConfig(s)) # {}
               THEN Answer("cli", "refused") /\ Refused
               ELSE Answer("cli", "stored") /\ Stored(buildJobPayloadFromConfig(s))

\* The submit's block is checked as an ordered-cursor job's would be.
validateSubmitReconciliation(o, e) ==
    \/ o.recon = "none"
    \/ /\ validateReconciliation([o EXCEPT !.strategy = "ordered_cursor"])
       /\ ValidateReconciliationEngine(o, e)

validateRunSubmitRequest(o, e, inc) ==
    LET mode == IF o.mode # "" THEN NormalizedSourceMode(o)
                ELSE IF o.query # "none" THEN "query" ELSE "table"
    IN /\ o.types # "bad"
       /\ o.table # (o.query # "none")
       /\ \/ /\ mode = "table" /\ o.table
             /\ SupportsOrderedCursor(e) \/ SupportsDocumentReader(e)
          \/ mode = "query" /\ SupportsQueryMode(e) /\ o.query = "ok"
       /\ o.cursor \/ ~inc \/ SupportsDocumentReader(e)
       /\ \A c \in {"inFlight", "planned", "rows", "file"} : o[c] >= 0
       /\ o.consistency # "STRONG_CDC"
       /\ validateSubmitReconciliation(o, e)
       /\ o.where # "bad"
       /\ ValidateWhereClauseEngine([o EXCEPT !.mode = mode], e)
       /\ o.pool # "bad"

buildOneShotJobRequest(o, e, inc) ==
    [origin |-> "submit", engine |-> e, incremental |-> inc,
     write |-> EffectiveWriteMode("", inc), sql |-> o.query,
     opts |-> [o EXCEPT !.strategy = IF SupportsDocumentReader(e) THEN "single" ELSE "ordered_cursor",
                        !.mode = IF o.query # "none" THEN "query" ELSE "table",
                        !.consistency = IF @ = "" THEN "EVENTUAL" ELSE @,
                        !.plannedSource = "", !.inFlightSource = "",
                        !.chunk = 0, !.fetch = 0, !.lookback = "none", !.keys = FALSE, !.unknown = FALSE]]

\* POST /api/runs/submit: the job is upserted without validateJobRequest.
upsertJobByName ==
    \E o \in OptionSets, e \in Engines, inc \in BOOLEAN :
        IF ~validateRunSubmitRequest(o, e, inc) \/ o.recon = "typo"
        THEN Answer("submit", "refused") /\ Refused
        ELSE Answer("submit", "stored") /\ Stored(buildOneShotJobRequest(o, e, inc))
-----------------------------------------------------------------------------
persistTunedOptionsBestEffort(o) == job' = [job EXCEPT !.opts = MergeInto(o, job.opts)]

\* createRunForJobRequest and CreateRunAndTasks; the run's registration may
\* carry a target_file_size.
CreateRun(size, env) ==
    LET read == [job EXCEPT !.opts = WithRegistrationFileSize(@, size)]
        o == Parse(read.opts)
    IN /\ job # NoJob
       /\ runs < MaxRuns
       /\ runs' = runs + 1
       /\ UNCHANGED asked
       /\ \/ /\ ConfigurationInvalid(read)
             /\ Answer("run", "invalid")
             /\ UNCHANGED <<job, sticky, run>>
          \/ /\ ~ConfigurationInvalid(read)
             /\ PlanningFails(read, o, env)
             /\ Answer("run", "failed")
             /\ run' = [NoRun EXCEPT !.status = "failed"]
             /\ UNCHANGED <<job, sticky>>
          \/ /\ ~ConfigurationInvalid(read)
             /\ ~PlanningFails(read, o, env)
             /\ Answer("run", "planned")
             /\ IF SingleTask(o, env)
                THEN /\ run' = [NoRun EXCEPT !.status = "single"]
                     /\ UNCHANGED <<job, sticky>>
                ELSE LET tuned == autoTune(o, env)
                     IN /\ run' = [status |-> "tuned", plan |-> Plan(tuned), env |-> env]
                        /\ persistTunedOptionsBestEffort(tuned)
                        /\ sticky' = (sticky \/ size > 0)

JobsNext ==
    \/ job = NoJob /\ PutJob
    \/ SaveBack
    \/ cmdRunSubmit
    \/ job = NoJob /\ upsertJobByName
    \/ \E size \in {0, 64}, env \in Envs : CreateRun(size, env)

JobsSpec == JobsInit /\ [][JobsNext]_jobVars
-----------------------------------------------------------------------------
\* The stored job is one of the writers', and its counts are not negative
\* once a checked writer stored it.
JobsTypeOK ==
    /\ job.origin \in {"none", "put", "cli", "submit"}
    /\ DOMAIN job.opts = DOMAIN Base
    /\ runs \in 0..MaxRuns
    /\ sticky \in BOOLEAN
    /\ last.answer \in {"none", "client refused", "refused", "stored", "invalid", "failed", "planned"}

\* The command line repeats the master's rules (runsubmit.go validate): a spec
\* it accepts is never refused by the master (validateJobRequest), so a submit
\* does not stop after the connections were already written.
ClientSpecAccepted == last.by = "cli" => last.answer # "refused"

\* A job stored through a checked write never fails the planner's own
\* validation (validateStoredJob and the engine checks of CreateRunAndTasks),
\* whatever earlier runs wrote back to it and whatever file size a run brings.
CheckedJobPlans == job.origin \in {"put", "cli"} /\ last.by = "run" => last.answer # "invalid"

\* A later run is planned from what the caller asked for and from the current
\* statistics, never from what an earlier run resolved
\* (autoTuneCursorPlanWithDecisionUsingHeuristic), when the caller chose the
\* file size and no run brought its own.
PlanIsCallers ==
    run.status = "tuned" /\ asked.file \notin {0, 256} /\ ~sticky
        => run.plan = Plan(autoTune(Parse(asked), run.env))

=============================================================================
