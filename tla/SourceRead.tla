----------------------------- MODULE SourceRead -----------------------------
(***************************************************************************)
(* Reading one source for one run: what the master learns about the cursor *)
(* column, the statistics it splits, the snapshot it exports, the tasks it *)
(* plans from them and the rows each engine's reader returns, while the    *)
(* source's own users insert, move and delete rows (internal/connectors,   *)
(* internal/planner/planner.go, cmd/worker/extract.go).                    *)
(*                                                                         *)
(* A column is its type class and whether it is nullable; what a driver    *)
(* reports of it differs by engine.  A row has one order value and may     *)
(* hold NULL in a nullable column.  The dataset is empty, so no            *)
(* high-water mark bounds the run: resuming is IncrementalExport's.        *)
(***************************************************************************)
EXTENDS CursorRanges, Sequences, FiniteSetsExt

CONSTANTS
    Engines,      \* source engines
    Modes,        \* source_mode: "table", "query"
    Strategies,   \* partition_strategy: "single", "ordered_cursor"
    Types,        \* column types: "int", "decimal", "text", "timestamp", "zoned", "blob"
    Snapshots,    \* consistency_mode = STRONG_SNAPSHOT
    Rows,         \* rows the source may hold
    MaxCursor,    \* order values are 1 .. MaxCursor
    MaxTasks,     \* planned tasks
    MaxChanges    \* changes by the source's users

VARIABLES
    job,      \* the job and its table's columns
    table,    \* row -> its order value and NULL marker, or Absent
    phase,    \* planning: "validate", "stats", "snapshot", "tasks", then "read" or "refused"
    cursor,   \* the cursor column the plan uses, its domain and class
    stats,    \* discovered minimum and maximum
    snap,     \* the exported snapshot: contents, and whether the source holds it
    tasks,    \* partition specs
    got,      \* task -> rows it read, Todo or Failed
    changes   \* changes made

readVars == <<job, table, phase, cursor, stats, snap, tasks, got, changes>>

SQLEngines == {"postgres", "mysql", "mariadb", "mssql", "oracle", "clickhouse", "trino"}

\* The engine registry.
SupportsDocumentReader(engine) == engine = "mongodb"
SupportsOrderedCursor(engine)  == engine \in SQLEngines \cup {"cassandra", "mongodb"}
SupportsQueryMode(engine)      == engine \in SQLEngines \cup {"cassandra"}
SnapshotExporter(engine)       == engine \in {"postgres", "oracle"}

Columns  == [type : Types, nullable : BOOLEAN]
NoColumn == [type |-> "", nullable |-> FALSE]
Absent   == [c |-> 0, nil |-> FALSE]
NoSnap   == [of |-> [r \in Rows |-> Absent], held |-> FALSE, taken |-> FALSE]
Todo     == [rows |-> {}, st |-> "todo"]
Failed   == [rows |-> {}, st |-> "failed"]
Done(rs) == [rows |-> rs, st |-> "done"]

Live(tbl) == {r \in Rows : tbl[r] # Absent}
Null(tbl, col, r) == tbl[r].nil /\ col.nullable

-----------------------------------------------------------------------------
(* What a reader says of a column: its domain, whether ranges can be       *)
(* split, and its nullability where the driver or the catalog reports it.  *)

Class(domain) == [domain |-> domain, range |-> SupportsCursorRangeSplit(domain)]

ClassifySQLCursorType(type) ==
    CASE type = "int"                    -> Class("int64")
      [] type \in {"timestamp", "zoned"} -> Class("timestamp")
      [] type = "decimal"                -> Class("decimal")
      [] type = "text"                   -> Class("string")
      [] OTHER                           -> Class("unknown")

\* Oracle has no cursor over TIMESTAMP WITH TIME ZONE.
classifyOracleCursorType(type) ==
    IF type = "zoned" THEN Class("unknown") ELSE ClassifySQLCursorType(type)

classifyCassandraCursorType(type) == ClassifySQLCursorType(type)

classifyQueryCursorType(engine, type) ==
    IF engine = "oracle" THEN classifyOracleCursorType(type) ELSE ClassifySQLCursorType(type)

Validation(class, known, col) ==
    [found |-> col # NoColumn, domain |-> class.domain, range |-> class.range,
     nullable |-> known /\ col.nullable]

\* Mutant: trusts the driver, which reports no nullability.
TrustDriver(col) == Validation(ClassifySQLCursorType(col.type), FALSE, col)

\* pgx reports no nullability: it is looked up in pg_attribute.
postgresValidateCursorColumn(col) == Validation(ClassifySQLCursorType(col.type), TRUE, col)
mysqlValidateCursorColumn(col)    == Validation(ClassifySQLCursorType(col.type), TRUE, col)
mssqlValidateCursorColumn(col)    == Validation(ClassifySQLCursorType(col.type), TRUE, col)
oracleValidateCursorColumn(col)   == Validation(classifyOracleCursorType(col.type), TRUE, col)
clickhouseValidateCursorColumn(col) == Validation(ClassifySQLCursorType(col.type), TRUE, col)
\* The Trino driver reports no nullability and nothing looks it up.
trinoValidateCursorColumn(col)    == Validation(ClassifySQLCursorType(col.type), FALSE, col)
\* The cursor is the partition key: never NULL, always split on its token.
cassandraValidateCursorColumn(col) ==
    IF col.nullable THEN Validation(classifyCassandraCursorType(col.type), TRUE, col)
                    ELSE Validation(Class("int64"), TRUE, col)
\* A sample of documents gives the type, every type is a cursor, and nothing
\* is said of missing fields.
mongoValidateCursorColumn(col) ==
    LET class == ClassifySQLCursorType(col.type)
    IN [found |-> TRUE, nullable |-> FALSE, range |-> class.domain # "unknown",
        domain |-> IF class.domain = "unknown" THEN "string" ELSE class.domain]

ValidateCursorColumn(engine, col) ==
    CASE engine = "postgres"            -> postgresValidateCursorColumn(col)
      [] engine \in {"mysql", "mariadb"} -> mysqlValidateCursorColumn(col)
      [] engine = "mssql"               -> mssqlValidateCursorColumn(col)
      [] engine = "oracle"              -> oracleValidateCursorColumn(col)
      [] engine = "clickhouse"          -> clickhouseValidateCursorColumn(col)
      [] engine = "trino"               -> trinoValidateCursorColumn(col)
      [] engine = "cassandra"           -> cassandraValidateCursorColumn(col)
      [] engine = "mongodb"             -> mongoValidateCursorColumn(col)

\* Columns of a query result: only these drivers report their nullability.
ReportsNullability(engine) == engine \in {"mysql", "mariadb", "mssql", "oracle"}

validateQueryCursorColumn(engine, col) ==
    Validation(classifyQueryCursorType(engine, col.type), ReportsNullability(engine), col)
cassandraValidateQueryCursorColumn(col) ==
    Validation(classifyCassandraCursorType(col.type), FALSE, col)

\* The type text of a described query says Nullable(...) or not.
validateClickHouseQueryCursorColumn(col) ==
    Validation(ClassifySQLCursorType(col.type), TRUE, col)

ValidateQueryCursorColumn(engine, col) ==
    CASE engine = "cassandra"  -> cassandraValidateQueryCursorColumn(col)
      [] engine = "clickhouse" -> validateClickHouseQueryCursorColumn(col)
      [] OTHER                 -> validateQueryCursorColumn(engine, col)

-----------------------------------------------------------------------------
(* Statistics and reads.                                                   *)

\* Where a row stands in the order the engine compares: Cassandra compares
\* tokens of the partition key, an order of their own.
Position(engine, mode, c) ==
    IF engine = "cassandra" /\ mode = "table" THEN MaxCursor + 1 - c ELSE c

NoStats == [min |-> NoBound, max |-> NoBound]

\* MIN and MAX ignore NULLs and are NULL over no value.
MinMax(tbl, col) ==
    LET cs == {tbl[r].c : r \in {q \in Live(tbl) : ~Null(tbl, col, q)}}
    IN IF cs = {} THEN NoStats ELSE [min |-> Min(cs), max |-> Max(cs)]

\* The largest token stands in for a maximum that cannot be asked for.
cassandraDiscoverCursorStats(tbl) ==
    IF Live(tbl) = {} THEN NoStats
    ELSE [min |-> Min({Position("cassandra", "table", tbl[r].c) : r \in Live(tbl)}),
          max |-> MaxCursor + 1]

postgresDiscoverCursorStats(tbl, col)   == MinMax(tbl, col)
mysqlDiscoverCursorStats(tbl, col)      == MinMax(tbl, col)
mssqlDiscoverCursorStats(tbl, col)      == MinMax(tbl, col)
oracleDiscoverCursorStats(tbl, col)     == MinMax(tbl, col)
clickhouseDiscoverCursorStats(tbl, col) == MinMax(tbl, col)
trinoDiscoverCursorStats(tbl, col)      == MinMax(tbl, col)
\* First and last document that has the field.
mongoDiscoverCursorStats(tbl, col)      == MinMax(tbl, col)

DiscoverCursorStats(engine, tbl, col) ==
    CASE engine = "postgres"             -> postgresDiscoverCursorStats(tbl, col)
      [] engine \in {"mysql", "mariadb"} -> mysqlDiscoverCursorStats(tbl, col)
      [] engine = "mssql"                -> mssqlDiscoverCursorStats(tbl, col)
      [] engine = "oracle"               -> oracleDiscoverCursorStats(tbl, col)
      [] engine = "clickhouse"           -> clickhouseDiscoverCursorStats(tbl, col)
      [] engine = "trino"                -> trinoDiscoverCursorStats(tbl, col)
      [] engine = "cassandra"            -> cassandraDiscoverCursorStats(tbl)
      [] engine = "mongodb"              -> mongoDiscoverCursorStats(tbl, col)

\* Cassandra query mode has no MIN or MAX over a query: one task.
DiscoverQueryCursorStats(engine, tbl, col) ==
    IF engine = "cassandra" THEN NoStats ELSE MinMax(tbl, col)

\* Every SQL reader quotes the cursor column and refuses an unknown domain.
newRangeSQL(spec) == spec.col # NoColumn /\ spec.domain # "unknown"
queryModeRange(spec) == newRangeSQL(spec)
cassandraAccepts(spec) ==
    spec.domain # "unknown" /\ (job.mode = "table" => spec.col # NoColumn)
\* A document filter without a column or without bounds is empty.
BuildCursorFilter(spec) == spec.col = NoColumn \/ ~Bounded(spec) \/ spec.domain # "unknown"

Accepts(spec) ==
    CASE job.engine = "mongodb"                              -> BuildCursorFilter(spec)
      [] job.engine = "cassandra"                            -> cassandraAccepts(spec)
      [] job.engine \in SQLEngines /\ job.mode = "query"     -> queryModeRange(spec)
      [] job.engine \in SQLEngines /\ job.mode = "table"     -> newRangeSQL(spec)
      [] OTHER                                               -> TRUE

\* Mutant: reads the live table whatever the task says.
ReadLive(spec) == table

\* What a task reads from: its snapshot, never the live table instead.
postgresReads(spec) == IF spec.snapshot THEN snap.of ELSE table
buildOracleCursorQuery(spec) == IF spec.snapshot THEN snap.of ELSE table

\* Rows of tbl within the bounds; NULL satisfies no bound.
RangeRows(tbl, spec) ==
    {r \in Live(tbl) : ~Bounded(spec) \/ (~Null(tbl, spec.col, r) /\ InRange(spec, tbl[r].c))}

postgresQueryCursor(spec)   == RangeRows(postgresReads(spec), spec)
mysqlQueryCursor(spec)      == RangeRows(table, spec)
mariadbQueryCursor(spec)    == RangeRows(table, spec)
mssqlQueryCursor(spec)      == RangeRows(table, spec)
oracleQueryCursor(spec)     == RangeRows(buildOracleCursorQuery(spec), spec)
clickhouseQueryCursor(spec) == RangeRows(table, spec)
trinoQueryCursor(spec)      == RangeRows(table, spec)
\* Bounds compare tokens; a query runs as it is, its bounds ignored.
cassandraQueryCursor(spec) ==
    {r \in Live(table) : \/ job.mode = "query"
                         \/ InRange(spec, Position("cassandra", "table", table[r].c))}
StreamDocuments(spec)       == RangeRows(table, spec)
\* Flight SQL runs the whole query.
StreamQuery                 == Live(table)

QueryCursor(spec) ==
    CASE job.engine = "postgres"   -> postgresQueryCursor(spec)
      [] job.engine = "mysql"      -> mysqlQueryCursor(spec)
      [] job.engine = "mariadb"    -> mariadbQueryCursor(spec)
      [] job.engine = "mssql"      -> mssqlQueryCursor(spec)
      [] job.engine = "oracle"     -> oracleQueryCursor(spec)
      [] job.engine = "clickhouse" -> clickhouseQueryCursor(spec)
      [] job.engine = "trino"      -> trinoQueryCursor(spec)
      [] job.engine = "cassandra"  -> cassandraQueryCursor(spec)
      [] job.engine = "mongodb"    -> StreamDocuments(spec)
      [] job.engine = "flightsql"  -> StreamQuery

-----------------------------------------------------------------------------
(* Planning.                                                               *)

NoCursor == [col |-> NoColumn, domain |-> "unknown", range |-> FALSE]

ReadInit ==
    /\ job \in [engine : Engines, mode : Modes, strategy : Strategies, snapshot : Snapshots,
                incremental : BOOLEAN, col : Columns \cup {NoColumn}, other : Columns \cup {NoColumn}]
    /\ job.mode = "query" => SupportsQueryMode(job.engine) /\ job.other = NoColumn
    /\ job.incremental => job.col # NoColumn /\ job.other = NoColumn
    /\ job.strategy = "ordered_cursor" => SupportsOrderedCursor(job.engine)
    /\ job.strategy = "single" => job.other = NoColumn
    /\ table \in [Rows -> [c : 1 .. MaxCursor, nil : BOOLEAN]]
    /\ phase = "validate"
    /\ cursor = NoCursor
    /\ stats = NoStats
    /\ snap = NoSnap
    /\ tasks = <<>>
    /\ got = <<>>
    /\ changes = 0

\* A user of the source inserts, moves or deletes a row.
Change(r, row) ==
    /\ changes < MaxChanges
    /\ row # table[r]
    /\ table' = [table EXCEPT ![r] = row]
    /\ changes' = changes + 1
    /\ UNCHANGED <<job, phase, cursor, stats, snap, tasks, got>>

\* A task without bounds: a piece of the table's plan, or the whole source.
partitionSpecSQLCursorSingle(cur, snapshot) ==
    [col |-> cur.col, domain |-> cur.domain, lower |-> NoBound, exclusive |-> FALSE,
     upper |-> NoBound, snapshot |-> snapshot]

StartTasks(specs) ==
    /\ tasks' = specs
    /\ got' = [i \in DOMAIN specs |-> Todo]
    /\ phase' = "read"

\* partition_strategy "single" asks nothing of the source; an engine without
\* ordered cursors is read whole.
PlanSingle ==
    /\ phase = "validate"
    /\ job.strategy = "single"
    /\ StartTasks(<<partitionSpecSQLCursorSingle([NoCursor EXCEPT !.col = job.col], FALSE)>>)
    /\ UNCHANGED <<job, table, cursor, stats, snap, changes>>

Usable(v) == v.found /\ v.domain # "unknown"

\* The column that is validated: the job's, or for a full load whose column is
\* missing or unsupported the first usable column of the table.  A document
\* reader cannot list columns.
CursorChoice ==
    LET asked == ValidateCursorColumn(job.engine, job.col)
        other == ValidateCursorColumn(job.engine, job.other)
        retry == ~SupportsDocumentReader(job.engine) /\ ~job.incremental
    IN IF job.mode = "query" THEN [col |-> job.col, v |-> ValidateQueryCursorColumn(job.engine, job.col)]
       ELSE IF job.col # NoColumn /\ Usable(asked) THEN [col |-> job.col, v |-> asked]
       ELSE IF retry /\ Usable(other) THEN [col |-> job.other, v |-> other]
       ELSE [col |-> job.col, v |-> [asked EXCEPT !.found = job.col # NoColumn]]

\* Validation, ordered_cursor.  A full load without a usable column becomes
\* one task; an unsupported or nullable column is refused.
ValidateCursor ==
    /\ phase = "validate"
    /\ job.strategy = "ordered_cursor"
    /\ LET choice == CursorChoice
           v == choice.v
       IN CASE ~v.found /\ job.incremental -> phase' = "refused" /\ UNCHANGED <<cursor, tasks, got>>
            [] ~v.found /\ ~job.incremental ->
                 /\ StartTasks(<<partitionSpecSQLCursorSingle([NoCursor EXCEPT !.domain = "int64"], FALSE)>>)
                 /\ UNCHANGED cursor
            [] v.found /\ (v.domain = "unknown" \/ v.nullable) ->
                 phase' = "refused" /\ UNCHANGED <<cursor, tasks, got>>
            [] OTHER ->
                 /\ cursor' = [col |-> choice.col, domain |-> v.domain, range |-> v.range]
                 /\ phase' = "stats"
                 /\ UNCHANGED <<tasks, got>>
    /\ UNCHANGED <<job, table, stats, snap, changes>>

DiscoverStats ==
    /\ phase = "stats"
    /\ stats' = IF ~cursor.range THEN NoStats
                ELSE IF job.mode = "query" THEN DiscoverQueryCursorStats(job.engine, table, cursor.col)
                ELSE DiscoverCursorStats(job.engine, table, cursor.col)
    /\ phase' = "snapshot"
    /\ UNCHANGED <<job, table, cursor, snap, tasks, got, changes>>

\* exportRunSnapshot: an engine that cannot export one refuses the run.
exportRunSnapshot ==
    /\ phase = "snapshot"
    /\ IF ~job.snapshot THEN phase' = "tasks" /\ UNCHANGED snap
       ELSE IF SnapshotExporter(job.engine) /\ ~(job.engine = "oracle" /\ job.mode = "query")
       THEN phase' = "tasks" /\ snap' = [of |-> table, held |-> TRUE, taken |-> TRUE]
       ELSE phase' = "refused" /\ UNCHANGED snap
    /\ UNCHANGED <<job, table, cursor, stats, tasks, got, changes>>

\* One task per piece of MIN .. MAX, each starting after the previous one's
\* upper; the first has no lower bound.
buildOrderedCursorRangeTasks(parts) ==
    LET uppers == SplitCursorRange(cursor.domain, stats.min, stats.max, parts)
        whole  == partitionSpecSQLCursorSingle(cursor, snap.taken)
    IN [i \in DOMAIN uppers |->
          [whole EXCEPT !.lower = IF i = 1 THEN NoBound ELSE uppers[i - 1],
                        !.exclusive = i > 1, !.upper = uppers[i]]]

\* The tasks, one without bounds when there is nothing to split; a range that
\* wraps around refuses the run.
CreateTasks(parts) ==
    /\ phase = "tasks"
    /\ IF ~cursor.range \/ stats = NoStats
       THEN StartTasks(<<partitionSpecSQLCursorSingle(cursor, snap.taken)>>)
       ELSE LET specs == buildOrderedCursorRangeTasks(parts)
            IN IF specs = <<>> THEN phase' = "refused" /\ UNCHANGED <<tasks, got>>
               ELSE StartTasks(specs)
    /\ UNCHANGED <<job, table, cursor, stats, snap, changes>>

\* The source lets the snapshot go: the holding transaction ended, the master
\* restarted, or the undo it needs is gone.
SnapshotExpires ==
    /\ snap.held
    /\ snap' = [snap EXCEPT !.held = FALSE]
    /\ UNCHANGED <<job, table, phase, cursor, stats, tasks, got, changes>>

\* A worker reads task i, or the reader refuses its query.
Extract(i) ==
    /\ phase = "read"
    /\ i \in DOMAIN tasks
    /\ got[i] = Todo
    /\ got' = [got EXCEPT ![i] =
                  IF Accepts(tasks[i]) /\ (tasks[i].snapshot => snap.held)
                  THEN Done(QueryCursor(tasks[i])) ELSE Failed]
    /\ UNCHANGED <<job, table, phase, cursor, stats, snap, tasks, changes>>

ReadNext ==
    \/ \E r \in Rows, row \in [c : 1 .. MaxCursor, nil : BOOLEAN] \cup {Absent} : Change(r, row)
    \/ PlanSingle
    \/ ValidateCursor
    \/ DiscoverStats
    \/ exportRunSnapshot
    \/ \E parts \in 1 .. MaxTasks : CreateTasks(parts)
    \/ SnapshotExpires
    \/ \E i \in 1 .. MaxTasks : Extract(i)

ReadSpec == ReadInit /\ [][ReadNext]_readVars

-----------------------------------------------------------------------------
(* Properties.                                                             *)

Rd(i) == got[i].rows
AllRead == phase = "read" /\ \A i \in DOMAIN got : got[i].st = "done"

\* Plans stay within the requested number of tasks and results belong to them.
ReadTypeOK ==
    /\ phase \in {"validate", "stats", "snapshot", "tasks", "read", "refused"}
    /\ table \in [Rows -> [c : 0 .. MaxCursor, nil : BOOLEAN]]
    /\ Len(tasks) <= MaxTasks
    /\ DOMAIN got = DOMAIN tasks

\* With STRONG_SNAPSHOT no row is read by two tasks, and every row of the
\* snapshot up to the planned maximum is read, however the rows move between
\* the planned ranges while the workers read.  Without the snapshot a row that
\* moves is read twice or not at all.
SnapshotReadOnce ==
    phase = "read" /\ snap.taken =>
        /\ \A i, j \in DOMAIN got : i # j => Rd(i) \cap Rd(j) = {}
        /\ AllRead => \A r \in Live(snap.of) :
              \/ \E i \in DOMAIN got : r \in Rd(i)
              \/ stats # NoStats /\ snap.of[r].c > stats.max
              \/ Null(snap.of, cursor.col, r)

\* The engines that never say whether a column may hold NULL.
NullabilityUnknown ==
    \/ job.engine \in {"trino", "mongodb"}
    \/ job.mode = "query" /\ ~ReportsNullability(job.engine) /\ job.engine # "clickhouse"

\* A source nobody changed is exported whole: when every task read its range,
\* every row was read exactly once, NULL cursors included, except where the
\* engine does not say that the cursor may be NULL (README.md:415).
FullExportIsComplete ==
    AllRead /\ changes = 0 =>
        \A r \in Rows :
            \/ Cardinality({i \in DOMAIN got : r \in Rd(i)}) = 1
            \/ Null(table, tasks[1].col, r) /\ NullabilityUnknown

=============================================================================
