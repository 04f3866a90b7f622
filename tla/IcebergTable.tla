--------------------------- MODULE IcebergTable ---------------------------
(***************************************************************************)
(* What a registration does to the Iceberg table it writes.                *)
(*                                                                         *)
(* A run's registration options are resolved when it is submitted          *)
(* (internal/icebergreg/run_options.go) and never change.  Its workers     *)
(* split their rows by the resolved partition spec and record the          *)
(* partition of each file in its footer (internal/icebergpart).  The       *)
(* registration then makes up to three catalog commits: it creates the     *)
(* table or evolves its schema, it sets the sort order, and it publishes   *)
(* the run's files in one snapshot, after deleting the rows an upsert      *)
(* replaces (restgo.go, upsert.go, partitioned_files.go).  Each commit     *)
(* may be refused by the catalog, and a refused registration may be run    *)
(* again from the start.  The order of registrations and the ambiguous     *)
(* commit are the subject of the module Registration.                      *)
(*                                                                         *)
(* A row is its upsert key, the value its partition comes from, and the    *)
(* run that wrote it.  iceberg-go and the ice CLI are external: AddFiles,  *)
(* Delete and iceInsert say what the code relies on them to do.            *)
(***************************************************************************)
EXTENDS Integers, Sequences, FiniteSets, FiniteSetsExt, SequencesExt, TLC

CONSTANTS Keys,                  \* the upsert keys, integers
          Days,                  \* the values of the partition column
          MaxRuns,               \* how many runs are exported
          MaxRows,               \* how many rows a run carries at most
          MaxDeviations,         \* how far a run strays from the ordinary
          DefaultUpsertMaxKeys,  \* upsert.max_keys when it is not configured
          UpsertInPruneLimit,    \* above this an IN set gets key ranges
          UpsertKeyRanges        \* how many ranges accompany it

IcebergAssumption ==
  /\ Keys \subseteq Int /\ Days \subseteq Nat
  /\ {MaxRuns, MaxRows, MaxDeviations, DefaultUpsertMaxKeys, UpsertInPruneLimit} \subseteq Nat
  /\ UpsertKeyRanges \in Nat \ {0}

VARIABLES base,    \* the registration defaults of the dataset's job
          table,   \* the table as the catalog has it
          run,     \* the run being registered
          phase,   \* "idle", "load", "sort", "commit" or "failed"
          count    \* runs exported so far

icebergVars == <<base, table, run, phase, count>>

---------------------------------------------------------------------------
\* The types a column can have, and the column types of a file or a table.

Types == {"int", "long", "text"}

\* The promotions a reader applies.
promotable(from, to) == from = "int" /\ to = "long"

ReadableAs(from, to) == from = to \/ promotable(from, to)

BaseTypes == "key" :> "int" @@ "day" :> "int"

---------------------------------------------------------------------------
\* Registration options: explicit run options win over the defaults.

Specs == {<<>>, <<"identity">>, <<"bucket">>}

Defaults == [engine |-> "rest-go", spec |-> <<>>, sort |-> FALSE,
             evolution |-> "strict", upsert |-> FALSE, maxKeys |-> 0]

ApplyRunOptions(cfg, options) == options @@ cfg

validateOptions(cfg) ==
  /\ cfg.evolution \in {"strict", "additive"}
  /\ cfg.maxKeys >= 0
  /\ cfg.spec \in Specs

validateTableOptions(cfg) ==
  validateOptions(cfg) /\ ~(cfg.engine = "ice" /\ cfg.upsert)

\* The spec the workers split by: the ice engine partitions on its own.
WorkerPartitionSpec(cfg) ==
  IF cfg.engine = "rest-go" THEN cfg.spec ELSE <<>>

---------------------------------------------------------------------------
\* The worker: one partition tuple per file, recorded in its footer.

Transform(t, day) == IF t = "bucket" THEN day % 2 ELSE day

\* A bucket says nothing about the order of its values.
PreservesOrder(t) == t = "identity"

value(spec, r) == [i \in DOMAIN spec |-> Transform(spec[i], r.day)]

\* Every row lands in exactly one group: the rows with its tuple.
Split(spec, rows) ==
  {{r \in rows : value(spec, r) = v} : v \in {value(spec, r) : r \in rows}}

NoContract == [spec |-> <<"none">>, values |-> <<>>]

Contract(spec, group) ==
  [spec |-> spec, values |-> value(spec, CHOOSE r \in group : TRUE)]

\* A worker older than the contract writes all its rows in one file.
WorkerFiles(cfg, rows, types, plain, old) ==
  LET spec == WorkerPartitionSpec(cfg)
  IN  IF spec = <<>> \/ old
      THEN {[rows |-> rows, types |-> types, plain |-> plain,
             contract |-> NoContract]}
      ELSE {[rows |-> g, types |-> types, plain |-> plain,
             contract |-> Contract(spec, g)] : g \in Split(spec, rows)}

---------------------------------------------------------------------------
\* The table: its columns, partition spec, sort order and live data files.

NoTable == [exists |-> FALSE, types |-> <<>>, required |-> {}, keys |-> FALSE,
            spec |-> <<>>, sort |-> FALSE, snapshot |-> FALSE, files |-> {}]

NoRun == [reg |-> Defaults, full |-> FALSE, rows |-> {}, types |-> BaseTypes,
          required |-> {}, files |-> {}]

TableRows(t) == UNION {f.rows : f \in t.files}

RowKeys(rows) == {r.key : r \in rows}

\* One file of rows as a catalog entry.
DataFile(f, spec, part, bounds) ==
  [rows |-> f.rows, types |-> f.types, spec |-> spec, part |-> part,
   bounds |-> bounds]

---------------------------------------------------------------------------
\* Schema: creation and evolution, each a catalog commit before the files.

schemaWithIdentifierFields(types, required) ==
  "key" \in DOMAIN types /\ "key" \in required

buildPartitionSpec(types, spec) == spec = <<>> \/ "day" \in DOMAIN types

buildSortOrder(types) == "day" \in DOMAIN types

\* The run's schema, as its durable snapshot or its source gives it.
inferRunIcebergSchema(r) == [types |-> r.types, required |-> r.required]

createRESTGoTable(r) ==
  LET s == inferRunIcebergSchema(r)
  IN  [NoTable EXCEPT !.exists = TRUE, !.types = s.types,
                      !.required = s.required, !.keys = r.reg.upsert,
                      !.spec = r.reg.spec, !.sort = r.reg.sort]

CreationRefused(r) ==
  \/ r.reg.upsert /\ ~schemaWithIdentifierFields(r.types, r.required)
  \/ ~buildPartitionSpec(r.types, r.reg.spec)
  \/ r.reg.sort /\ ~buildSortOrder(r.types)

\* An existing column keeps its type when it can hold the source's values.
Evolved(current, source) ==
  [c \in DOMAIN current \cup DOMAIN source |->
     IF c \notin DOMAIN source THEN current[c]
     ELSE IF c \notin DOMAIN current THEN source[c]
     ELSE IF ReadableAs(source[c], current[c]) THEN current[c] ELSE source[c]]

\* Only additive evolution looks at the source's schema.
EvolutionRefused(t, r) ==
  \/ r.reg.upsert /\ ~schemaWithIdentifierFields(t.types, t.required)
  \/ /\ r.reg.evolution = "additive"
     /\ \E c \in DOMAIN t.types \cap DOMAIN r.types :
           /\ ~ReadableAs(r.types[c], t.types[c])
           /\ ~promotable(t.types[c], r.types[c])

applySchemaOptions(t, r) ==
  [t EXCEPT !.types = IF r.reg.evolution = "additive"
                      THEN Evolved(@, inferRunIcebergSchema(r).types) ELSE @,
            !.keys  = @ \/ r.reg.upsert]

\* The sort order that the run asks for, when the table has another.
applySortOrder(t, r) == [t EXCEPT !.sort = @ \/ r.reg.sort]

---------------------------------------------------------------------------
\* Upsert: the existing rows whose keys the run carries are deleted.

upsertMaxKeys(configured) ==
  IF configured > 0 THEN configured ELSE DefaultUpsertMaxKeys

parquetRowCount(f) == Cardinality(f.rows)

IncomingRows(files) == MapThenSumSet(parquetRowCount, files)

\* The keys of the run, and whether two of its rows share one.
readUpsertKeyColumns(files) == UNION {RowKeys(f.rows) : f \in files}

upsertKeysFromRecord(files) ==
  Cardinality(readUpsertKeyColumns(files)) = IncomingRows(files)

CeilDiv(a, b) == (a + b - 1) \div b

\* The least and the greatest key of each chunk of the sorted keys.
KeyRanges(keys) ==
  LET sorted == SetToSortSeq(keys, <)
      size   == CeilDiv(Len(sorted), UpsertKeyRanges)
  IN  {[lo |-> sorted[k * size + 1],
        hi |-> sorted[Min({(k + 1) * size, Len(sorted)})]] :
          k \in 0 .. CeilDiv(Len(sorted), size) - 1}

\* Mutant: the range ends before the last key of its chunk.
RangesShort(keys) ==
  IF Cardinality(keys) <= UpsertInPruneLimit
  THEN [in |-> keys, ranged |-> FALSE, ranges |-> {}]
  ELSE [in |-> keys, ranged |-> TRUE,
        ranges |-> {[g EXCEPT !.hi = @ - 1] : g \in KeyRanges(keys)}]

\* One IN set, with ranges beside it once it is too large to prune by.
upsertDeleteExpression(keys) ==
  IF Cardinality(keys) <= UpsertInPruneLimit
  THEN [in |-> keys, ranged |-> FALSE, ranges |-> {}]
  ELSE [in |-> keys, ranged |-> TRUE, ranges |-> KeyRanges(keys)]

Matches(filter, r) ==
  /\ r.key \in filter.in
  /\ filter.ranged => \E g \in filter.ranges : g.lo <= r.key /\ r.key <= g.hi

\* External: the files a filter may match, by their column bounds.
MayMatch(filter, f) ==
  LET lo == Min(RowKeys(f.rows))
      hi == Max(RowKeys(f.rows))
  IN  f.bounds =>
        IF filter.ranged
        THEN \E g \in filter.ranges : g.lo <= hi /\ lo <= g.hi
        ELSE \E k \in filter.in : lo <= k /\ k <= hi

\* External: a copy-on-write delete rewrites the files that hold matches.
Delete(t, filter) ==
  LET hit(f)  == MayMatch(filter, f) /\ \E r \in f.rows : Matches(filter, r)
      rest(f) == {r \in f.rows : ~Matches(filter, r)}
  IN  {f \in t.files : ~hit(f)} \cup
      {[f EXCEPT !.rows = rest(f), !.types = t.types, !.bounds = TRUE] :
          f \in {g \in t.files : hit(g) /\ rest(g) # {}}}

deleteUpsertMatches(t, filter) == Delete(t, filter)

\* A full refresh replaces every file anyway, and an empty table has none.
UpsertDeletes(t, r) == r.reg.upsert /\ ~r.full /\ t.snapshot

buildUpsertDeleteFilter(r) ==
  upsertDeleteExpression(readUpsertKeyColumns(r.files))

UpsertRefused(t, r) ==
  /\ UpsertDeletes(t, r)
  /\ \/ IncomingRows(r.files) > upsertMaxKeys(r.reg.maxKeys)
     \/ ~upsertKeysFromRecord(r.files)

applyUpsertDelete(t, r) ==
  IF UpsertDeletes(t, r)
  THEN deleteUpsertMatches(t, buildUpsertDeleteFilter(r))
  ELSE t.files

---------------------------------------------------------------------------
\* The files: checked against their contracts and the table's columns.

\* Every column of the file is one the table can read, and every required
\* column of the table is in the file.
checkFileSchema(f, t) ==
  /\ \A c \in DOMAIN f.types :
        c \in DOMAIN t.types /\ ReadableAs(f.types[c], t.types[c])
  /\ t.required \subseteq DOMAIN f.types

applyPartitionSpec(t, r) == IF r.reg.spec = <<>> THEN t.spec ELSE r.reg.spec

\* Mutant: a file without a contract is taken for a file of one partition.
AcceptWithoutContract(f, want) ==
  f.contract = NoContract \/ f.contract.spec = want

\* The file was split by the spec that the registration uses.
ContractHolds(f, want) == f.contract # NoContract /\ f.contract.spec = want

readPartitionedFile(f, want, t) ==
  ContractHolds(f, want) /\ checkFileSchema(f, t)

PartitionedTable(t, r) == t.spec # <<>> \/ r.reg.spec # <<>>

\* Whether iceberg-go derives the same partitions from the statistics.
Inferable(files, spec) ==
  (\A i \in DOMAIN spec : PreservesOrder(spec[i])) /\ \A f \in files : f.plain

FilesRefused(t, r) ==
  IF PartitionedTable(t, r)
  THEN \/ WorkerPartitionSpec(r.reg) = <<>>
       \/ \E f \in r.files :
             ~readPartitionedFile(f, WorkerPartitionSpec(r.reg), t)
  ELSE \E f \in r.files : ~checkFileSchema(f, t)

\* External: AddFiles reads the partition from the bounds of the column.
AddFiles(files, spec) ==
  {DataFile(f, spec, value(spec, CHOOSE r \in f.rows : TRUE), TRUE) :
     f \in files}

AddDataFiles(files, spec) ==
  {DataFile(f, spec, IF spec = <<>> THEN <<>> ELSE f.contract.values, FALSE) :
     f \in files}

registerPartitionedFiles(files, spec) ==
  IF Inferable(files, spec) THEN AddFiles(files, spec)
  ELSE AddDataFiles(files, spec)

registerUnpartitionedFiles(files) ==
  IF \A f \in files : f.plain THEN AddFiles(files, <<>>)
  ELSE AddDataFiles(files, <<>>)

\* The snapshot of the run: its files, beside or instead of those before.
commitRESTGoFiles(t, r) ==
  LET spec  == applyPartitionSpec(t, r)
      added == IF PartitionedTable(t, r)
               THEN registerPartitionedFiles(r.files, spec)
               ELSE registerUnpartitionedFiles(r.files)
      kept  == IF r.full THEN {} ELSE applyUpsertDelete(t, r)
  IN  [t EXCEPT !.spec = spec, !.snapshot = TRUE, !.files = kept \cup added]

---------------------------------------------------------------------------
\* The ice engine appends with its own command; only a full refresh of a
\* table with a snapshot is committed as above, and only when unpartitioned.

UsesIceInsert(t, r) == r.reg.engine = "ice" /\ (~r.full \/ ~t.snapshot)

checkIceFullRefreshSupported(t, r) == t.spec = <<>> /\ r.reg.spec = <<>>

\* External: ice insert writes the rows in the table's own partitions.
iceInsert(t, r) ==
  [t EXCEPT !.snapshot = TRUE,
            !.files = @ \cup {DataFile([rows |-> g, types |-> r.types], t.spec,
                                value(t.spec, CHOOSE x \in g : TRUE), TRUE) :
                                g \in Split(t.spec, r.rows)}]

CommitRefused(t, r) ==
  IF UsesIceInsert(t, r)
  THEN \E f \in r.files : ~checkFileSchema(f, t)
  ELSE \/ r.reg.engine = "ice" /\ ~checkIceFullRefreshSupported(t, r)
       \/ UpsertRefused(t, r)
       \/ FilesRefused(t, r)

---------------------------------------------------------------------------
\* Actions.

\* What a run may bring beside its rows: an option of its own, source types
\* that changed, zoned timestamps or files without statistics (plain), files
\* of a worker older than the contract, a nullable key.  No run has more
\* than MaxDeviations of them.
Ordinary == [option |-> <<>>, types |-> BaseTypes, plain |-> TRUE,
             old |-> FALSE, nullable |-> FALSE]

Variants ==
  {v \in [option : {<<>>, "evolution" :> "additive", "spec" :> <<"identity">>,
                    "spec" :> <<"bucket">>, "sort" :> TRUE, "maxKeys" :> 1},
          types  : {BaseTypes, "key" :> "long" @@ BaseTypes,
                    "extra" :> "text" @@ BaseTypes},
          plain : BOOLEAN, old : BOOLEAN, nullable : BOOLEAN] :
     Cardinality({d \in DOMAIN v : v[d] # Ordinary[d]}) <= MaxDeviations}

\* A run is submitted with options of its own, and its workers export it.
Export ==
  /\ phase = "idle" /\ count < MaxRuns
  /\ \E v \in Variants, full \in BOOLEAN,
        pairs \in UNION {kSubset(n, Keys \X Days) : n \in 1 .. MaxRows} :
       LET reg  == ApplyRunOptions(base, v.option)
           rows == {[key |-> p[1], day |-> p[2], run |-> count + 1] :
                      p \in pairs}
       IN  /\ validateTableOptions(reg)
           /\ run' = [reg |-> reg, full |-> full, rows |-> rows,
                      types |-> v.types,
                      required |-> IF v.nullable THEN {} ELSE {"key"},
                      files |-> WorkerFiles(reg, rows, v.types, v.plain, v.old)]
  /\ phase' = "load" /\ count' = count + 1
  /\ UNCHANGED <<base, table>>

\* loadOrCreateRESTGoTable: the table is created or its schema evolved.
LoadTable ==
  /\ phase = "load"
  /\ IF table.exists
     THEN IF EvolutionRefused(table, run)
          THEN phase' = "failed" /\ UNCHANGED table
          ELSE table' = applySchemaOptions(table, run) /\ phase' = "sort"
     ELSE IF CreationRefused(run)
          THEN phase' = "failed" /\ UNCHANGED table
          ELSE table' = createRESTGoTable(run) /\ phase' = "commit"
  /\ UNCHANGED <<base, run, count>>

\* applySortOrder: a second commit, of an existing table only.
SortTable ==
  /\ phase = "sort"
  /\ IF run.reg.sort /\ ~buildSortOrder(table.types)
     THEN phase' = "failed" /\ UNCHANGED table
     ELSE table' = applySortOrder(table, run) /\ phase' = "commit"
  /\ UNCHANGED <<base, run, count>>

\* The run's rows become visible, all at once, or the run is refused.
CommitFiles ==
  /\ phase = "commit"
  /\ IF CommitRefused(table, run)
     THEN phase' = "failed" /\ UNCHANGED <<table, run>>
     ELSE /\ table' = IF UsesIceInsert(table, run) THEN iceInsert(table, run)
                      ELSE commitRESTGoFiles(table, run)
          /\ phase' = "idle" /\ run' = NoRun
  /\ UNCHANGED <<base, count>>

\* The catalog refuses the commit of the current step: nothing is written.
CatalogFails ==
  /\ phase \in {"load", "sort", "commit"}
  /\ phase' = "failed"
  /\ UNCHANGED <<base, table, run, count>>

\* A failed registration is run again from the start, or given up.
RetryRegistration ==
  /\ phase = "failed"
  /\ phase' = "load"
  /\ UNCHANGED <<base, table, run, count>>

GiveUp ==
  /\ phase = "failed"
  /\ phase' = "idle" /\ run' = NoRun
  /\ UNCHANGED <<base, table, count>>

---------------------------------------------------------------------------

IcebergInit ==
  /\ base \in {Defaults, [Defaults EXCEPT !.upsert = TRUE],
               [Defaults EXCEPT !.engine = "ice"],
               [Defaults EXCEPT !.evolution = "additive"],
               [Defaults EXCEPT !.spec = <<"bucket">>]}
  /\ table = NoTable /\ run = NoRun /\ phase = "idle"
  /\ count = 0

IcebergNext ==
  \/ Export \/ LoadTable \/ SortTable \/ CommitFiles
  \/ CatalogFails \/ RetryRegistration \/ GiveUp

IcebergSpec == IcebergInit /\ [][IcebergNext]_icebergVars

---------------------------------------------------------------------------
\* Properties.

\* The table's files carry rows, columns and a partition spec, and the
\* registration is in one of its phases.
IcebergTypeOK ==
  /\ phase \in {"idle", "load", "sort", "commit", "failed"}
  /\ count \in 0 .. MaxRuns
  /\ \A c \in DOMAIN table.types : table.types[c] \in Types
  /\ table.spec \in Specs /\ table.snapshot \in BOOLEAN
  /\ \A f \in table.files :
        f.rows # {} /\ f.rows \subseteq [key : Keys, day : Days, run : 1 .. MaxRuns]

\* What the rows of the table are after a run of rows was registered.
Registered(rows, r) ==
  IF r.full THEN r.rows
  ELSE IF r.reg.upsert THEN {x \in rows : x.key \notin RowKeys(r.rows)} \cup r.rows
  ELSE rows \cup r.rows

UniqueKeys(rows) == \A x, y \in rows : x.key = y.key => x = y

\* The rows a reader sees change only when a run's files are committed, and
\* then at once to what the run says: all its rows and nothing older after a
\* full refresh (commitRESTGoFiles: readers see the previous rows or the new
\* rows), each of its keys replaced and no other row lost after an upsert,
\* whatever files the key ranges let the delete skip.  An incremental upsert
\* never gives a key of a table with unique keys a second row.
RowsFollowRuns ==
  /\ TableRows(table') # TableRows(table)
       => /\ phase = "commit" /\ phase' = "idle"
          /\ TableRows(table') = Registered(TableRows(table), run)
  /\ /\ phase = "commit" /\ phase' = "idle"
     /\ run.reg.upsert /\ ~run.full /\ table.snapshot
     /\ UniqueKeys(TableRows(table))
     => UniqueKeys(TableRows(table'))

\* Every live file can be read and pruned: its rows all have the partition
\* that the table records for it under the spec it was added with, and each
\* of its columns is one the table still reads, however the partition spec
\* and the schema evolved since (registerPartitionedFiles, checkFileSchema).
FilesStayReadable ==
  \A f \in table.files :
    /\ \A r \in f.rows : value(f.spec, r) = f.part
    /\ \A c \in DOMAIN f.types :
          c \in DOMAIN table.types /\ ReadableAs(f.types[c], table.types[c])
============================================================================
