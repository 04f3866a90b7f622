----------------------------- MODULE ColumnTypes -----------------------------
(***************************************************************************)
(* How a run chooses the type one column is written with, and what that    *)
(* does to the column's values: the planner's resolution of the override   *)
(* (internal/planner/column_types.go, internal/arrowio/column_resolution.  *)
(* go), the value probe on the source (internal/connectors/column_probe.   *)
(* go), Cassandra's automatic types (internal/planner/cassandra_types.go)  *)
(* and the strict conversion at extraction (internal/typesystem).          *)
(*                                                                         *)
(* A value is a number of tenths.  Widths are scaled down: two integer     *)
(* widths stand for the four of the code, MaxPrecision for the 38 digits   *)
(* of an Iceberg decimal, and a float holds magnitudes below FloatLimit    *)
(* exactly and larger ones to a multiple of FloatStep.                     *)
(***************************************************************************)
EXTENDS Integers, FiniteSets, FiniteSetsExt

CONSTANTS
    Engines,      \* subset of {"sql", "cassandra"}
    Requests,     \* kinds the user may ask for, a subset of RequestKinds
    MaxRuns,      \* bound on the runs of a Cassandra dataset; a SQL one has 1
    MaxChanges    \* bound on the changes of the source's data

VARIABLES
    col,      \* the column: engine, type, what the driver and catalog know
    rows,     \* its current content: [vals, null]
    job,      \* the job: the override (a request) and whether it registers
    plan,     \* the run being executed: see NoPlan
    files,    \* the committed files of the column: a set of records
    table,    \* the column's type in the Iceberg table, NoType without one
    queue,    \* the type of a committed run not registered yet, or NoType
    runs, changes

typeVars == <<col, rows, job, plan, files, table, queue, runs, changes>>

Narrow == 3            \* bits of the narrow integers
Wide == 6              \* bits of the widest integers (int64, uint64)
MaxPrecision == 3      \* digits of the widest decimal
uint64DecimalPrecision == 2
EmptyDecimalScale == 1
FloatLimit == 500
FloatStep == 100

\* The values a column may hold: around the limits of the scaled types.
Values == {-50, 25, 96, 310, 630, 990}

Pow10 == [d \in 0 .. 4 |-> 10 ^ d]
Abs(n) == IF n < 0 THEN -n ELSE n

-----------------------------------------------------------------------------
(* Types: an integer has its bits in p, a decimal its precision and scale. *)

Type(kind, p, s) == [kind |-> kind, p |-> p, s |-> s]
Signed(p) == Type("int", p, 0)
Unsigned(p) == Type("uint", p, 0)
Decimal(p, s) == Type("decimal", p, s)
Float == Type("float", 0, 0)
Text == Type("string", 0, 0)
Numeric == Type("unknown", 0, 0)    \* NUMERIC without precision, CQL decimal
NoType == Type("none", 0, 0)

SqlTypes ==
    {Signed(Narrow), Signed(Wide), Unsigned(Narrow), Unsigned(Wide), Float, Numeric}
        \cup {Decimal(p, s) : p \in 2 .. MaxPrecision, s \in 0 .. 1}
CassandraTypes == {Signed(Wide), Numeric, Decimal(MaxPrecision, 0)}   \* bigint, decimal, varint
TargetTypes ==
    {Signed(Narrow), Signed(Wide), Unsigned(Narrow), Unsigned(Wide), Float, Text}
        \cup {Decimal(p, s) : p \in 1 .. MaxPrecision, s \in 0 .. 1}

isIntegerKind(t) == t.kind \in {"int", "uint"}

integerBounds(t) ==
    IF t.kind = "uint" THEN <<0, 2 ^ t.p - 1>>
    ELSE <<-(2 ^ (t.p - 1)), 2 ^ (t.p - 1) - 1>>

integerKindFits(source, target) ==
    /\ integerBounds(source)[1] >= integerBounds(target)[1]
    /\ integerBounds(source)[2] <= integerBounds(target)[2]

\* Decimal digits of the largest magnitude of an integer type.
integerDigits(t) ==
    Min({d \in 1 .. 4 : \A b \in {integerBounds(t)[1], integerBounds(t)[2]} : Abs(b) < Pow10[d]})

numericClassOf(t) ==
    CASE isIntegerKind(t) -> "integer"
      [] t.kind \in {"decimal", "unknown"} -> "exact"
      [] t.kind = "float" -> "float"
      [] OTHER -> "none"

\* fitsLogical: the range lo..hi (tenths) is within the type.
fitsLogical(t, lo, hi) ==
    CASE isIntegerKind(t) -> lo >= 10 * integerBounds(t)[1] /\ hi <= 10 * integerBounds(t)[2]
      [] t.kind = "decimal" -> \A v \in {lo, hi} : Abs(v) < 10 * Pow10[t.p - t.s]
      [] OTHER -> TRUE

\* The narrowest of some candidate types that holds the range, or NoType.
Narrowest(candidates, lo, hi) ==
    LET fit == {t \in candidates : fitsLogical(t, lo, hi)}
    IN IF fit = {} THEN NoType ELSE CHOOSE t \in fit : \A u \in fit : t.p <= u.p

widerFallback(req, lo, hi) ==
    CASE isIntegerKind(req) ->
            LET sign == IF req.kind = "uint" /\ lo >= 0 THEN "uint" ELSE "int"
                int == Narrowest({Type(sign, Narrow, 0), Type(sign, Wide, 0)}, lo, hi)
            IN IF int # NoType THEN int ELSE Narrowest({Decimal(MaxPrecision, 0)}, lo, hi)
      [] req.kind = "decimal" ->
            Narrowest({Decimal(p, req.s) : p \in req.p + 1 .. MaxPrecision}, lo, hi)
      [] OTHER -> NoType

-----------------------------------------------------------------------------
(* The column and the override.                                            *)

\* How a value of a source type looks like: what the source can hold.
Holds(t, v) ==
    CASE isIntegerKind(t) -> v % 10 = 0 /\ fitsLogical(t, v, v)
      [] t.kind = "decimal" -> (t.s = 0 => v % 10 = 0) /\ fitsLogical(t, v, v)
      [] t.kind = "float" -> Abs(v) < FloatLimit \/ v % FloatStep = 0
      [] OTHER -> TRUE

\* A column's first content: at most one value, and perhaps a NULL.
Contents(t, nullable) ==
    [vals : {{}} \cup {{v} : v \in {w \in Values : Holds(t, w)}},
     null : IF nullable THEN BOOLEAN ELSE {FALSE}]

\* A request: no override, the "source" placeholder, or a type.
RequestKinds == {"none", "source", "int", "uint", "decimal", "float", "string"}
RequestsOf(kinds) ==
    {r \in [kind : kinds, type : TargetTypes \cup {NoType}, nullable : BOOLEAN] :
        /\ r.type.kind = IF r.kind \in {"none", "source"} THEN "none" ELSE r.kind
        /\ r.kind = "none" => ~r.nullable}

\* SourceLogicalTypeForSQLColumn: the driver's nullability, or nullable when
\* it does not know.
SourceNullable(c) == IF c.nullableKnown THEN c.nullable ELSE TRUE

\* DescribeQueryNotNull adds what the catalog proves when the driver is silent.
KnownNotNull(c) == ~c.nullableKnown /\ c.catalogKnows /\ ~c.nullable

sourceMayBeNull(c) == ~KnownNotNull(c) /\ (c.nullableKnown => c.nullable)

\* ResolveOverride: the placeholder stands for the source's type.
ResolveOverride(c, r) ==
    IF r.kind = "source" THEN [type |-> c.type, nullable |-> r.nullable]
    ELSE [type |-> r.type, nullable |-> r.nullable]

typeProbeNeeds(source, req) ==
    LET class == numericClassOf(source) IN
    CASE isIntegerKind(req) /\ class = "integer" ->
            [range |-> ~integerKindFits(source, req), fraction |-> FALSE]
      [] isIntegerKind(req) /\ class \in {"exact", "float"} ->
            [range |-> TRUE, fraction |-> ~(source.kind = "decimal" /\ source.s = 0)]
      [] req.kind = "decimal" /\ class = "integer" ->
            [range |-> integerDigits(source) > req.p - req.s, fraction |-> FALSE]
      [] req.kind = "decimal" /\ source.kind = "decimal" ->
            [range |-> source.p - source.s > req.p - req.s, fraction |-> FALSE]
      [] req.kind = "decimal" /\ source.kind = "unknown" ->
            [range |-> TRUE, fraction |-> TRUE]
      [] req.kind = "decimal" /\ class = "float" ->
            [range |-> TRUE, fraction |-> FALSE]
      [] OTHER -> [range |-> FALSE, fraction |-> FALSE]

\* setRequested: which facts about the data decide this override.
Probe(c, has, req) ==
    LET needs == typeProbeNeeds(c.type, req.type) IN
    IF has
    THEN [range |-> needs.range \/ req.type = Unsigned(Wide),
          fraction |-> needs.fraction,
          nulls |-> ~req.nullable /\ sourceMayBeNull(c)]
    ELSE [range |-> c.type = Unsigned(Wide), fraction |-> FALSE, nulls |-> FALSE]

NeedsProbe(p) == p.range \/ p.nulls \/ p.fraction

\* buildColumnProbeSQL, runColumnProbe: MIN, MAX, NULLs and the values that
\* the requested scale cannot hold.
ProbeStats(content, req) ==
    [empty |-> content.vals = {},
     min |-> IF content.vals = {} THEN 0 ELSE Min(content.vals),
     max |-> IF content.vals = {} THEN 0 ELSE Max(content.vals),
     nulls |-> content.null,
     fraction |-> \E v \in content.vals : (v * Pow10[req.s]) % 10 # 0]

-----------------------------------------------------------------------------
(* FinalizeColumnResolutions.                                              *)

\* resolveOverrideRange: the requested type, a wider one, or NoType when the
\* source's type is kept.
resolveOverrideRange(req, p, answer, st) ==
    IF (~p.range /\ ~p.fraction) \/ answer = "unsupported" THEN req
    ELSE IF answer = "failed" THEN NoType
    ELSE IF st.empty THEN req
    ELSE IF st.fraction /\ p.fraction THEN NoType
    ELSE IF fitsLogical(req, st.min, st.max) THEN req
    ELSE widerFallback(req, st.min, st.max)

\* widenDecimalScale: a decimal source keeps its fractional digits.
widenDecimalScale(source, t) ==
    LET precision == t.p - t.s + source.s IN
    IF /\ source.kind = "decimal" /\ t.kind = "decimal" /\ source.s > t.s
       /\ precision <= MaxPrecision
    THEN Decimal(precision, source.s)
    ELSE t

resolveOverrideType(source, req, p, answer, st) ==
    LET final == resolveOverrideRange(req, p, answer, st) IN
    IF final = NoType THEN NoType ELSE widenDecimalScale(source, final)

\* uint64 values that fit int64 are stored as int64.
NarrowUnsigned(t, answer, st) ==
    IF t = Unsigned(Wide) /\ answer = "ok" /\ (st.empty \/ fitsLogical(Signed(Wide), st.min, st.max))
    THEN Signed(Wide) ELSE t

\* Mutant: the NOT NULL request is honoured without asking the data.
TrustNotNull(req, p, answer, st) == req.nullable

resolveOverrideNullability(req, p, answer, st) ==
    req.nullable \/ (p.nulls /\ (answer # "ok" \/ st.nulls))

\* The effective type and nullability of the column.  Without an override the
\* source's type is kept, with a NOT NULL only the catalog could prove.
FinalizeColumnResolutions(c, has, req, p, answer, st) ==
    IF ~has
    THEN IF c.type = Unsigned(Wide) /\ NarrowUnsigned(c.type, answer, st) = Signed(Wide)
         THEN [type |-> Signed(Wide), nullable |-> sourceMayBeNull(c)]
         ELSE [type |-> c.type, nullable |-> ~KnownNotNull(c) /\ SourceNullable(c)]
    ELSE LET final == resolveOverrideType(c.type, req.type, p, answer, st)
         IN [type |-> IF final = NoType THEN c.type ELSE NarrowUnsigned(final, answer, st),
             nullable |-> resolveOverrideNullability(req, p, answer, st)]

-----------------------------------------------------------------------------
(* Cassandra's automatic types.                                            *)

\* cassandraTypeChangedByTID945: decimal and varint were text before.
ChangedType(t) == t \in {Numeric, Decimal(MaxPrecision, 0)}

\* DecimalDigits over all values, as ScanDecimalColumns collects them.
IntegerDigits(vals) == Min({d \in 0 .. 4 : \A v \in vals : Abs(v) < 10 * Pow10[d]})
FractionDigits(vals) == IF \E v \in vals : v % 10 # 0 THEN 1 ELSE 0

\* The decimal a scan of the values chooses, text when none is wide enough or
\* the scan failed.
ScannedDecimal(content, scanned) ==
    LET scale == IF content.vals = {} THEN EmptyDecimalScale ELSE FractionDigits(content.vals)
    IN IF ~scanned \/ IntegerDigits(content.vals) + scale > MaxPrecision THEN Text
       ELSE Decimal(MaxPrecision, scale)

\* plannedTargetTable: the table's type of the column (NoType without one),
\* and whether it could be told; a dataset without data needs no table.
plannedTargetTable(readable) ==
    IF job.registers /\ readable
    THEN [type |-> table, known |-> TRUE]
    ELSE [type |-> NoType, known |-> files = {}]

\* The type the planner adds for a column left automatic, NoType for none.
cassandraAutomaticColumnTypes(c, r, existing, content, scanned) ==
    IF r.kind \notin {"none", "source"} \/ ~ChangedType(c.type) THEN NoType
    ELSE IF existing.type # NoType THEN existing.type
    ELSE IF ~existing.known THEN Text
    ELSE IF c.type = Numeric THEN ScannedDecimal(content, scanned)
    ELSE NoType

-----------------------------------------------------------------------------
(* Conversion at extraction.                                               *)

\* storageConversionTarget: what a logical type is stored as.
storageConversionTarget(t) ==
    CASE t = Unsigned(Wide) -> Decimal(uint64DecimalPrecision, 0)
      [] t = Unsigned(Narrow) -> Signed(Wide)
      [] t = Numeric -> Text
      [] OTHER -> t

\* Nearest multiple of step, ties to even, as FormatFloat and float64 round.
RoundTo(v, step) ==
    LET down == v - (v % step)
        up == down + step
    IN CASE 2 * (v % step) < step -> down
         [] 2 * (v % step) > step -> up
         [] OTHER -> IF (down \div step) % 2 = 0 THEN down ELSE up

Failed == [ok |-> FALSE, v |-> 0]
As(v) == [ok |-> TRUE, v |-> v]

\* signedInteger, unsignedInteger: an integer, or text of one; a float is
\* refused, and so is text with a decimal point.
ConvertInteger(source, target, v) ==
    IF /\ source.kind # "float"
       /\ source.kind = "decimal" => source.s = 0
       /\ v % 10 = 0
       /\ fitsLogical(target, v, v)
    THEN As(v) ELSE Failed


\* decimalFromFloat rounds to the target's scale; everything else is exact.
convertDecimal(source, target, v) ==
    LET unit == IF target.s = 0 THEN 10 ELSE 1
        n == IF source.kind = "float" THEN RoundTo(v, unit) ELSE v
    IN IF n % unit = 0 /\ fitsLogical(target, n, n) THEN As(n) ELSE Failed

convertFloat(v) == As(IF Abs(v) < FloatLimit THEN v ELSE RoundTo(v, FloatStep))

Convert(source, target, v) ==
    CASE isIntegerKind(target) -> ConvertInteger(source, target, v)
      [] target.kind = "decimal" -> convertDecimal(source, target, v)
      [] target.kind = "float" -> convertFloat(v)
      [] OTHER -> As(v)

\* The extraction of the whole content: it fails on a NULL in a NOT NULL
\* column and on the first value that does not convert.
Converted(source, eff, content) ==
    {Convert(source, storageConversionTarget(eff.type), v) : v \in content.vals}
Loads(source, eff, content) ==
    /\ content.null => eff.nullable
    /\ \A r \in Converted(source, eff, content) : r.ok

-----------------------------------------------------------------------------
(* Runs.                                                                   *)

NoPlan == [eff |-> [type |-> NoType, nullable |-> FALSE], seen |-> [vals |-> {}, null |-> FALSE],
           verified |-> FALSE, tableType |-> NoType, failed |-> FALSE]
RunBound(engine) == IF engine = "sql" THEN 1 ELSE MaxRuns
Planned == plan.eff.type # NoType

TypesInit ==
    /\ \E e \in Engines :
         col \in [engine : {e}, type : IF e = "sql" THEN SqlTypes ELSE CassandraTypes,
                  nullable : BOOLEAN, nullableKnown : BOOLEAN, catalogKnows : BOOLEAN]
    /\ col.engine = "cassandra" => ~col.nullableKnown /\ ~col.catalogKnows /\ col.nullable
    /\ col.nullableKnown => ~col.catalogKnows     \* the catalog is not asked
    /\ rows \in Contents(col.type, col.nullable)
    /\ job \in [req : RequestsOf(Requests), registers : BOOLEAN]
    /\ job.registers => col.engine = "cassandra"
    /\ plan = NoPlan /\ files = {} /\ table = NoType /\ queue = NoType
    /\ runs = 0 /\ changes = 0

\* A row is inserted at the source, with a value or with a NULL.  After the
\* last run within the bound nobody reads it.
SourceChanges ==
    /\ changes < MaxChanges
    /\ Planned \/ runs < RunBound(col.engine)
    /\ \/ \E v \in Values \ rows.vals :
             Holds(col.type, v) /\ rows' = [rows EXCEPT !.vals = @ \cup {v}]
       \/ col.nullable /\ ~rows.null /\ rows' = [rows EXCEPT !.null = TRUE]
    /\ changes' = changes + 1
    /\ UNCHANGED <<col, job, plan, files, table, queue, runs>>

\* What probing may answer; Cassandra has no prober.
ProbeAnswers(p) ==
    IF ~NeedsProbe(p) THEN {"ok"}
    ELSE IF col.engine = "sql" THEN {"ok", "failed"} ELSE {"unsupported"}

\* resolveEffectiveColumnTypes: describe, add Cassandra's automatic types,
\* probe what the override needs, decide.  `answer` is the probe's outcome,
\* `readable` the catalog's, `scanned` the decimal scan's.
PlanRun(answer, readable, scanned) ==
    LET existing == plannedTargetTable(readable)
        auto == IF col.engine = "cassandra"
                THEN cassandraAutomaticColumnTypes(col, job.req, existing, rows, scanned)
                ELSE NoType
        has == auto # NoType \/ job.req.kind # "none"
        req == IF auto = NoType THEN ResolveOverride(col, job.req)
               ELSE [type |-> auto,
                     nullable |-> IF job.req.kind = "source" THEN job.req.nullable ELSE TRUE]
        p == Probe(col, has, req)
    IN /\ ~Planned
       /\ runs < RunBound(col.engine)
       /\ answer \in ProbeAnswers(p)
       /\ col.engine = "sql" => readable /\ scanned
       /\ plan' = [eff |-> FinalizeColumnResolutions(col, has, req, p, answer,
                                                     ProbeStats(rows, req.type)),
                   seen |-> rows, verified |-> answer = "ok" /\ col.engine = "sql",
                   tableType |-> existing.type, failed |-> FALSE]
       /\ runs' = runs + 1
       /\ UNCHANGED <<col, rows, job, files, table, queue, changes>>

\* The worker extracts and the run commits its file.
CommitRun ==
    /\ Planned /\ ~plan.failed
    /\ queue = NoType
    /\ Loads(col.type, plan.eff, rows)
    /\ files' = files \cup {[type |-> storageConversionTarget(plan.eff.type),
                             source |-> rows,
                             stored |-> {r.v : r \in Converted(col.type, plan.eff, rows)}]}
    /\ queue' = IF job.registers THEN storageConversionTarget(plan.eff.type) ELSE NoType
    /\ plan' = NoPlan
    /\ UNCHANGED <<col, rows, job, table, runs, changes>>

\* A value does not convert, or a NOT NULL column has a NULL: the run fails.
FailRun ==
    /\ Planned /\ ~plan.failed
    /\ ~Loads(col.type, plan.eff, rows)
    /\ plan' = [plan EXCEPT !.failed = TRUE]
    /\ UNCHANGED <<col, rows, job, files, table, queue, runs, changes>>

\* The failed run is given up; the job may run again.
NextRun ==
    /\ Planned /\ plan.failed
    /\ plan' = NoPlan
    /\ UNCHANGED <<col, rows, job, files, table, queue, runs, changes>>

\* The registration creates the table with the file's type, or is refused
\* when the table has another one (external: the catalog).
Register ==
    /\ queue # NoType
    /\ table' = IF table = NoType THEN queue ELSE table
    /\ queue' = NoType
    /\ UNCHANGED <<col, rows, job, plan, files, runs, changes>>

TypesNext ==
    \/ SourceChanges
    \/ \E answer \in {"ok", "failed", "unsupported"}, readable, scanned \in BOOLEAN :
          PlanRun(answer, readable, scanned)
    \/ CommitRun \/ FailRun \/ NextRun \/ Register

TypesSpec == TypesInit /\ [][TypesNext]_typeVars

-----------------------------------------------------------------------------
TypesTypeOK ==
    /\ {f.type : f \in files} \cup ({plan.eff.type} \ {NoType, Numeric})
            \cup ({table, queue} \ {NoType})
        \subseteq TargetTypes
    /\ runs \in 0 .. RunBound(col.engine) /\ changes \in 0 .. MaxChanges

\* README.md: an override "that would lose values ... falls back to a lossless
\* type".  Whatever the source does after planning, a committed file holds the
\* source's values, with two exceptions.  A float written as a decimal is rounded
\* to the requested scale, "the conversion the user asked for".  And against the
\* README a float override is not checked (typeProbeNeeds), so that a number with
\* more digits than a float has is rounded; nothing below that limit is, and no
\* other override, column without one or fallback ever gives a float.
StoredExactly ==
    \A f \in files :
        \/ f.stored = f.source.vals
        \/ col.type.kind = "float" /\ f.type.kind = "decimal"
        \/ /\ job.req.kind = "float" /\ f.type.kind = "float"
           /\ \A v \in f.source.vals : Abs(v) < FloatLimit => v \in f.stored

\* The planner verified the override against these very values: an integer
\* column then loads, and no column fails on a NULL.  (Text of a decimal with a
\* scale and floats are refused by every integer type, so those columns can
\* fail although their probe succeeded.)
VerifiedColumnLoads ==
    (plan.failed /\ plan.verified /\ plan.seen = rows) =>
        /\ ~(rows.null /\ ~plan.eff.nullable)
        /\ ~isIntegerKind(col.type)

\* A Cassandra column left automatic keeps the type the table has, so that the
\* run's files can be registered.
TableTypeIsKept ==
    (/\ Planned /\ plan.tableType # NoType /\ job.req.kind \in {"none", "source"}
     /\ ChangedType(col.type))
        => storageConversionTarget(plan.eff.type) = plan.tableType

=============================================================================
