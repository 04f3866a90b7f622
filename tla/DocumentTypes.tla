---------------------------- MODULE DocumentTypes ----------------------------
(***************************************************************************)
(* The column types of sources without a schema: one field of the rows of  *)
(* a CSV or JSON file (internal/arrowio/file_types.go: the planner reads   *)
(* the whole file once, the worker reads it again) and of a MongoDB        *)
(* collection (internal/arrowio/mongo_to_arrow.go: the worker infers from  *)
(* its first batch).  The worker's loop is extractDocumentTask             *)
(* (cmd/worker/extract.go).                                                *)
(*                                                                         *)
(* A cell is the form of a value: "bigint" is an int64 beyond 2^53,        *)
(* "hugeint" a number beyond int64, "longfloat" has more digits than a     *)
(* float64 keeps, "code" is 007, "token" is N/A; "absent" is a row without *)
(* the field.  A column is its type and whether it may hold NULL; a MongoDB *)
(* column always may here.                                               *)
(***************************************************************************)
EXTENDS Integers, Sequences, FiniteSets

CONSTANTS
    Formats,     \* subset of {"csv", "json", "mongo"}
    MaxRows,     \* rows of the source
    BatchSize,   \* rows per batch of the worker
    MaxChanges   \* times the source is replaced after the planner's scan

VARIABLES
    format, override,
    rows,      \* the source: a sequence of cells
    scan,      \* the planner's fileColumn while it observes rows
    column,    \* the resolved or inferred column, NoColumn before
    pos, buf,  \* the worker: rows read, rows buffered
    written,   \* rows written: the cell and what the file holds for it
    phase,     \* "scan", "extract", "done", "failed"
    changes

docVars == <<format, override, rows, scan, column, pos, buf, written, phase, changes>>

NoType == "none"
Numbers == {"int", "bigint", "hugeint", "float", "longfloat"}
CsvCells == Numbers \cup {"bool", "date", "timestamp", "code", "text", "token", "null"}
JsonCells == Numbers \cup {"bool", "code", "text", "token", "null", "absent"}
MongoCells == {"int", "bigint", "float", "bool", "text", "null", "absent"}
CellsOf(f) == CASE f = "csv" -> CsvCells [] f = "json" -> JsonCells [] f = "mongo" -> MongoCells
NoValue == {"null", "absent"}

Types == {"int64", "float64", "bool", "date", "timestamp", "string", "unknown"}
Columns == [type : Types, nullable : BOOLEAN]
NoColumn == [type |-> NoType, nullable |-> TRUE]

\* The type a caller asks for, "source" for the detected one: document sources
\* take none.
Requestable == {"int64", "float64", "string"}
Overrides(f) ==
    {NoColumn} \cup (IF f = "mongo" THEN {}
                     ELSE [type : Requestable \cup {"source"}, nullable : BOOLEAN])

-----------------------------------------------------------------------------
(* Types of single values.                                                 *)

\* DetectTextType: only what int64 or float64 keeps exactly is a number.
DetectTextType(c) ==
    CASE c \in {"int", "bigint"} -> "int64"
      [] c = "float" -> "float64"
      [] c \in {"bool", "date", "timestamp"} -> c
      [] OTHER -> "string"

\* mongoCandidate: the type a decoder already gave the value.
mongoCandidate(c) ==
    CASE c \in {"int", "bigint"} -> "int64"
      [] c = "float" -> "float64"
      [] c = "bool" -> "bool"
      [] OTHER -> "string"

\* candidateType: text is classified, a JSON number by its text.
candidateType(c) ==
    IF format = "csv" \/ c \in Numbers THEN DetectTextType(c) ELSE mongoCandidate(c)

\* textFitsLosslessly: "007" is no integer, and a float has 15 digits.
textFitsLosslessly(c, t) ==
    CASE t = "int64" -> c \in {"int", "bigint", "hugeint"}
      [] t = "float64" -> c \in {"int", "float"}
      [] OTHER -> TRUE

\* Convert: what a stored cell means, "exact" or "lossy", or that it fails.
Convert(c, t) ==
    CASE t \in {"string", "unknown"} -> "exact"
      [] t = "int64" -> CASE c \in {"int", "bigint"} -> "exact"
                          [] c = "code" -> "lossy"
                          [] OTHER -> "fails"
      [] t = "float64" -> CASE c \in {"int", "float"} -> "exact"
                            [] c \in {"bigint", "hugeint", "longfloat", "code"} -> "lossy"
                            [] OTHER -> "fails"
      [] t = "timestamp" -> IF c \in {"date", "timestamp"} THEN "exact" ELSE "fails"
      [] OTHER -> IF c = t THEN "exact" ELSE "fails"

\* fitsRequested: text cells and JSON numbers must fit without loss.
fitsRequested(c, t) ==
    /\ (format = "csv" \/ c \in Numbers) => (t = "string" \/ textFitsLosslessly(c, t))
    /\ Convert(c, t) # "fails"

-----------------------------------------------------------------------------
(* The planner's scan of a file.                                           *)

NoScan == [at |-> 0, detected |-> NoType, mixed |-> FALSE, big |-> FALSE,
           present |-> FALSE, nulls |-> FALSE, tokens |-> FALSE, overrideErr |-> FALSE]

\* absInt knows text and Go integers; a JSON number counts as 0.
absIntIsBig(c) == c = "bigint" /\ format = "csv"

\* Mutant: an integer a float cannot hold does not stop the merge.
mergeAnyNumbers(a, b, big) ==
    CASE a = b -> a
      [] {a, b} = {"int64", "float64"} -> "float64"
      [] {a, b} = {"date", "timestamp"} -> "timestamp"
      [] OTHER -> NoType

\* mergeFileTypes: one type for two, NoType when none holds both.
mergeFileTypes(a, b, big) ==
    CASE a = b -> a
      [] {a, b} = {"int64", "float64"} -> IF big THEN NoType ELSE "float64"
      [] {a, b} = {"date", "timestamp"} -> "timestamp"
      [] OTHER -> NoType

\* observeValue: one value of the column.
observeValue(s, c) ==
    IF format = "csv" /\ c = "token" THEN [s EXCEPT !.tokens = TRUE]
    ELSE LET candidate == candidateType(c)
             big == s.big \/ (candidate = "int64" /\ absIntIsBig(c))
             merged == IF s.detected = NoType THEN candidate
                       ELSE mergeFileTypes(s.detected, candidate, big)
             err == \/ s.overrideErr
                    \/ override.type \in Requestable /\ ~fitsRequested(c, override.type)
         IN IF s.mixed THEN [s EXCEPT !.overrideErr = err]
            ELSE [s EXCEPT !.overrideErr = err, !.big = big,
                           !.mixed = merged = NoType,
                           !.detected = IF merged = NoType THEN @ ELSE merged]

\* Without a value, or with values of two kinds, a column is text.
detectedType(s) == IF s.mixed \/ s.detected = NoType THEN "string" ELSE s.detected

\* Mutant: rows without a value are counted, "no value" markers are not.
nullsSeenOnly(s, t) == s.nulls

\* The NULLs a column of type t has: markers count in a typed column.
nullsSeen(s, t) == s.nulls \/ (t # "string" /\ s.tokens)

\* resolve: the override when every value fits it, else string, and the detected
\* type for "source"; NOT NULL only when no row lacks a value.  Without an
\* override the column is nullable.
resolve(s) ==
    CASE ~s.present -> NoColumn
      [] s.present /\ override = NoColumn -> [type |-> detectedType(s), nullable |-> TRUE]
      [] OTHER -> LET t == CASE s.overrideErr -> "string"
                             [] override.type = "source" -> detectedType(s)
                             [] OTHER -> override.type
                  IN [type |-> t, nullable |-> override.nullable \/ nullsSeen(s, t)]

-----------------------------------------------------------------------------
(* MongoDB: inference from a batch.                                        *)

mergeMongoTypes(a, b, cells) ==
    CASE a = b -> a
      [] {a, b} = {"int64", "float64"} /\ "bigint" \notin cells -> "float64"
      [] OTHER -> "unknown"

\* inferMongoField: the first value's type, merged with every later one.
inferMongoField(cells) ==
    LET vals == SelectSeq(cells, LAMBDA c : c \notin NoValue)
        seen(i) == {vals[j] : j \in 1 .. i}
        t[i \in 0 .. Len(vals)] ==
            CASE i = 0 -> "unknown"
              [] i = 1 -> mongoCandidate(vals[1])
              [] OTHER -> mergeMongoTypes(t[i - 1], mongoCandidate(vals[i]), seen(i))
    IN t[Len(vals)]

HasField(cells) == \E i \in 1 .. Len(cells) : cells[i] # "absent"

\* InferMongoSchemaResult: a field no row of the batch has is not in the schema.
InferMongoSchemaResult(cells) ==
    IF HasField(cells) THEN [type |-> inferMongoField(cells), nullable |-> TRUE] ELSE NoColumn

\* The Arrow type a logical type is stored as.
Storage(t) == IF t = "unknown" THEN "string" ELSE t

\* MongoDocsToRecord: the batch's own inference builds the column, a batch
\* without the field takes the schema's type.
BatchType(cells, schema) ==
    IF format = "mongo" /\ schema # NoColumn /\ HasField(cells)
    THEN inferMongoField(cells) ELSE schema.type

-----------------------------------------------------------------------------
DocInit ==
    /\ format \in Formats
    /\ override \in Overrides(format)
    /\ rows \in UNION {[1 .. n -> CellsOf(format)] : n \in 1 .. MaxRows}
    /\ scan = NoScan /\ column = NoColumn
    /\ pos = 0 /\ buf = <<>> /\ written = <<>>
    /\ phase = (IF format = "mongo" THEN "extract" ELSE "scan")
    /\ changes = 0

\* FileTypeScanner.Observe: the next row of the file.
Observe ==
    /\ phase = "scan" /\ scan.at < Len(rows)
    /\ LET c == rows[scan.at + 1]
           s == [scan EXCEPT !.at = @ + 1, !.present = @ \/ c # "absent",
                             !.nulls = @ \/ c \in NoValue]
       IN scan' = IF c \in NoValue THEN s ELSE observeValue(s, c)
    /\ UNCHANGED <<format, override, rows, column, pos, buf, written, phase, changes>>

\* FileTypeScanner.Result: the types every task of the run writes.
Result ==
    /\ phase = "scan" /\ scan.at = Len(rows)
    /\ column' = resolve(scan)
    /\ phase' = "extract"
    /\ UNCHANGED <<format, override, rows, scan, pos, buf, written, changes>>

\* The source is replaced before the worker opens it.
SourceChanges ==
    /\ phase = "extract" /\ pos = 0 /\ changes < MaxChanges
    /\ rows' \in [1 .. Len(rows) -> CellsOf(format)] \ {rows}
    /\ changes' = changes + 1
    /\ UNCHANGED <<format, override, scan, column, pos, buf, written, phase>>

\* extractDocumentTask reads one more row into the buffer.
ReadRow ==
    /\ phase = "extract" /\ pos < Len(rows) /\ Len(buf) < BatchSize
    /\ pos' = pos + 1
    /\ buf' = Append(buf, rows[pos + 1])
    /\ UNCHANGED <<format, override, rows, scan, column, written, phase, changes>>

\* FileDocsToRecord: a "no value" marker is NULL in a typed column.
IsNull(c, t) == c \in NoValue \/ (format # "mongo" /\ c = "token" /\ t # "string")

\* What the file holds for a cell: nothing at all without a column.
Stored(c, schema, t) ==
    CASE schema = NoColumn -> IF c \in NoValue THEN "exact" ELSE "dropped"
      [] schema # NoColumn /\ IsNull(c, t) -> IF schema.nullable THEN "exact" ELSE "fails"
      [] OTHER -> Convert(c, t)

\* The planner's schema, or for MongoDB the one of the first batch.
Schema ==
    IF format # "mongo" \/ written # <<>> THEN column ELSE InferMongoSchemaResult(buf)

\* writeMongoDocBatch of a full buffer, or of the rest at the end.  A column of
\* another Arrow type than the schema's panics in NewRecordBatch.
WriteBatch ==
    /\ phase = "extract" /\ buf # <<>>
    /\ Len(buf) = BatchSize \/ pos = Len(rows)
    /\ LET t == BatchType(buf, Schema)
           out == [i \in 1 .. Len(buf) |-> [cell |-> buf[i], as |-> Stored(buf[i], Schema, t)]]
       IN /\ column' = Schema
          /\ IF \/ Storage(t) # Storage(Schema.type)
                \/ \E i \in 1 .. Len(buf) : out[i].as = "fails"
             THEN phase' = "failed" /\ UNCHANGED <<written, buf>>
             ELSE phase' = phase /\ written' = written \o out /\ buf' = <<>>
    /\ UNCHANGED <<format, override, rows, scan, pos, changes>>

\* The parquet writer is closed: the task's file is complete.
CloseFile ==
    /\ phase = "extract" /\ pos = Len(rows) /\ buf = <<>>
    /\ phase' = "done"
    /\ UNCHANGED <<format, override, rows, scan, column, pos, buf, written, changes>>

DocNext ==
    \/ Observe \/ Result \/ SourceChanges \/ ReadRow \/ WriteBatch \/ CloseFile

DocSpec == DocInit /\ [][DocNext]_docVars

-----------------------------------------------------------------------------
DocTypeOK ==
    /\ column \in Columns \cup {NoColumn}
    /\ \A i \in 1 .. Len(written) : written[i].as \in {"exact", "lossy", "dropped"}
    /\ pos \in 0 .. Len(rows) /\ Len(buf) <= BatchSize

\* The values the code is known to change.  A JSON integer beyond 2^53 counts as 0
\* in absInt, so that beside a float it is rounded.  The text cell rules of
\* fitsRequested do not look at a JSON string, so that "007" becomes 7 under a
\* numeric override.  A MongoDB field that no document of the first batch has is
\* in no file.
RoundedInteger(w) ==
    /\ format = "json" /\ w.cell = "bigint" /\ w.as = "lossy"
    /\ override.type \notin Requestable
    /\ \E i \in 1 .. Len(rows) : rows[i] = "float"
TrimmedCode(w) ==
    /\ format = "json" /\ w.cell = "code" /\ w.as = "lossy"
    /\ override.type \in {"int64", "float64"}
LateField(w) ==
    /\ format = "mongo" /\ w.as = "dropped"
    /\ \A i \in 1 .. BatchSize : rows[i] = "absent"


\* resolveFileColumnTypes: the planner reads the file once so that the workers
\* build a schema its values fit: a file that did not change loads.
ScannedFileLoads == (format # "mongo" /\ changes = 0) => phase # "failed"
=============================================================================
