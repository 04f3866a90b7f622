---------------------------- MODULE ParquetOutput ----------------------------
(***************************************************************************)
(* The Parquet output of one task: the rolling writer                      *)
(* (cmd/worker/parquet_rolling.go), the writer of partitioned tables that  *)
(* keeps one rolling writer per partition tuple and bounds the files open  *)
(* at once (parquet_partitioned.go), and the copy of a compaction task's   *)
(* inputs through them (compact.go).  Without an Iceberg partition spec    *)
(* there is one partition.                                                 *)
(*                                                                         *)
(* Rows are counted, not looked at.  A batch is a sequence of groups, one  *)
(* per partition in order of first appearance, as Split returns them.      *)
(***************************************************************************)
EXTENDS Integers, Sequences, FiniteSets, SequencesExt

CONSTANTS
    Parts,       \* partition tuples
    MaxOpen,     \* maxOpenPartitionWriters
    Target,      \* targetFileBytes
    Sizes,       \* logical bytes of a group: a group of n bytes has n rows
    MaxBatches   \* bound: record batches of the task

BoundsAssumption ==
    MaxOpen \in Nat \ {0} /\ Target \in Nat \ {0} /\ Sizes \subseteq Nat \ {0} /\ MaxBatches \in Nat

VARIABLES
    writers,     \* the rolling writer of each partition
    order,       \* partitions in the order they were first seen
    open,        \* partitions with an open file, least recently written first
    disk,        \* temporary files that exist
    last,        \* the number of the last temporary file created
    rows,        \* rows of each partition the source has delivered
    phase,       \* "writing", "failed", "closed" or "aborted"
    batches

vars == <<writers, order, open, disk, last, rows, phase, batches>>

\* No file is open; files lists the finished ones.
Closed(files) == [path |-> 0, rows |-> 0, logical |-> 0, encoded |-> 0, files |-> files]

Init ==
    /\ writers = [p \in Parts |-> Closed(<<>>)]
    /\ order = <<>> /\ open = <<>> /\ disk = {} /\ last = 0
    /\ rows = [p \in Parts |-> 0]
    /\ phase = "writing" /\ batches = 0

\* parquetRollOvershootFraction
Overshoot == 20

\* shouldRollBefore: near the target, and the next batch, at the compression
\* seen so far in this file, would pass the overshoot.
shouldRollBefore(w, next) ==
    LET predicted == IF w.logical > 0 /\ w.encoded > 0
                     THEN (next * w.encoded) \div w.logical ELSE next
    IN  /\ w.path # 0 /\ w.rows # 0
        /\ w.encoded >= Target - (Target * Overshoot) \div 100
        /\ w.encoded + predicted > Target + (Target * Overshoot) \div 100

\* Mutant: the finished file is forgotten.
closeCurrentForgets(w) == Closed(w.files)

\* closeCurrent: the file is validated and joins the finished ones.
closeCurrent(w) ==
    IF w.path = 0 THEN w ELSE Closed(Append(w.files, [path |-> w.path, rows |-> w.rows]))

\* ensureOpen, on the state of a Write in progress.
ensureOpen(st, p) ==
    IF st.writers[p].path # 0 THEN st
    ELSE [st EXCEPT !.last = @ + 1,
                    !.disk = @ \cup {st.last + 1},
                    !.writers[p] = [Closed(@.files) EXCEPT !.path = st.last + 1]]

\* parquetRollingWriter.Write of a group of n rows, e more bytes once encoded.
writeRolling(st, p, n, e) ==
    LET opened == ensureOpen(st, p)
        rolled == IF shouldRollBefore(opened.writers[p], n)
                  THEN ensureOpen([opened EXCEPT !.writers[p] = closeCurrent(@)], p)
                  ELSE opened
    IN  [rolled EXCEPT !.writers[p] = [@ EXCEPT !.rows = @ + n, !.logical = @ + n, !.encoded = @ + e]]

\* Mutant: the bound is compared after the slot was added.
slotForAboveBound(st, p) ==
    LET others == SelectSeq(st.open, LAMBDA q : q # p)
        full == p \notin Range(st.open) /\ Len(st.open) > MaxOpen
    IN  [st EXCEPT
            !.order = IF p \in Range(@) THEN @ ELSE Append(@, p),
            !.writers = IF full THEN [@ EXCEPT ![Head(st.open)] = closeCurrent(@)] ELSE @,
            !.open = Append(IF full THEN Tail(others) ELSE others, p)]

\* slotFor: the partition becomes the most recently written; when a file must
\* be opened and MaxOpen are, the least recently written one is finished.
slotFor(st, p) ==
    LET others == SelectSeq(st.open, LAMBDA q : q # p)
        full == p \notin Range(st.open) /\ Len(st.open) >= MaxOpen
    IN  [st EXCEPT
            !.order = IF p \in Range(@) THEN @ ELSE Append(@, p),
            !.writers = IF full THEN [@ EXCEPT ![Head(st.open)] = closeCurrent(@)] ELSE @,
            !.open = Append(IF full THEN Tail(others) ELSE others, p)]

\* What a group that fails leaves: the least recently written file did not close
\* and has left the open list, or the group's own file could not be opened,
\* rolled or written.
FailedGroup(st, p) ==
    LET at == slotFor(st, p)
        evicts == p \notin Range(st.open) /\ Len(st.open) >= MaxOpen
    IN  {at, ensureOpen(at, p)}
        \cup IF evicts THEN {[at EXCEPT !.writers = st.writers, !.open = Tail(st.open)]} ELSE {}

State == [writers |-> writers, order |-> order, open |-> open, disk |-> disk, last |-> last]

Become(st) ==
    /\ writers' = st.writers /\ order' = st.order /\ open' = st.open
    /\ disk' = st.disk /\ last' = st.last

\* The groups of a batch are of distinct partitions; within the bounds they
\* all have one size and one compression.
Orders == {q \in UNION {[1..n -> Parts] : n \in 1..Cardinality(Parts)} : IsInjective(q)}
Batches == {b \in [parts : Orders, size : Sizes, encoded : {0} \cup Sizes] : b.encoded <= b.size}

WriteGroups(st, b, n) ==
    FoldLeft(LAMBDA s, p : writeRolling(slotFor(s, p), p, b.size, b.encoded),
             st, SubSeq(b.parts, 1, n))

\* partitionedParquetWriter.Write of one batch.  It may fail after any number of
\* groups.
Write(b) ==
    /\ phase = "writing" /\ batches < MaxBatches
    /\ batches' = batches + 1
    /\ \/ /\ Become(WriteGroups(State, b, Len(b.parts)))
          /\ rows' = [p \in Parts |-> rows[p] + IF p \in Range(b.parts) THEN b.size ELSE 0]
          /\ UNCHANGED phase
       \/ \E k \in 1..Len(b.parts) :
            /\ \E st \in FailedGroup(WriteGroups(State, b, k - 1), b.parts[k]) : Become(st)
            /\ phase' = "failed"
            /\ UNCHANGED rows

\* Reading the source fails, or a compaction input is gone, has another size,
\* schema or row count than the table records: nothing is replaced.
SourceFails ==
    /\ phase = "writing"
    /\ phase' = "failed"
    /\ UNCHANGED <<writers, order, open, disk, last, rows, batches>>

\* Mutant: only the files still in the open list are finished.
CloseOpenOnly ==
    /\ phase = "writing"
    /\ phase' = "closed" /\ open' = <<>>
    /\ writers' = [p \in Parts |-> IF open # <<>> /\ p = Last(open) THEN closeCurrent(writers[p]) ELSE writers[p]]
    /\ UNCHANGED <<order, disk, last, rows, batches>>

\* Close finishes every file; the files that fail to close or to validate stay
\* open and the task fails.
CloseAll ==
    /\ phase = "writing"
    /\ \E bad \in SUBSET {p \in Range(order) : writers[p].path # 0} :
        /\ writers' = [p \in Parts |-> IF p \in bad THEN writers[p] ELSE closeCurrent(writers[p])]
        /\ phase' = IF bad = {} THEN "closed" ELSE "failed"
    /\ open' = <<>>
    /\ UNCHANGED <<order, disk, last, rows, batches>>

FilesOf(w) == {w.files[i].path : i \in DOMAIN w.files} \cup ({w.path} \ {0})

\* Mutant: Abort removes the files in progress, not the finished ones.
AbortCurrentOnly ==
    /\ phase = "failed"
    /\ phase' = "aborted" /\ open' = <<>>
    /\ disk' = disk \ {writers[p].path : p \in Range(order)}
    /\ writers' = [p \in Parts |-> IF p \in Range(order) THEN Closed(<<>>) ELSE writers[p]]
    /\ UNCHANGED <<order, last, rows, batches>>

\* Abort removes what every writer created, finished or not.
AbortAll ==
    /\ phase = "failed"
    /\ phase' = "aborted" /\ open' = <<>>
    /\ disk' = disk \ UNION {FilesOf(writers[p]) : p \in Range(order)}
    /\ writers' = [p \in Parts |-> IF p \in Range(order) THEN Closed(<<>>) ELSE writers[p]]
    /\ UNCHANGED <<order, last, rows, batches>>

Next ==
    \/ \E b \in Batches : Write(b)
    \/ SourceFails
    \/ CloseAll
    \/ AbortAll

Spec == Init /\ [][Next]_vars

(***************************************************************************)
(* Properties *)

RowsIn(files) == FoldLeft(LAMBDA n, f : n + f.rows, 0, files)

\* Every row the source delivered is in exactly one finished file of its
\* partition once the writer is closed, however often a file was finished early
\* because too many were open or rolled over at its size.
OutputHasEveryRow ==
    phase = "closed" => \A p \in Parts : RowsIn(writers[p].files) = rows[p]

\* A task never has more files open than maxOpenPartitionWriters, although a
\* partition finished early may come back and roll over.
OpenFilesBounded == Cardinality({p \in Parts : writers[p].path # 0}) <= MaxOpen

\* An aborted task leaves no file behind, and a closed one exactly the files it
\* lists: the files on disk are always those some writer accounts for.
NothingLeftOnDisk == disk = UNION {FilesOf(writers[p]) : p \in Parts}

===============================================================================
