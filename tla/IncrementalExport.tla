-------------------------- MODULE IncrementalExport --------------------------
(***************************************************************************)
(* Runs of one job over an ordered cursor: planning from the dataset       *)
(* state, range tasks that read a source which keeps receiving rows, the   *)
(* rows at the high-water mark that a task skips and reports, the count    *)
(* the master compares with the source, and the state a commit leaves      *)
(* (internal/planner, internal/hwmboundary, cmd/worker/extract.go,         *)
(* internal/grpc/commit_run.go and source_reconciliation.go).              *)
(*                                                                         *)
(* A row is its cursor value and the hash of its columns; the source and   *)
(* the dataset are bags of rows, so two rows with equal columns are two    *)
(* copies.  Run scheduling, attempts and the durability of the commit are  *)
(* RunLifecycle's and RunCommit's business: here a task reads once and a   *)
(* commit is one step.                                                     *)
(***************************************************************************)
EXTENDS CursorRanges, Sequences, FiniteSetsExt

CONSTANTS
    MaxCursor,     \* cursor values are 1 .. MaxCursor
    Hashes,        \* row contents
    MaxCopies,     \* rows the source may receive
    MaxTasks,      \* planned tasks of one run
    MaxRowHashes,  \* distinct rows a boundary may hold
    MaxRuns,       \* runs the job may start
    Engines,       \* source engines: "sql", "document"
    Domains,       \* cursor domains: "int64" (range capable), "string"
    Lookbacks,     \* cursor_lookback settings, 0 for none
    Checks         \* reconciliation settings: "off", "none", "immutable"

BoundsAssumption ==
    /\ {MaxCursor, MaxTasks, MaxRowHashes} \subseteq Nat \ {0}
    /\ {MaxCopies, MaxRuns} \cup Lookbacks \subseteq Nat
    /\ Engines \subseteq {"sql", "document"}
    /\ Domains \subseteq {"int64", "string"}
    /\ Checks \subseteq {"off", "none", "immutable"}

VARIABLES
    job,      \* the job's engine, cursor domain, cursor_lookback and check
    source,   \* rows of the source
    state,    \* _state.json: mark (0 for none) and hwm_boundary
    data,     \* rows of the committed dataset
    run,      \* the active run: its tasks, their results, the planned maximum
    late,     \* rows that became visible where no later run looks (README)
    runs      \* runs started

vars == <<job, source, state, data, run, late, runs>>

Cursors == 1 .. MaxCursor
Rows    == Cursors \X Hashes
None    == [none |-> TRUE]
NoRows  == [r \in Rows |-> 0]

Size(bag)     == MapThenSumSet(LAMBDA r : bag[r], Rows)
Plus(a, b)    == [r \in Rows |-> a[r] + b[r]]
At(bag, c)    == [h \in Hashes |-> bag[<<c, h>>]]
Largest(bag)  == Max({0} \cup {c \in Cursors : \E h \in Hashes : bag[<<c, h>>] > 0})
Smallest(bag) == Min({c \in Cursors : \E h \in Hashes : bag[<<c, h>>] > 0})

-----------------------------------------------------------------------------
(* Cursor ranges.                                                          *)

Spec3(lower, exclusive, upper) ==
    [lower |-> lower, exclusive |-> exclusive, upper |-> upper, skip |-> None]

\* With source reconciliation a lone task is pinned to the planned maximum.
singleCursorSpecWithUpper(spec, max) ==
    IF job.check = "off" \/ max = 0 THEN spec ELSE [spec EXCEPT !.upper = max]

\* Smallest and largest cursor in the source; only a range capable cursor is
\* asked for, and 0 is an empty answer.
DiscoverCursorStats ==
    IF job.domain = "int64" /\ Largest(source) > 0
    THEN [min |-> Smallest(source), max |-> Largest(source)]
    ELSE [min |-> 0, max |-> 0]

\* One task per piece; a task starts strictly after the previous one's upper.
buildOrderedCursorRangeTasks(lower, exclusive, least, max, parts) ==
    LET start == IF lower = NoBound THEN least
                 ELSE IF exclusive THEN CursorSuccessor("int64", lower, MaxCursor) ELSE lower
    IN IF max = 0 \/ start = NoBound \/ start > max THEN <<>>
       ELSE LET uppers == SplitCursorRange("int64", start, max, parts)
            IN [i \in DOMAIN uppers |->
                    IF i = 1 THEN Spec3(lower, exclusive, uppers[1])
                             ELSE Spec3(uppers[i - 1], TRUE, uppers[i])]

-----------------------------------------------------------------------------
(* The high-water mark boundary.                                           *)

\* What the first task drops at the mark: everything there (seed), or the
\* recorded copies; None with an exclusive start when the boundary overflowed.
PlanSkip(mark, bnd) ==
    IF bnd = None \/ bnd.cursor # mark THEN [seed |-> TRUE, hashes |-> [h \in Hashes |-> 0]]
    ELSE IF bnd.overflow THEN None
    ELSE [seed |-> bnd.hashes = [h \in Hashes |-> 0], hashes |-> bnd.hashes]

\* Where the next run starts reading.
planHWMResume(mark, lookback, bnd) ==
    IF mark = 0 THEN [lower |-> NoBound, exclusive |-> FALSE, skip |-> None]
    ELSE IF lookback > 0
    THEN [lower |-> CursorLookbackStart(mark, lookback, 1), exclusive |-> FALSE, skip |-> None]
    ELSE LET skip == PlanSkip(mark, bnd)
         IN [lower |-> mark, exclusive |-> skip = None, skip |-> skip]

\* Mutant: the recorded rows are a set: every copy of one is dropped.
KeepNoCopy(skip, mark, read) ==
    [r \in Rows |->
        IF skip = None \/ r[1] # mark THEN read[r]
        ELSE IF skip.seed \/ skip.hashes[r[2]] > 0 THEN 0 ELSE read[r]]

\* Rows of one read that the task's filter lets through (Tracker.Keep).
Keep(skip, mark, read) ==
    [r \in Rows |->
        IF skip = None \/ r[1] # mark THEN read[r]
        ELSE IF skip.seed THEN 0
        ELSE read[r] - Smaller(read[r], skip.hashes[r[2]])]

\* Rows read at the task's largest cursor value, kept and dropped alike.
Boundary(read) ==
    LET top      == Largest(read)
        hashes   == IF top = 0 THEN [h \in Hashes |-> 0] ELSE At(read, top)
        overflow == Cardinality({h \in Hashes : hashes[h] > 0}) > MaxRowHashes
    IN [cursor |-> top, overflow |-> overflow,
        hashes |-> IF overflow THEN [h \in Hashes |-> 0] ELSE hashes]

\* The boundary a commit stores for mark.
ForState(mark, existing, reported) ==
    LET at == {i \in DOMAIN reported : reported[i] # None /\ reported[i].cursor = mark}
        merged == [h \in Hashes |-> MapThenSumSet(LAMBDA i : reported[i].hashes[h], at)]
        over   == \/ \E i \in at : reported[i].overflow
                  \/ Cardinality({h \in Hashes : merged[h] > 0}) > MaxRowHashes
    IN IF mark = 0 \/ \E i \in DOMAIN reported : reported[i] = None THEN None
       ELSE IF at = {}
            THEN IF existing # None /\ existing.cursor = mark THEN existing ELSE None
            ELSE [cursor |-> mark, overflow |-> over,
                  hashes |-> IF over THEN [h \in Hashes |-> 0] ELSE merged]

-----------------------------------------------------------------------------
(* Actions.                                                                *)

Init ==
    /\ job \in [engine : Engines, domain : Domains, lookback : Lookbacks, check : Checks]
    /\ job.domain = "string" => job.lookback = 0
    /\ source \in {NoRows} \cup {[NoRows EXCEPT ![r] = 1] : r \in Rows}
    \* an empty dataset, or one committed before boundaries were recorded
    /\ \/ state = [mark |-> 0, bnd |-> None] /\ data = NoRows
       \/ /\ job.engine = "sql"
          /\ state = [mark |-> Largest(source), bnd |-> None]
          /\ data = source
    /\ run = None
    /\ late = NoRows
    /\ runs = 0

\* Cursor value up to which rows have been, or are being, read.
ReadUpTo ==
    IF run = None THEN state.mark
    ELSE Max({state.mark, run.max}
               \cup {Largest(run.res[i].read) : i \in {j \in DOMAIN run.res : run.res[j] # None}})

\* A new row at r is one README.md:289-321 says may be missed: below what was
\* read (less the look-back), or at a mark whose boundary is unknown or
\* overflowed.
MayBeMissed(r) ==
    LET c == r[1]
        boundaries == {state.bnd} \cup
            (IF run = None THEN {}
             ELSE {run.res[i].bnd : i \in {j \in DOMAIN run.res : run.res[j] # None}})
    IN \/ c < ReadUpTo - job.lookback
       \/ /\ job.lookback = 0
          /\ \/ c = state.mark /\ state.bnd = None
             \/ \E b \in boundaries : b # None /\ b.cursor = c /\ b.overflow

\* The source receives a row.  A job that declares its source immutable
\* keeps the planned ranges unchanged while a run is in flight.
Insert(r) ==
    /\ Size(source) < MaxCopies
    /\ ~ /\ job.check = "immutable"
         /\ run # None
         /\ \E i \in DOMAIN run.tasks : InRange(run.tasks[i], r[1])
    /\ source' = [source EXCEPT ![r] = @ + 1]
    /\ late' = IF MayBeMissed(r) THEN [late EXCEPT ![r] = @ + 1] ELSE late
    /\ UNCHANGED <<job, state, data, run, runs>>

\* CreateRunAndTasks, ordered_cursor: resume at the mark, discover the source
\* maximum, split, fall back to one task, give the first task the skip set.
CreateRunAndTasks(parts) ==
    /\ run = None
    /\ runs < MaxRuns
    /\ LET resume == planHWMResume(state.mark, job.lookback, state.bnd)
           stats  == DiscoverCursorStats
           ranges == buildOrderedCursorRangeTasks(resume.lower, resume.exclusive,
                                                  stats.min, stats.max, parts)
           tasks  == IF ranges = <<>>
                     THEN <<singleCursorSpecWithUpper(Spec3(resume.lower, resume.exclusive, NoBound),
                                                      stats.max)>>
                     ELSE ranges
       IN run' = [tasks |-> [tasks EXCEPT ![1].skip = resume.skip],
                  res   |-> [i \in DOMAIN tasks |-> None],
                  max   |-> stats.max]
    /\ runs' = runs + 1
    /\ UNCHANGED <<job, source, state, data, late>>

\* The rows a task's query returns now, and how many COUNT(*) finds.
QueryCursor(spec) == [r \in Rows |-> IF InRange(spec, r[1]) THEN source[r] ELSE 0]
CountRange(spec)  == Size(QueryCursor(spec))

\* What a SQL task reports: the rows that pass the filter, the largest cursor
\* among them, and the boundary of everything it read.
extractSQLCursorTask(spec) ==
    LET read == QueryCursor(spec)
        kept == Keep(spec.skip, state.mark, read)
    IN [read |-> read, out |-> kept, max |-> Largest(kept), bnd |-> Boundary(read)]

\* A document task reports neither a cursor nor a boundary, and skips nothing.
extractDocumentTask(spec) ==
    LET read == QueryCursor(spec)
    IN [read |-> read, out |-> read, max |-> 0, bnd |-> None]

\* A worker reads task i's range once and its result is accepted.
ExtractTask(i) ==
    /\ run # None
    /\ i \in DOMAIN run.tasks
    /\ run.res[i] = None
    /\ run' = [run EXCEPT !.res[i] = IF job.engine = "sql"
                                     THEN extractSQLCursorTask(run.tasks[i])
                                     ELSE extractDocumentTask(run.tasks[i])]
    /\ UNCHANGED <<job, source, state, data, late, runs>>

AllRead == run # None /\ \A i \in DOMAIN run.res : run.res[i] # None

\* Task i wrote as many rows as its planned range holds (reconcileTask).
CountMatches(i) == CountRange(run.tasks[i]) = Size(run.res[i].out)

Differ == {i \in DOMAIN run.tasks : ~CountMatches(i)}

\* Largest cursor any task of the run reported, and the boundaries reported.
deriveMaxCursor == Max({run.res[i].max : i \in DOMAIN run.res})
reportedHWMBoundaries == [i \in DOMAIN run.res |-> run.res[i].bnd]

\* reconcileSourceRanges refuses the commit: the run fails, nothing changes.
SourceMismatch ==
    /\ AllRead
    /\ job.check = "immutable"
    /\ Differ # {}
    /\ run' = None
    /\ UNCHANGED <<job, source, state, data, late, runs>>

\* The commit: the mark moves forward only, the boundary belongs to it.
CommitRun ==
    /\ AllRead
    /\ job.check = "immutable" => Differ = {}
    /\ LET mark == Larger(state.mark, deriveMaxCursor)
       IN state' = [mark |-> mark, bnd |-> ForState(mark, state.bnd, reportedHWMBoundaries)]
    /\ data' = [r \in Rows |-> data[r] + MapThenSumSet(LAMBDA i : run.res[i].out[r], DOMAIN run.res)]
    /\ run' = None
    /\ UNCHANGED <<job, source, late, runs>>

\* The run fails or is canceled before it commits; its files are not data.
RunEnds ==
    /\ run # None
    /\ run' = None
    /\ UNCHANGED <<job, source, state, data, late, runs>>

Next ==
    \/ \E r \in Rows : Insert(r)
    \/ \E parts \in 1 .. MaxTasks : CreateRunAndTasks(parts)
    \/ \E i \in 1 .. MaxTasks : ExtractTask(i)
    \/ SourceMismatch
    \/ CommitRun
    \/ RunEnds

Spec == Init /\ [][Next]_vars

-----------------------------------------------------------------------------
(* Properties.                                                             *)

\* Every range a plan hands out stays inside the cursors, and results appear
\* only for planned tasks.
IncrementalTypeOK ==
    /\ source \in [Rows -> 0 .. MaxCopies]
    /\ state.mark \in 0 .. MaxCursor
    /\ run # None => /\ Len(run.tasks) \in 1 .. MaxTasks
                     /\ Len(run.res) = Len(run.tasks)

\* Rows the next run would export if it read the source now.
NextExport ==
    LET resume == planHWMResume(state.mark, job.lookback, state.bnd)
        spec   == Spec3(resume.lower, resume.exclusive, NoBound)
    IN Keep(resume.skip, state.mark, QueryCursor(spec))

\* No row is lost: a source row that no later run would export is already in
\* the dataset, except the rows README.md names as missed.  A task boundary, a
\* skip set or a stale hwm_boundary that drops one copy more breaks it.
NoRowLost ==
    \A r \in Rows : source[r] - NextExport[r] <= data[r] + late[r]

\* No row is exported twice by a job without cursor_lookback: re-reading the
\* rows at the mark drops each exported copy exactly once.
NoRowTwice ==
    job.lookback = 0 => \A r \in Rows : data[r] <= source[r]

\* A source mismatch is proven data loss (README.md:386): some row of a
\* planned range is neither written by its task nor in the dataset already.
MismatchIsLoss ==
    AllRead /\ job.check = "immutable" /\ Differ # {} =>
        \E i \in DOMAIN run.tasks, r \in Rows :
            InRange(run.tasks[i], r[1]) /\ source[r] > data[r] + run.res[i].out[r]
=============================================================================
