------------------------------- MODULE Migration -------------------------------
(***************************************************************************)
(* The schema migrations of the control-plane database.  A starting master *)
(* holds the singleton lock, so one process migrates at a time.  Migrate   *)
(* reads the recorded versions once and, for each version that is missing, *)
(* hands the whole script to SQLite, which commits its statements one by   *)
(* one; the version is recorded by a further statement.  The process may   *)
(* be stopped between any two of them (a crash, or SIGTERM, which cancels  *)
(* the context), and then starts again on what is there.                   *)
(***************************************************************************)
EXTENDS MigrationScripts, FiniteSets

CONSTANTS
    Bases,          \* versions of the databases that older masters left
    MaxCrashes      \* bound on stops of the process

VARIABLES
    have,       \* the schema
    data,       \* the rows a script touches
    recorded,   \* versions in schema_migrations
    phase,      \* "down", "script", "record", "up" or "failed"
    applied,    \* the versions Migrate read when it started
    at,         \* version and statement the process is at
    crashes

migrationVars == <<have, data, recorded, phase, applied, at, crashes>>

MigrationAssumption == Bases \subseteq 0..Len(migrations) /\ MaxCrashes \in Nat

-----------------------------------------------------------------------------
(* The starting master *)

\* A database an older master left at version n; some of version 4 lack the
\* column that version 5 repairs.
MigrationInit ==
    \E n \in Bases :
        /\ recorded = 1..n
        /\ have \in {SchemaOf(n)} \cup
                    (IF n = 4 THEN {SchemaOf(3)} ELSE {})
        /\ data \in [artifact : IF n >= 9 THEN {{"task_artifacts"}} ELSE {{}},
                     task : IF n < 8 THEN {"RUNNING", "SUCCEEDED"} ELSE {"OWNED", "SUCCEEDED"},
                     reconciling : IF n \in 11..15 THEN {""} ELSE {"none"},
                     leaders : {IF n >= 13 THEN 1 ELSE 0},
                     incremental : BOOLEAN,
                     mode : IF n < 31 THEN {"", "append", "OVERWRITE"} ELSE {"append"},
                     timestamp : {IF n < 28 THEN "variable" ELSE "fixed"}]
        /\ phase = "down" /\ applied = {} /\ at = [v |-> 1, i |-> 1] /\ crashes = 0

NextMissing(v, done) ==
    LET missing == {w \in Versions : w >= v /\ w \notin done}
    IN IF missing = {} THEN 0 ELSE CHOOSE w \in missing : \A u \in missing : w <= u

\* The loop of Migrate goes on to the next version that was missing when it
\* started, and Open ends when there is none.
Goto(v, done) ==
    LET w == NextMissing(v, done)
    IN IF w = 0
       THEN phase' = "up" /\ UNCHANGED at
       ELSE phase' = "script" /\ at' = [v |-> w, i |-> 1]

\* Mutant: The versions are read but not remembered.
OpenForgets ==
    /\ phase \in {"down", "failed"}
    /\ applied' = {}
    /\ Goto(1, {})
    /\ UNCHANGED <<have, data, recorded, crashes>>

Open ==
    /\ phase \in {"down", "failed"}
    /\ applied' = recorded
    /\ Goto(1, recorded)
    /\ UNCHANGED <<have, data, recorded, crashes>>

Script == migrations[at.v]

\* Mutant: The version is recorded before its script has run.
StatementAfterRecord ==
    /\ phase = "script"
    /\ LET s == Script[at.i]
       IN IF Refused(have, s)
          THEN phase' = "failed" /\ UNCHANGED <<have, data, at>>
          ELSE /\ have' = Schema(have, s)
               /\ data' = Data(data, s)
               /\ at' = [at EXCEPT !.i = @ + 1]
               /\ phase' = IF at.i = Len(Script) THEN "record" ELSE "script"
    /\ recorded' = recorded \cup {at.v}
    /\ UNCHANGED <<applied, crashes>>

\* One statement of the script, committed by itself; its error ends the start.
Statement ==
    /\ phase = "script"
    /\ LET s == Script[at.i]
       IN IF Refused(have, s)
          THEN phase' = "failed" /\ UNCHANGED <<have, data, at>>
          ELSE /\ have' = Schema(have, s)
               /\ data' = Data(data, s)
               /\ at' = [at EXCEPT !.i = @ + 1]
               /\ phase' = IF at.i = Len(Script) THEN "record" ELSE "script"
    /\ UNCHANGED <<recorded, applied, crashes>>

\* INSERT INTO schema_migrations, and on to the next version.
Record ==
    /\ phase = "record"
    /\ recorded' = recorded \cup {at.v}
    /\ Goto(at.v + 1, applied)
    /\ UNCHANGED <<have, data, applied, crashes>>

\* The process is stopped; a later start begins again.
Stop ==
    /\ phase \in {"script", "record", "up"} /\ crashes < MaxCrashes
    /\ phase' = "down" /\ applied' = {} /\ at' = [v |-> 1, i |-> 1]
    /\ crashes' = crashes + 1
    /\ UNCHANGED <<have, data, recorded>>

MigrationNext == Open \/ Statement \/ Record \/ Stop

MigrationSpec == MigrationInit /\ [][MigrationNext]_migrationVars

-----------------------------------------------------------------------------
(* Properties *)

MigrationTypeOK ==
    /\ recorded \subseteq Versions /\ applied \subseteq Versions
    /\ phase \in {"down", "script", "record", "up", "failed"}
    /\ at.v \in Versions /\ at.i \in 1..(Len(Script) + 1) /\ crashes \in 0..MaxCrashes

\* An upgrade that nothing interrupts comes up, from every version, and a
\* master that comes up has the schema of a fresh installation, from
\* whichever version and through whichever stops it got there, and the rows of
\* the older master in the form the code expects: no task that was left
\* RUNNING without an attempt, no RECONCILING registration that nothing
\* queues, one leadership row, a valid write mode.
UpMeansCurrent ==
    /\ phase = "failed" => crashes > 0
    /\ phase = "up" =>
        /\ have = SchemaOf(Len(migrations))
        /\ data.task # "RUNNING" /\ data.reconciling # "" /\ data.leaders = 1
        /\ data.mode \in {"append", "overwrite"} /\ data.timestamp = "fixed"

\* The artifact rows of older runs are in the database throughout the rebuild
\* of their table by version 10, whenever the master is stopped and however
\* often the script is run again.
ArtifactRowsKept ==
    data.artifact # {} => data'.artifact # {}

\* A database on which this release has come up is not migrated again: every
\* later start comes up and leaves schema and rows alone.  A task that is
\* OWNED by an attempt is thereby never recovered as a legacy task.
MigratedStaysMigrated ==
    recorded = Versions => have' = have /\ data' = data /\ phase' # "failed"

=============================================================================
