-------------------------- MODULE WorkerWorkspace --------------------------
(***************************************************************************)
(* The directory a worker gives each attempt, and the scavenger that takes *)
(* away what crashed workers left (workerworkspace/workspace.go).  The     *)
(* worker works on one attempt at a time; a scan runs beside it.  Every    *)
(* file system call is a step of its own, so a scan may act on what it saw *)
(* before the worker's last calls.                                         *)
(*                                                                         *)
(* An attempt's directory has a parent of its own (the run's and task's    *)
(* directories) and holds up to four files.  Its age is 0 within the grace *)
(* period of the last activity, 1 within the offline retention, 2 beyond.  *)
(***************************************************************************)
EXTENDS Naturals, FiniteSets

CONSTANTS
    Attempts,
    Large,          \* the attempts whose files exceed what a scan may delete
    MaxCrashes      \* bound: worker processes that die

WorkspaceConstants == Large \subseteq Attempts /\ MaxCrashes \in Nat

VARIABLES
    parent,     \* attempts whose parent directory exists
    dir,        \* attempt -> [at, files, lock, age]: where it is, what it holds
    work,       \* [step, attempt] of the worker
    scan,       \* [step, todo, attempt, saw] of the scan
    removing,   \* worker or scan -> the attempt whose tree it is removing
    crashes

vars == <<parent, dir, work, scan, removing, crashes>>

NoAttempt == "none"
Files == {"lock", "tmp", "marker", "data"}

NoDir == [at |-> "nowhere", files |-> {}, lock |-> "free", age |-> 0]
IdleWork == [step |-> "idle", attempt |-> NoAttempt]
IdleScan == [step |-> "idle", todo |-> {}, attempt |-> NoAttempt, saw |-> {}, age |-> 0]

Init ==
    /\ parent = {}
    /\ dir = [a \in Attempts |-> NoDir]
    /\ work = [step |-> "starting", attempt |-> NoAttempt]
    /\ scan = IdleScan
    /\ removing = [worker |-> NoAttempt, scan |-> NoAttempt]
    /\ crashes = 0

\* Only the process that holds the root's lock runs, so a new one is alone.
\* Its first scan is over before it takes a task.
Ready == work.step = "starting" /\ scan.step = "idle" /\ work' = IdleWork
         /\ UNCHANGED <<parent, dir, scan, removing, crashes>>

-----------------------------------------------------------------------------
(* Create *)

New(a) == dir[a] = NoDir /\ a \notin parent

MkdirParent(a) ==
    /\ work = IdleWork /\ New(a)
    /\ parent' = parent \cup {a}
    /\ work' = [step |-> "mkdir", attempt |-> a]
    /\ UNCHANGED <<dir, scan, removing, crashes>>

Failed == [work EXCEPT !.step = "failed"]

\* A directory or file that a scan took away makes the call fail.
CreateStep(step, ok, next, changed) ==
    /\ work.step = step
    /\ IF ok THEN dir' = [dir EXCEPT ![work.attempt] = changed]
                  /\ work' = [work EXCEPT !.step = next]
             ELSE work' = Failed /\ UNCHANGED dir
    /\ UNCHANGED <<parent, scan, removing, crashes>>

Own == dir[work.attempt]
InPlace(d) == d.at = "workspaces"

Mkdir == CreateStep("mkdir", work.attempt \in parent, "lock",
                    [NoDir EXCEPT !.at = "workspaces"])

\* dir[a].lock is that of the file in place: a lock held on a file that was
\* moved away protects nothing.
OpenLock == CreateStep("lock", InPlace(Own), "tmp",
                       [Own EXCEPT !.files = @ \cup {"lock"}, !.lock = "held"])

WriteTemporary == CreateStep("tmp", InPlace(Own), "rename",
                             [Own EXCEPT !.files = @ \cup {"tmp"}, !.age = 0])

RenameMarker == CreateStep("rename", InPlace(Own) /\ "tmp" \in Own.files, "running",
                           [Own EXCEPT !.files = (@ \ {"tmp"}) \cup {"marker"}])

\* The task's own files; writing them fails when the directory is gone.
WriteData == CreateStep("running", InPlace(Own), "written",
                        [Own EXCEPT !.files = @ \cup {"data"}])

-----------------------------------------------------------------------------
(* Cleanup *)

\* SetState writes the marker again, then the lock is given up.
Unlock ==
    /\ work.step \in {"running", "written"}
    /\ dir' = [dir EXCEPT ![work.attempt] =
                 [@ EXCEPT !.lock = "free", !.age = 0,
                           !.files = IF InPlace(Own) THEN @ \cup {"marker"} ELSE @]]
    /\ work' = [work EXCEPT !.step = "move"]
    /\ UNCHANGED <<parent, scan, removing, crashes>>

\* moveAndDelete: one rename to trash/, then the tree is removed.
MoveToTrash(who, a) ==
    IF InPlace(dir[a])
    THEN /\ dir' = [dir EXCEPT ![a].at = "trash"]
         /\ removing' = [removing EXCEPT ![who] = a]
    ELSE UNCHANGED <<dir, removing>>

GracefulCleanup ==
    /\ work.step = "move"
    /\ MoveToTrash("worker", work.attempt)
    /\ work' = [work EXCEPT !.step = "removing"]
    /\ UNCHANGED <<parent, scan, crashes>>

\* safeRemoveTree goes by name, so the marker is the first file to go.
RemoveTree(who) ==
    /\ removing[who] # NoAttempt
    /\ LET a == removing[who]
       IN  IF dir[a].at = "trash" /\ "marker" \in dir[a].files
           THEN /\ dir' = [dir EXCEPT ![a].files = @ \ {"marker"}]
                /\ UNCHANGED removing
           ELSE /\ dir' = IF dir[a].at = "trash" THEN [dir EXCEPT ![a] = [NoDir EXCEPT !.at = "deleted"]]
                          ELSE dir
                /\ removing' = [removing EXCEPT ![who] = NoAttempt]
    /\ UNCHANGED <<parent, work, scan, crashes>>

NextTask ==
    /\ \/ work.step = "failed"
       \/ work.step = "removing" /\ removing["worker"] = NoAttempt
    /\ work' = IdleWork
    /\ dir' = [dir EXCEPT ![work.attempt].lock = "free"]
    /\ UNCHANGED <<parent, scan, removing, crashes>>

-----------------------------------------------------------------------------
(* Scan *)

\* ReadDir of trash/ and of workspaces/.
StartScan ==
    /\ scan.step = "idle"
    /\ scan' = [IdleScan EXCEPT !.step = "next",
                  !.todo = parent \cup {a \in Attempts : dir[a].at = "trash"}]
    /\ UNCHANGED <<parent, dir, work, removing, crashes>>

EndScan ==
    /\ scan.step = "next" /\ scan.todo = {}
    /\ scan' = IdleScan
    /\ UNCHANGED <<parent, dir, work, removing, crashes>>

Then(a, step) == scan' = [scan EXCEPT !.step = step, !.attempt = a, !.todo = @ \ {a},
                                      !.saw = dir[a].files, !.age = dir[a].age]

\* The head of scanWorkspaceTree: what the directory holds decides what follows.
\* A parent whose child is gone is removed.
Visit(a) ==
    /\ scan.step = "next" /\ a \in scan.todo
    /\ IF dir[a].at = "trash"
       THEN Then(a, IF "marker" \notin dir[a].files THEN "set aside"
                    ELSE IF a \in Large THEN "next" ELSE "remove") /\ UNCHANGED parent
       ELSE IF ~InPlace(dir[a])
       THEN Then(a, "next") /\ parent' = parent \ {a}
       ELSE Then(a, IF "marker" \in dir[a].files THEN "try lock"
                    ELSE IF dir[a].files = {} THEN "set aside" ELSE "set files aside")
            /\ UNCHANGED parent
    /\ UNCHANGED <<dir, work, removing, crashes>>

Done == scan' = [scan EXCEPT !.step = "next", !.attempt = NoAttempt, !.saw = {}, !.age = 0]

\* quarantinePath of the directory, found empty, or found in trash/ without a marker.
SetAside ==
    /\ scan.step = "set aside"
    /\ dir' = IF dir[scan.attempt].at \in {"workspaces", "trash"}
              THEN [dir EXCEPT ![scan.attempt].at = "quarantine"] ELSE dir
    /\ Done
    /\ UNCHANGED <<parent, work, removing, crashes>>

\* A file where a directory is expected is not ours: without a marker the walk
\* goes down into the workspace and meets its files.
SetFilesAside ==
    /\ scan.step = "set files aside"
    /\ dir' = IF InPlace(dir[scan.attempt])
              THEN [dir EXCEPT ![scan.attempt].files = @ \ scan.saw,
                               ![scan.attempt].lock = IF "lock" \in scan.saw THEN "free" ELSE @]
              ELSE dir
    /\ Done
    /\ UNCHANGED <<parent, work, removing, crashes>>

\* Mutant: the age alone decides.
TakeByAge ==
    /\ scan.step = "try lock"
    /\ IF InPlace(dir[scan.attempt]) /\ scan.age = 2 /\ scan.attempt \notin Large
       THEN scan' = [scan EXCEPT !.step = "move"]
       ELSE Done
    /\ UNCHANGED <<parent, dir, work, removing, crashes>>

\* tryWorkspaceLock, which creates the file if there is none, and the age.
\* Without an answer from the master only the offline retention decides.
TryWorkspaceLock ==
    /\ scan.step = "try lock"
    /\ LET d == dir[scan.attempt]
       IN  /\ dir' = IF InPlace(d) THEN [dir EXCEPT ![scan.attempt].files = @ \cup {"lock"}] ELSE dir
           /\ IF InPlace(d) /\ d.lock = "free" /\ scan.age = 2 /\ scan.attempt \notin Large
              THEN scan' = [scan EXCEPT !.step = "move"]
              ELSE Done
    /\ UNCHANGED <<parent, work, removing, crashes>>

ScanMoves ==
    /\ scan.step = "move"
    /\ MoveToTrash("scan", scan.attempt)
    /\ scan' = [scan EXCEPT !.step = "removing"]
    /\ UNCHANGED <<parent, work, crashes>>

ScanRemoves ==
    /\ scan.step = "remove"
    /\ removing' = [removing EXCEPT !["scan"] = scan.attempt]
    /\ scan' = [scan EXCEPT !.step = "removing"]
    /\ UNCHANGED <<parent, dir, work, crashes>>

ScanRemoved ==
    /\ scan.step = "removing" /\ removing["scan"] = NoAttempt
    /\ Done
    /\ UNCHANGED <<parent, dir, work, removing, crashes>>

-----------------------------------------------------------------------------
\* The process dies: its locks are gone, and so is its scan.
Crash ==
    /\ crashes < MaxCrashes
    /\ crashes' = crashes + 1
    /\ work' = [step |-> "starting", attempt |-> NoAttempt]
    /\ scan' = [IdleScan EXCEPT !.step = "next",
                  !.todo = parent \cup {a \in Attempts : dir[a].at = "trash"}]
    /\ removing' = [worker |-> NoAttempt, scan |-> NoAttempt]
    /\ dir' = [a \in Attempts |-> [dir[a] EXCEPT !.lock = "free"]]
    /\ UNCHANGED parent

\* Time passes since the marker was written.
Ages(a) ==
    /\ InPlace(dir[a]) /\ "marker" \in dir[a].files /\ dir[a].age < 2
    /\ dir' = [dir EXCEPT ![a].age = @ + 1]
    /\ UNCHANGED <<parent, work, scan, removing, crashes>>

WorkerStep ==
    \/ Ready \/ Mkdir \/ OpenLock \/ WriteTemporary \/ RenameMarker \/ WriteData
    \/ Unlock \/ GracefulCleanup \/ RemoveTree("worker") \/ NextTask

ScanStep ==
    \/ EndScan \/ (\E a \in Attempts : Visit(a)) \/ SetAside \/ SetFilesAside
    \/ TryWorkspaceLock \/ ScanMoves \/ ScanRemoves \/ RemoveTree("scan") \/ ScanRemoved

Next ==
    \/ WorkerStep \/ ScanStep \/ StartScan \/ Crash
    \/ \E a \in Attempts : MkdirParent(a) \/ Ages(a)

\* The ticker starts a scan when its period is over, and time passes.
Fairness ==
    /\ WF_vars(WorkerStep) /\ WF_vars(ScanStep) /\ WF_vars(StartScan)
    /\ \A a \in Attempts : WF_vars(Ages(a))

Spec == Init /\ [][Next]_vars /\ Fairness

-----------------------------------------------------------------------------
WorkspaceTypeOK ==
    /\ parent \subseteq Attempts
    /\ \A a \in Attempts :
        /\ dir[a].at \in {"nowhere", "workspaces", "trash", "quarantine", "deleted"}
        /\ dir[a].files \subseteq Files
        /\ dir[a].age \in 0 .. 2
    /\ scan.todo \subseteq Attempts

\* Whatever its age, a workspace whose lock file is in place and held is never
\* taken by a scan to be deleted.
LockedNeverDeleted ==
    \A a \in Attempts :
        dir[a].lock = "held" => dir'[a].at \notin {"trash", "deleted"}

\* What a worker leaves behind, wherever it crashed or failed, does not stay:
\* scans delete it or set it aside, unless it is too large for any scan.
LeftBehind(a) == dir[a].at \in {"workspaces", "trash"} /\ work.attempt # a
LeftoversLeave == \A a \in Attempts \ Large : []<>~LeftBehind(a)

====
