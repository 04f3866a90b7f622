----------------------------- MODULE LocalStack -----------------------------
(***************************************************************************)
(* `orabbit-client stack start`, `stack stop`, `stack status` and the      *)
(* local workers of `run interactive` (internal/orabbitcli: main.go,       *)
(* supervisor.go, localstate.go, process.go, workers.go, binaries.go).     *)
(*                                                                         *)
(* Every invocation is its own operating-system process.  They share one   *)
(* state file that lists the daemons they started; its mutex is a mutex of *)
(* the process, so invocations interleave between the file's read and its  *)
(* replacement.  A daemon is a child of the invocation that launched it: a *)
(* dead child stays a zombie, which signal 0 takes for alive, until the    *)
(* parent waits for it or exits.  Bounds: MaxLives processes per pid and   *)
(* MaxDeaths daemons that stop by themselves.                              *)
(***************************************************************************)
EXTENDS Naturals, FiniteSets

CONSTANTS
    Pids,           \* process ids the operating system hands out
    Starts,         \* `stack start master worker` invocations
    Runs,           \* `run interactive` invocations that manage local workers
    Stops,          \* `stack stop` invocations
    Count,          \* --count: workers a `stack start` launches
    MaxLives, MaxDeaths, NoPid

StackAssumption ==
    /\ Count \in Nat \ {0} /\ MaxLives \in Nat /\ MaxDeaths \in Nat
    /\ NoPid \notin Pids
    /\ Starts \cap Runs = {} /\ Starts \cap Stops = {} /\ Runs \cap Stops = {}

VARIABLES
    proc,       \* [Pids -> the process that has the pid]
    file,       \* records of orabbit-managed-processes.json: [pid, id]
    inv,        \* [invocation -> where its main goroutine is]
    thr,        \* [<<invocation, thread>> -> where that thread is]
    mu,         \* [invocation -> TRUE while managedProcessStateMu is held]
    deaths

stackVars == <<proc, file, inv, thr, mu, deaths>>

Invocations == Starts \cup Runs \cup Stops
Master == 0
Threads == 0 .. Count       \* 0 launches the master, i the worker local-0i
Launchers == (Starts \X Threads) \cup (Runs \X (Threads \ {Master}))

Free == [life |-> "free", owner |-> NoPid, id |-> Master, ctx |-> FALSE, gen |-> 0]
Idle == [pc |-> "idle", pid |-> NoPid, snap |-> {}, save |-> FALSE]

StackInit ==
    /\ proc = [p \in Pids |-> Free]
    /\ file = {}
    /\ inv = [i \in Invocations |->
                [pc |-> IF i \in Starts THEN "launch" ELSE "list", cancelled |-> FALSE,
                 targets |-> {}, snap |-> {}, save |-> FALSE, existing |-> {}]]
    /\ thr = [l \in Launchers |-> Idle]
    /\ mu = [i \in Invocations |-> FALSE]
    /\ deaths = 0

\* kill(pid, 0): a zombie still answers.
processAlive(p) == proc[p].life # "free"

\* Every reader of the file drops the records of dead processes, and if there
\* was one it first replaces the file by what it kept: the read is one step, the
\* save is another.
pruneManagedProcessState(records) == {r \in records : processAlive(r.pid)}

Loaded(reader, pc) ==
    [reader EXCEPT !.pc = pc, !.snap = pruneManagedProcessState(file),
                   !.save = pruneManagedProcessState(file) # file]

\* The process scan: every master and worker of this installation that runs.
listMasterWorkerProcs == {p \in Pids : proc[p].life = "running"}

\* The pid is free again.
Freed(p) == [Free EXCEPT !.gen = proc[p].gen]

\* The process ends; it is a zombie while its parent lives and has not waited.
Ended(p) == [proc[p] EXCEPT !.life = IF inv[proc[p].owner].pc = "exit" THEN "free" ELSE "zombie"]
Kill(ps) == proc' = [p \in Pids |-> IF p \in ps /\ proc[p].life = "running" THEN Ended(p) ELSE proc[p]]

SetThr(l, t) == thr' = [thr EXCEPT ![l] = t]
Running(l) == thr[l].pid # NoPid /\ proc[thr[l].pid].life = "running"

\* ensureLocalWorkers of an interactive run has launched what was missing.
Launched(i) == \A k \in Threads \ {Master} : thr[<<i, k>>].pc \in {"left", "skipped"}

\* saveManagedProcessStateLocked of a pruned file, by a goroutine that holds the
\* mutex or by the main goroutine.
SavePruned(l) ==
    /\ thr[l].save
    /\ file' = thr[l].snap
    /\ SetThr(l, [thr[l] EXCEPT !.save = FALSE])
    /\ UNCHANGED <<proc, inv, mu, deaths>>

SaveListed(i) ==
    /\ inv[i].save
    /\ file' = inv[i].snap
    /\ inv' = [inv EXCEPT ![i].save = FALSE]
    /\ UNCHANGED <<proc, thr, mu, deaths>>

\* listManagedProcesses of a run before it launches and before it trims, and of a
\* stop; the read of unregisterManagedProcesses; and reconcileManagedState.
listManagedProcesses(i) ==
    /\ ~mu[i] /\ ~inv[i].save
    /\ \E step \in {<<"list", "decide">>, <<"launch", "trim">>, <<"unload", "unregister">>,
                    <<"reconcile", "leave">>} :
          /\ inv[i].pc = step[1]
          /\ step[1] = "launch" => i \in Runs /\ Launched(i)
          /\ inv' = [inv EXCEPT ![i] = [Loaded(@, step[2]) EXCEPT !.existing = {}]]
    /\ UNCHANGED <<proc, file, thr, mu, deaths>>

-----------------------------------------------------------------------------
(* Launching a daemon: launchManagedProcess and registerManagedProcess.    *)

\* The order of the threads: a start launches the master, waits until it is
\* ready and then launches the workers at once; an interactive run launches
\* the missing workers one after the other (ensureLocalWorkers).
MayLaunch(l) ==
    LET i == l[1] IN
    /\ thr[l].pc = "idle"
    /\ inv[i].pc = "launch" /\ ~inv[i].cancelled
    /\ l[2] # Master => IF i \in Starts
                          THEN thr[<<i, Master>>].pc = "wait"
                          ELSE \A k \in 1 .. l[2] - 1 : thr[<<i, k>>].pc \in {"left", "skipped"}

\* ensureLocalWorkers reads once which workers exist: those the state file lists
\* and those the master reports; it launches the others.
ensureLocalWorkers(i) ==
    /\ i \in Runs /\ inv[i].pc = "decide" /\ ~inv[i].save
    /\ \E reported \in SUBSET {proc[p].id : p \in listMasterWorkerProcs} :
          inv' = [inv EXCEPT ![i].pc = "launch", ![i].snap = {},
                             ![i].existing = reported \cup {r.id : r \in inv[i].snap}]
    /\ UNCHANGED <<proc, file, thr, mu, deaths>>

SkipExisting(l) ==
    /\ MayLaunch(l) /\ l[2] \in inv[l[1]].existing
    /\ SetThr(l, [Idle EXCEPT !.pc = "skipped"])
    /\ UNCHANGED <<proc, file, inv, mu, deaths>>

\* cmd.Start: the daemon runs.  Only `stack start` ties it to its context.
launchManagedProcess(l) ==
    /\ MayLaunch(l)
    /\ l[2] \notin inv[l[1]].existing
    /\ \E p \in Pids :
          /\ proc[p].life = "free" /\ proc[p].gen < MaxLives
          /\ proc' = [proc EXCEPT ![p] = [life |-> "running", owner |-> l[1], id |-> l[2],
                                          ctx |-> l[1] \in Starts, gen |-> @.gen + 1]]
          /\ SetThr(l, [Idle EXCEPT !.pc = "started", !.pid = p])
    /\ UNCHANGED <<file, inv, mu, deaths>>

\* Mutant: the file is read without the mutex.
RegisterLoadUnlocked(l) ==
    /\ thr[l].pc = "started"
    /\ SetThr(l, Loaded(thr[l], "register"))
    /\ UNCHANGED <<proc, file, inv, mu, deaths>>

\* registerManagedProcess: read and prune under the mutex, then replace the file.
RegisterLoad(l) ==
    /\ thr[l].pc = "started" /\ ~mu[l[1]]
    /\ mu' = [mu EXCEPT ![l[1]] = TRUE]
    /\ SetThr(l, Loaded(thr[l], "register"))
    /\ UNCHANGED <<proc, file, inv, deaths>>

registerManagedProcess(l) ==
    /\ thr[l].pc = "register" /\ ~thr[l].save
    /\ mu' = [mu EXCEPT ![l[1]] = FALSE]
    /\ file' = {r \in thr[l].snap : r.pid # thr[l].pid} \cup {[pid |-> thr[l].pid, id |-> l[2]]}
    /\ SetThr(l, [thr[l] EXCEPT !.pc = IF l[1] \in Starts THEN "wait" ELSE "left", !.snap = {}])
    /\ UNCHANGED <<proc, inv, deaths>>

-----------------------------------------------------------------------------
(* Waiting and ending: managedProcessHandle.wait, the end of cmdStart.     *)

\* cmd.Wait returns once the daemon is dead, and reaps it.  The goroutines of a
\* start wait for their own worker; pg.wait waits for the others in turn.
Wait(l) ==
    /\ thr[l].pc = "wait" /\ ~Running(l)
    /\ l[2] = Master => inv[l[1]].pc = "reap"
    /\ l[1] \in Runs => \A k \in 1 .. l[2] - 1 : thr[<<l[1], k>>].pc \in {"skipped", "done"}
    /\ proc' = [proc EXCEPT ![thr[l].pid] = Freed(thr[l].pid)]
    /\ SetThr(l, [thr[l] EXCEPT !.pc = "unload"])
    /\ UNCHANGED <<file, inv, mu, deaths>>

UnregisterLoad(l) ==
    /\ thr[l].pc = "unload" /\ ~mu[l[1]]
    /\ mu' = [mu EXCEPT ![l[1]] = TRUE]
    /\ SetThr(l, Loaded(thr[l], "unregister"))
    /\ UNCHANGED <<proc, file, inv, deaths>>

\* What unregisterManagedProcesses leaves: without a record to drop it saves
\* nothing.
Unregistered(records, ps) ==
    IF \E r \in records : r.pid \in ps THEN {r \in records : r.pid \notin ps} ELSE file

\* The goroutine ends: its result cancels the context of the whole start.
unregisterManagedProcess(l) ==
    /\ thr[l].pc = "unregister" /\ ~thr[l].save
    /\ mu' = [mu EXCEPT ![l[1]] = FALSE]
    /\ file' = Unregistered(thr[l].snap, {thr[l].pid})
    /\ SetThr(l, [thr[l] EXCEPT !.pc = "done", !.snap = {}])
    /\ inv' = [inv EXCEPT ![l[1]].cancelled = TRUE]
    /\ UNCHANGED <<proc, deaths>>

\* A registration that cannot be written: the daemon gets SIGTERM and is waited
\* for, and the error cancels the start.
RegisterFails(l) ==
    /\ thr[l].pc = "register" /\ l[1] \in Starts
    /\ deaths < MaxDeaths /\ deaths' = deaths + 1
    /\ mu' = [mu EXCEPT ![l[1]] = FALSE]
    /\ proc' = [proc EXCEPT ![thr[l].pid] = Freed(thr[l].pid)]
    /\ SetThr(l, [Idle EXCEPT !.pc = "done"])
    /\ inv' = [inv EXCEPT ![l[1]].cancelled = TRUE]
    /\ UNCHANGED file

\* exec.CommandContext kills the daemon when the context is cancelled.
ContextKills(l) ==
    /\ inv[l[1]].cancelled /\ Running(l) /\ proc[thr[l].pid].ctx
    /\ Kill({thr[l].pid})
    /\ UNCHANGED <<file, inv, thr, mu, deaths>>

\* Ctrl+C, or a worker that ended: cancel, SIGTERM to the group.
cmdStartCancel(i) ==
    /\ i \in Starts /\ inv[i].pc = "launch"
    /\ thr[<<i, Master>>].pc \in {"wait", "done"}
    /\ \/ inv[i].cancelled
       \/ deaths < MaxDeaths
    /\ deaths' = IF inv[i].cancelled THEN deaths ELSE deaths + 1
    /\ inv' = [inv EXCEPT ![i].cancelled = TRUE, ![i].pc = "join"]
    /\ Kill({thr[l].pid : l \in {k \in Launchers : k[1] = i /\ thr[k].pc = "wait"}})
    /\ UNCHANGED <<file, thr, mu>>

\* Mutant: the command leaves without waiting for its goroutines.
JoinedAtOnce(i) == TRUE

\* wg.Wait: every worker goroutine of the start is over.
Joined(i) == \A k \in Threads \ {Master} : thr[<<i, k>>].pc \in {"idle", "done"}

\* pg.wait reaps the master.
cmdStartReap(i) ==
    /\ i \in Starts /\ inv[i].pc = "join" /\ Joined(i)
    /\ inv' = [inv EXCEPT ![i].pc = "reap"]
    /\ UNCHANGED <<proc, file, thr, mu, deaths>>

\* An interactive run that is interrupted, or that cannot submit or follow its
\* run, stops the workers it launched: SIGTERM to the group, then pg.wait.
cmdRunInteractiveFails(i) ==
    /\ i \in Runs /\ inv[i].pc = "launch" /\ Launched(i)
    /\ LET own == {l \in Launchers : l[1] = i /\ thr[l].pc = "left"} IN
       /\ Kill({thr[l].pid : l \in own})
       /\ thr' = [l \in Launchers |-> IF l \in own THEN [thr[l] EXCEPT !.pc = "wait"] ELSE thr[l]]
    /\ inv' = [inv EXCEPT ![i].pc = "reap", ![i].existing = {}]
    /\ UNCHANGED <<file, mu, deaths>>

\* pg.wait has returned, every daemon that was added to the group has been waited
\* for: reconcileManagedState follows.
Reaped(i) ==
    /\ inv[i].pc = "reap" /\ ~mu[i]
    /\ \A l \in Launchers : l[1] = i => thr[l].pc \notin {"wait", "unload", "unregister"}
    /\ inv' = [inv EXCEPT ![i].pc = "reconcile"]
    /\ UNCHANGED <<proc, file, thr, mu, deaths>>

\* The invocation exits; the children it has not waited for are orphaned.
Leave(i) ==
    /\ inv[i].pc = "leave" /\ ~inv[i].save
    /\ inv' = [inv EXCEPT ![i].pc = "exit", ![i].snap = {}]
    /\ proc' = [p \in Pids |-> IF proc[p].owner = i /\ proc[p].life = "zombie"
                                 THEN Freed(p) ELSE proc[p]]
    /\ UNCHANGED <<file, thr, mu, deaths>>

-----------------------------------------------------------------------------
(* Stopping: cmdStop, findStopTargets, trimLocalWorkers and stopPIDs.      *)

\* The state file decides when it lists anything; else the process scan, which
\* matches every daemon whose command lies under the runtime directory.
findStopTargets(listed) ==
    IF listed # {} THEN {r.pid : r \in listed} ELSE listMasterWorkerProcs

\* With nothing to stop the invocation is over, else stopPIDs follows.
Targeted(i, ps) ==
    /\ ~inv[i].save
    /\ inv' = [inv EXCEPT ![i].pc = IF ps = {} THEN "leave" ELSE "signal", ![i].snap = {},
                          ![i].targets = {[pid |-> p, gen |-> proc[p].gen] : p \in ps}]
    /\ UNCHANGED <<proc, file, thr, mu, deaths>>

\* cmdRunInteractive leaves its workers running: after the run it stops only
\* those whose number is above the wanted one.
trimLocalWorkers(i) ==
    /\ inv[i].pc = "trim"
    /\ \E desired \in 1 .. Count :
          Targeted(i, {p \in findStopTargets(inv[i].snap) : proc[p].id > desired})

cmdStop(i) ==
    /\ i \in Stops /\ inv[i].pc = "decide"
    /\ Targeted(i, findStopTargets(inv[i].snap))

TargetPids(i) == {t.pid : t \in inv[i].targets}

\* SIGTERM to whoever has the pids now; some daemons end at once, others are
\* slower than the two seconds they get.
SignalTargets(i) ==
    /\ inv[i].pc = "signal"
    /\ \E obeying \in SUBSET TargetPids(i) : Kill(obeying)
    /\ inv' = [inv EXCEPT ![i].pc = "await"]
    /\ UNCHANGED <<file, thr, mu, deaths>>

\* waitPIDsExit: no pid answers.  A zombie does, so a daemon whose parent is
\* alive and busy is waited for until the timeout and then killed.
AllExited(i) ==
    /\ inv[i].pc = "await"
    /\ \A p \in TargetPids(i) : ~processAlive(p)
    /\ inv' = [inv EXCEPT ![i].pc = "unload"]
    /\ UNCHANGED <<proc, file, thr, mu, deaths>>

\* Mutant: no second signal at the timeout.
GiveUp(i) ==
    /\ inv[i].pc = "await"
    /\ inv' = [inv EXCEPT ![i].pc = "unload"]
    /\ UNCHANGED <<proc, file, thr, mu, deaths>>

KillRemaining(i) ==
    /\ inv[i].pc = "await"
    /\ Kill(TargetPids(i))
    /\ inv' = [inv EXCEPT ![i].pc = "unload"]
    /\ UNCHANGED <<file, thr, mu, deaths>>

\* unregisterManagedProcesses; reconcileManagedState follows.
unregisterManagedProcesses(i) ==
    /\ inv[i].pc = "unregister" /\ ~inv[i].save
    /\ file' = Unregistered(inv[i].snap, TargetPids(i))
    /\ inv' = [inv EXCEPT ![i].pc = "reconcile", ![i].snap = {}]
    /\ UNCHANGED <<proc, thr, mu, deaths>>

\* A daemon stops by itself.
DaemonDies(p) ==
    /\ proc[p].life = "running"
    /\ deaths < MaxDeaths /\ deaths' = deaths + 1
    /\ Kill({p})
    /\ UNCHANGED <<file, inv, thr, mu>>

\* cmdStackStatus answers from the state file when it lists a live process, from
\* the master's API when it is healthy, and from the process scan otherwise.
cmdStackStatus ==
    IF pruneManagedProcessState(file) # {} THEN "managed_state"
    ELSE IF \E p \in listMasterWorkerProcs : proc[p].id = Master THEN "master_api"
    ELSE "process_scan"

-----------------------------------------------------------------------------
LaunchStep(l) ==
    \/ SkipExisting(l) \/ launchManagedProcess(l) \/ RegisterLoad(l) \/ SavePruned(l)
    \/ registerManagedProcess(l) \/ RegisterFails(l) \/ Wait(l) \/ UnregisterLoad(l)
    \/ unregisterManagedProcess(l) \/ ContextKills(l)

InvocationStep(i) ==
    \/ listManagedProcesses(i) \/ SaveListed(i) \/ ensureLocalWorkers(i) \/ trimLocalWorkers(i)
    \/ cmdStartCancel(i) \/ cmdStartReap(i) \/ cmdRunInteractiveFails(i) \/ Reaped(i) \/ Leave(i)
    \/ cmdStop(i) \/ SignalTargets(i) \/ AllExited(i) \/ KillRemaining(i)
    \/ unregisterManagedProcesses(i)

StackNext ==
    \/ \E l \in Launchers : LaunchStep(l)
    \/ \E i \in Invocations : InvocationStep(i)
    \/ \E p \in Pids : DaemonDies(p)

StackSpec == StackInit /\ [][StackNext]_stackVars

-----------------------------------------------------------------------------
\* The state has the shape the supervisor and the state file give it.
StackTypeOK ==
    /\ \A p \in Pids : proc[p].life \in {"free", "running", "zombie"} /\ proc[p].gen \in 0 .. MaxLives
    /\ file \subseteq [pid : Pids, id : Threads]
    /\ \A r, q \in file : r.pid = q.pid => r = q
    /\ \A l \in Launchers : thr[l].pid \in Pids \cup {NoPid}
    /\ cmdStackStatus \in {"managed_state", "master_api", "process_scan"}

\* When `stack start` has returned, no daemon it launched is running: neither a
\* worker launched while another one failed, nor one whose registration was
\* under way when the command was interrupted (cmdStart).
DaemonsEndWithStart ==
    \A i \in Starts : inv[i].pc = "exit" =>
        \A p \in Pids : proc[p].owner = i => proc[p].life # "running"

\* While no other invocation has touched the state file, every daemon of a
\* `stack start` that is past its registration is listed: the concurrent
\* registrations of its goroutines do not overwrite one another
\* (registerManagedProcess under managedProcessStateMu).
RegisteredIsListed ==
    \A i \in Starts :
        (\A k \in Invocations \ {i} : inv[k].pc = (IF k \in Starts THEN "launch" ELSE "list") /\
              \A l \in Launchers : l[1] = k => thr[l].pc = "idle") =>
            \A l \in Launchers : l[1] = i /\ thr[l].pc = "wait" /\ Running(l) =>
                [pid |-> thr[l].pid, id |-> l[2]] \in file

\* What `stack stop` or a trim has reported as stopped does not run any more
\* (stopPIDs: SIGTERM, two seconds, SIGKILL).
StoppedIsGone ==
    \A i \in Stops \cup Runs : inv[i].pc = "exit" =>
        \A t \in inv[i].targets : ~(proc[t.pid].gen = t.gen /\ proc[t.pid].life = "running")

=============================================================================
