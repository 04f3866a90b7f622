-------------------------- MODULE RemoteOperations --------------------------
(***************************************************************************)
(* Remote operations of the control panel: one managed server with its SSH *)
(* credential (internal/http/servers.go), and the commands the master runs *)
(* on it, as deployments and container actions (deployments.go,            *)
(* containers.go, launchCommandExecution in controlpanel_helpers.go).      *)
(*                                                                         *)
(* A host stands for an address together with the key it presents, and a   *)
(* credential for the host whose key fingerprint it pins.  The output of a *)
(* command is the sequence of its chunks 1, 2, ...; a tail is the last     *)
(* TailLimit of them.  Every store transaction may fail, MaxFaults times   *)
(* in all; the callers drop those errors where the code does.              *)
(***************************************************************************)
EXTENDS Naturals, Sequences, FiniteSets, SequencesExt

CONSTANTS Ops,        \* the commands requested
          Deploys,    \* those that are deployments; the others are container actions
          Hosts,      \* addresses
          MaxPatches, \* bound on PATCH /servers/{id}
          MaxChunks,  \* bound on the output of a command
          TailLimit,  \* executionTailLimitBytes
          MaxFaults   \* bound on failed store transactions

NoHost == "none"

RemoteAssumption ==
    /\ Deploys \subseteq Ops /\ NoHost \notin Hosts
    /\ {MaxPatches, MaxChunks, MaxFaults} \subseteq Nat /\ TailLimit \in Nat \ {0}

VARIABLES server,   \* the host of the servers row, or NoHost when it is deleted
          cred,     \* the host the credential row pins, or NoHost
          patch,    \* what a PATCH still has to store: a host, or NoHost
          patches,  \* PATCHes so far; the creation of the server comes before the first
          born,     \* the server was created
          op,       \* the goroutine of each command
          exec,     \* command_executions: [status, tail], or the row is absent
          dep,      \* deployments: the status, or "absent"
          faults

remoteVars == <<server, cred, patch, patches, born, op, exec, dep, faults>>

Terminal == {"SUCCEEDED", "FAILED"}
NoRow == [status |-> "absent", tail |-> <<>>]
NoOp == [pc |-> "idle", host |-> NoHost, key |-> NoHost, out |-> 0, tail |-> <<>>,
         late |-> 0, result |-> "none", timedOut |-> FALSE]

RemoteInit ==
    /\ server = NoHost /\ cred = NoHost /\ patch = NoHost
    /\ patches = 0 /\ born = FALSE
    /\ op = [o \in Ops |-> NoOp]
    /\ exec = [o \in Ops |-> NoRow]
    /\ dep = [o \in Ops |-> "absent"]
    /\ faults = 0

TrimTail(t) == IF Len(t) <= TailLimit THEN t ELSE SubSeq(t, Len(t) - TailLimit + 1, Len(t))

\* A store transaction: it takes effect, or it fails and changes nothing.
Stored(effect, nothing) == \/ effect /\ faults' = faults
                           \/ nothing /\ faults < MaxFaults /\ faults' = faults + 1

(***************************************************************************)
(* The server and its credential.                                          *)
(***************************************************************************)
\* POST and PATCH store the row and, in a second transaction, the credential
\* when the request names one.
CreateServer(h) ==
    /\ ~born
    /\ born' = TRUE /\ server' = h /\ patch' \in {h, NoHost}
    /\ UNCHANGED <<cred, patches, op, exec, dep, faults>>

UpdateServer(h) ==
    /\ server # NoHost /\ patch = NoHost /\ patches < MaxPatches
    /\ patches' = patches + 1
    /\ server' = h /\ patch' \in {h, NoHost}
    /\ UNCHANGED <<cred, born, op, exec, dep, faults>>

\* The credential of a deleted server is refused by its foreign key.  A POST
\* whose credential is refused takes its server back.
SaveServerCredential ==
    /\ patch # NoHost
    /\ patch' = NoHost
    /\ Stored(/\ cred' = IF server = NoHost THEN cred ELSE patch
              /\ server' = server,
              /\ cred' = cred
              /\ server' = IF patches = 0 THEN NoHost ELSE server)
    /\ UNCHANGED <<patches, born, op, exec, dep>>

\* DELETE removes the server with everything that refers to it, commands
\* still running included.
DeleteServer ==
    /\ server # NoHost
    /\ server' = NoHost /\ cred' = NoHost
    /\ exec' = [o \in Ops |-> NoRow]
    /\ dep' = [o \in Ops |-> "absent"]
    /\ UNCHANGED <<patch, patches, born, op, faults>>

(***************************************************************************)
(* The request: load the target, validate, create the rows, launch.        *)
(***************************************************************************)
Goes(o, pc) == op' = [op EXCEPT ![o].pc = pc]

GetServer(o) ==
    /\ op[o].pc = "idle" /\ server # NoHost
    /\ op' = [op EXCEPT ![o].pc = "loading", ![o].host = server]
    /\ UNCHANGED <<server, cred, patch, patches, born, exec, dep, faults>>

\* loadServerTarget reads the credential apart from the server.
loadServerTarget(o) ==
    /\ op[o].pc = "loading"
    /\ IF cred = NoHost THEN op' = [op EXCEPT ![o] = NoOp]
                        ELSE op' = [op EXCEPT ![o].pc = "loaded", ![o].key = cred]
    /\ UNCHANGED <<server, cred, patch, patches, born, exec, dep, faults>>

\* Mutant: the host key is not compared with the pinned one.
dialUnpinned(o) == op[o].host \in Hosts

\* The handshake accepts only the key the credential pins.
dial(o) == op[o].host = op[o].key

\* A deployment checks the connection, Docker and the project first.
PrepareDeployment(o) ==
    /\ op[o].pc = "loaded"
    /\ \/ o \notin Deploys /\ Goes(o, "prepared")
       \/ o \in Deploys /\ dial(o) /\ Goes(o, "prepared")
       \/ o \in Deploys /\ op' = [op EXCEPT ![o] = NoOp]
    /\ UNCHANGED <<server, cred, patch, patches, born, exec, dep, faults>>

\* Mutant: no foreign key.
CreateWithoutServer(o) ==
    /\ op[o].pc = "prepared"
    /\ exec' = [exec EXCEPT ![o] = [status |-> "RUNNING", tail |-> <<>>]]
    /\ Goes(o, IF o \in Deploys THEN "recorded" ELSE "launched")
    /\ UNCHANGED <<server, cred, patch, patches, born, dep, faults>>

CreateCommandExecution(o) ==
    /\ op[o].pc = "prepared"
    /\ Stored(server # NoHost /\ exec' = [exec EXCEPT ![o] = [status |-> "RUNNING", tail |-> <<>>]]
                              /\ Goes(o, IF o \in Deploys THEN "recorded" ELSE "launched"),
              exec' = exec /\ Goes(o, "refused"))
    /\ UNCHANGED <<server, cred, patch, patches, born, dep>>

\* The foreign key refuses the row of a server that is gone.
ServerGone(o) ==
    /\ op[o].pc \in {"prepared", "recorded"} /\ server = NoHost
    /\ Goes(o, "refused")
    /\ UNCHANGED <<server, cred, patch, patches, born, exec, dep, faults>>

\* When this fails the request fails, and the execution row stays as it is.
CreateDeployment(o) ==
    /\ op[o].pc = "recorded"
    /\ Stored(server # NoHost /\ dep' = [dep EXCEPT ![o] = "RUNNING"] /\ Goes(o, "launched"),
              dep' = dep /\ Goes(o, "refused"))
    /\ UNCHANGED <<server, cred, patch, patches, born, exec>>

(***************************************************************************)
(* The command.                                                            *)
(***************************************************************************)
\* A command that cannot be started ends at once with an error.
ExecuteCommand(o) ==
    /\ op[o].pc = "launched"
    /\ \/ dial(o) /\ Goes(o, "running")
       \/ op' = [op EXCEPT ![o].pc = "ended", ![o].result = "FAILED"]
    /\ UNCHANGED <<server, cred, patch, patches, born, exec, dep, faults>>

\* tailWriter.Write keeps the tail and then calls back with the chunk.
Write(o) ==
    /\ op[o].pc = "running" /\ op[o].late = 0 /\ op[o].out < MaxChunks
    /\ op' = [op EXCEPT ![o].out = @ + 1, ![o].late = op[o].out + 1,
                        ![o].tail = TrimTail(Append(@, op[o].out + 1))]
    /\ UNCHANGED <<server, cred, patch, patches, born, exec, dep, faults>>

\* The callback appends to the stored tail; its error is dropped.  A callback
\* of a command that timed out can run at any later time.
AppendCommandExecutionOutput(o) ==
    /\ op[o].late # 0
    /\ op' = [op EXCEPT ![o].late = 0]
    /\ Stored(exec' = IF exec[o] = NoRow THEN exec
                      ELSE [exec EXCEPT ![o].tail = TrimTail(Append(@, op[o].late))],
              exec' = exec)
    /\ UNCHANGED <<server, cred, patch, patches, born, dep>>

\* session.Wait returns after the last callback; the exit code decides.
CommandEnds(o) ==
    /\ op[o].pc = "running" /\ op[o].late = 0
    /\ \E r \in Terminal : op' = [op EXCEPT ![o].pc = "ended", ![o].result = r]
    /\ UNCHANGED <<server, cred, patch, patches, born, exec, dep, faults>>

\* The 30 minutes are over: the session is closed, a callback may be under way.
CommandTimesOut(o) ==
    /\ op[o].pc = "running"
    /\ op' = [op EXCEPT ![o].pc = "ended", ![o].result = "FAILED", ![o].timedOut = TRUE]
    /\ UNCHANGED <<server, cred, patch, patches, born, exec, dep, faults>>

\* The status, and then the status with the tails; both errors are dropped.
UpdateCommandExecutionStatus(o) ==
    /\ op[o].pc = "ended"
    /\ Goes(o, "updated")
    /\ Stored(exec' = IF exec[o] = NoRow THEN exec ELSE [exec EXCEPT ![o].status = op[o].result],
              exec' = exec)
    /\ UNCHANGED <<server, cred, patch, patches, born, dep>>

CompletedRow(o) == [status |-> op[o].result, tail |-> op[o].tail]

MarkCommandExecutionCompleted(o) ==
    /\ op[o].pc = "updated"
    /\ Goes(o, "completed")
    /\ Stored(exec' = IF exec[o] = NoRow THEN exec ELSE [exec EXCEPT ![o] = CompletedRow(o)],
              exec' = exec)
    /\ UNCHANGED <<server, cred, patch, patches, born, dep>>

deploymentStatusForExecution(s) == IF s \in Terminal THEN s ELSE "RUNNING"

\* onCompleted: the row is read again, and its status is the deployment's.
\* A row that cannot be read gives the status of the result.
UpdateDeploymentStatus(o) ==
    /\ op[o].pc = "completed"
    /\ Goes(o, "done")
    /\ LET read == IF exec[o] = NoRow THEN op[o].result ELSE exec[o].status
       IN  Stored(dep' = IF dep[o] = "absent" THEN dep
                         ELSE [dep EXCEPT ![o] = deploymentStatusForExecution(read)],
                  dep' = dep)
    /\ UNCHANGED <<server, cred, patch, patches, born, exec>>

OpStep(o) ==
    \/ GetServer(o)
    \/ loadServerTarget(o)
    \/ PrepareDeployment(o)
    \/ CreateCommandExecution(o)
    \/ ServerGone(o)
    \/ CreateDeployment(o)
    \/ ExecuteCommand(o)
    \/ Write(o)
    \/ AppendCommandExecutionOutput(o)
    \/ CommandEnds(o)
    \/ CommandTimesOut(o)
    \/ UpdateCommandExecutionStatus(o)
    \/ MarkCommandExecutionCompleted(o)
    \/ UpdateDeploymentStatus(o)

RemoteNext ==
    \/ \E h \in Hosts : CreateServer(h)
    \/ \E h \in Hosts : UpdateServer(h)
    \/ SaveServerCredential
    \/ DeleteServer
    \/ \E o \in Ops : OpStep(o)

\* The goroutine of a launched command runs on, and its timeout ends the
\* command whatever the host does.
RemoteFairness ==
    \A o \in Ops :
        /\ WF_remoteVars(ExecuteCommand(o))
        /\ WF_remoteVars(CommandTimesOut(o))
        /\ WF_remoteVars(UpdateCommandExecutionStatus(o))
        /\ WF_remoteVars(MarkCommandExecutionCompleted(o))
        /\ WF_remoteVars(UpdateDeploymentStatus(o))

RemoteSpec == RemoteInit /\ [][RemoteNext]_remoteVars /\ RemoteFairness

(***************************************************************************)
(* Properties.                                                             *)
(***************************************************************************)
\* Type correctness, with the tails within their limit.
RemoteTypeOK ==
    /\ {server, cred, patch} \subseteq Hosts \cup {NoHost}
    /\ \A o \in Ops :
          /\ exec[o].status \in {"absent", "RUNNING"} \cup Terminal
          /\ dep[o] \in {"absent", "RUNNING"} \cup Terminal
          /\ Len(exec[o].tail) <= TailLimit /\ Len(op[o].tail) <= TailLimit

\* A deleted server leaves nothing behind: no credential, execution or
\* deployment row, whatever handlers and goroutines were under way when it was
\* deleted (internal/db/controlpanel.go DeleteServer and the foreign keys).
DeletedServerLeavesNothing ==
    server = NoHost => /\ cred = NoHost
                       /\ \A o \in Ops : exec[o] = NoRow /\ dep[o] = "absent"

\* A command runs only on the host its credential was stored for, although
\* server and credential are read and patched one after the other
\* (internal/ops/ssh dial, loadServerTarget).
RunsOnPinnedHost == \A o \in Ops : op[o].pc = "running" => op[o].host = op[o].key

\* A deployment never shows another outcome than its command had, and never
\* one before the command ended (onCompleted, deploymentStatusForExecution).
DeploymentFollowsCommand ==
    \A o \in Ops : dep[o] \in Terminal => op[o].pc = "done" /\ dep[o] = op[o].result

\* The row of a launched command leaves RUNNING, even when one of the two
\* writes of its status fails (UpdateCommandExecutionStatus,
\* MarkCommandExecutionCompleted).
ShownRunning(o) == exec[o].status = "RUNNING" /\ op[o].pc \notin {"recorded", "refused"}
ExecutionEnds == \A o \in Ops : []<>~ShownRunning(o)
=============================================================================
