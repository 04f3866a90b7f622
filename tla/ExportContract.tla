--------------------------- MODULE ExportContract ---------------------------
(***************************************************************************)
(* What the master promises about a run, whatever workers, networks and    *)
(* restarts do: a task is owned by at most one attempt at a time, under    *)
(* ever larger epochs; only its owner's result is accepted, while the run  *)
(* is open, and once; a run is published only when all its tasks have an   *)
(* accepted success; a run that is published or dead stays so.             *)
(***************************************************************************)
EXTENDS Naturals

CONSTANTS Runs, Tasks, RunOf(_)

VARIABLES
    stage,     \* of a run: new, open, publishing, published or dead
    owner,     \* of a task: the epoch that owns it, 0 for none
    epoch,     \* of a task: the last epoch handed out
    accepted   \* of a task: the accepted result, "none" before

cvars == <<stage, owner, epoch, accepted>>

CInit ==
    /\ stage = [r \in Runs |-> "new"]
    /\ owner = [t \in Tasks |-> 0]
    /\ epoch = [t \in Tasks |-> 0]
    /\ accepted = [t \in Tasks |-> "none"]

Open(r) ==
    /\ stage[r] = "new"
    /\ stage' = [stage EXCEPT ![r] = "open"]
    /\ UNCHANGED <<owner, epoch, accepted>>

Grant(t) ==
    /\ stage[RunOf(t)] = "open"
    /\ owner[t] = 0
    /\ accepted[t] = "none"
    /\ epoch' = [epoch EXCEPT ![t] = epoch[t] + 1]
    /\ owner' = [owner EXCEPT ![t] = epoch[t] + 1]
    /\ UNCHANGED <<stage, accepted>>

Accept(t, result) ==
    /\ stage[RunOf(t)] = "open"
    /\ owner[t] # 0
    /\ owner[t] = epoch[t]
    /\ accepted[t] = "none"
    /\ accepted' = [accepted EXCEPT ![t] = result]
    /\ owner' = [owner EXCEPT ![t] = 0]
    /\ UNCHANGED <<stage, epoch>>

\* Owners lose their tasks, runs that are not published die, in one step.
Revoke ==
    /\ \A t \in Tasks : owner'[t] \in {owner[t], 0}
    /\ \A r \in Runs :
        stage'[r] # stage[r] => stage[r] \in {"open", "publishing"} /\ stage'[r] = "dead"
    /\ owner' = [t \in Tasks |-> owner'[t]]
    /\ stage' = [r \in Runs |-> stage'[r]]
    /\ UNCHANGED <<epoch, accepted>>

Publish(r) ==
    /\ stage[r] = "open"
    /\ \A t \in Tasks : RunOf(t) = r => accepted[t] = "SUCCEEDED" /\ owner[t] = 0
    /\ stage' = [stage EXCEPT ![r] = "publishing"]
    /\ UNCHANGED <<owner, epoch, accepted>>

Published(r) ==
    /\ stage[r] = "publishing"
    /\ stage' = [stage EXCEPT ![r] = "published"]
    /\ UNCHANGED <<owner, epoch, accepted>>

CNext ==
    \/ \E r \in Runs : Open(r) \/ Publish(r) \/ Published(r)
    \/ \E t \in Tasks : Grant(t) \/ \E result \in {"SUCCEEDED", "FAILED"} : Accept(t, result)
    \/ Revoke

CSpec == CInit /\ [][CNext]_cvars
=============================================================================
