-------------------------- MODULE RunCommitProofs ---------------------------
(***************************************************************************)
(* What the publication of runs promises, for any runs of a dataset, any   *)
(* number of committers, faults and lapsed claims.                         *)
(*                                                                         *)
(* Passes of one run may overlap once a claim lapses.  What they publish   *)
(* stands all the same, because the intent is persisted once and every     *)
(* pass that writes follows it (PassOK).  While no claim lapses, one pass  *)
(* works on the one committing run, so what it read still holds when it    *)
(* writes (Undisturbed).                                                   *)
(***************************************************************************)
EXTENDS RunCommit, TLAPS

Over == {"SUCCEEDED", "FAILED"}
Ended == {"idle", "release"}

\* The steps that follow a persisted intent; from the second set on the manifest
\* is published, from the third on what was read is the intent's own.
Compares == {"putState", "checkState", "markState", "mirror"}
Publishes == Compares \cup {"markManifest", "markVerified", "complete"}
Follows == Publishes \cup {"get", "put", "check"}
Verified == {"markState", "mirror", "markVerified", "complete"}

\* An intent of run r moves the state of an earlier run to one of r.
WellFormed(i, r) ==
    /\ i.next = [run |-> r, hwm |-> MaxHWM(r, i.prev.hwm)]
    /\ i.prev.run < r

\* A state that was written is the one its run intended.
Intended(s) == s.run # 0 => s = intent[s.run].next

Intents == [prev : States, next : States]
Steps == {"idle", "load", "verify", "read", "reread", "save", "get", "put", "check", "markManifest",
          "putState", "checkState", "markState", "mirror", "markVerified", "complete", "failed",
          "release"}
Statuses == {"WAITING", "COMMITTING", "SUCCEEDED", "FAILED"}
Phases == {"", "PREPARING", "INTENT", "MANIFEST_VERIFIED", "STATE_VERIFIED", "VERIFIED",
           "RETRY_REQUIRED", "FAILED", "COMPLETE"}
Causes == {"", "transient", "conflict", "rejected", "unread"}
Marks == {0} \cup {Mark[r] : r \in Runs}

\* Rows, objects and passes have their types; a run that is not over has a try
\* left, and a pass has a run.
RowTyped ==
    /\ status \in [Runs -> Statuses]
    /\ intent \in [Runs -> Intents]
    /\ phase \in [Runs -> Phases]
    /\ tries \in [Runs -> 0..MaxAttempts]
    /\ \A r \in Runs : status[r] \notin Over => tries[r] < MaxAttempts

ClaimTyped ==
    /\ waiting \in [Runs -> BOOLEAN]
    /\ claim \in [Runs -> SUBSET Committers]
    /\ claimLive \in [Runs -> BOOLEAN]

ObjectTyped ==
    /\ mirror \in Marks
    /\ manifest \in [Runs -> States]
    /\ state \in States
    /\ faults \in 0..MaxFaults
    /\ lapses \in 0..MaxLapses

PassTyped ==
    /\ step \in [Committers -> Steps]
    /\ target \in [Committers -> Runs \cup {0}]
    /\ seen \in [Committers -> States]
    /\ plan \in [Committers -> Intents]
    /\ cause \in [Committers -> Causes]
    /\ \A c \in Committers : target[c] = 0 <=> step[c] = "idle"

Typed == RowTyped /\ ClaimTyped /\ ObjectTyped /\ PassTyped

\* Runs of the dataset commit one after the other.
Serial ==
    /\ \A r, s \in Runs : s < r /\ status[r] # "WAITING" => status[s] \in Over
    /\ \A r \in Runs : status[r] = "WAITING" => ~HasIntent(intent[r])
    /\ \A c \in Committers : target[c] # 0 => status[target[c]] # "WAITING"

RunOK(r) ==
    /\ HasIntent(intent[r]) => WellFormed(intent[r], r)
    /\ manifest[r] # NoState => HasIntent(intent[r]) /\ manifest[r] = intent[r].next
    /\ status[r] = "SUCCEEDED" => HasIntent(intent[r]) /\ manifest[r] = intent[r].next

\* What a pass is about to do agrees with the persisted intent.
PassOK(c) ==
    /\ step[c] \in {"verify", "read"} /\ HasIntent(plan[c]) => plan[c] = intent[target[c]]
    /\ step[c] = "reread" => seen[c].run = target[c]
    /\ step[c] = "save" => WellFormed(plan[c], target[c]) /\ seen[c] = plan[c].prev
    /\ step[c] \in Follows => HasIntent(plan[c]) /\ plan[c] = intent[target[c]]
    /\ step[c] \in Publishes => manifest[target[c]] = plan[c].next
    /\ step[c] \in Compares => seen[c] \in {plan[c].prev, plan[c].next}
    /\ step[c] = "failed" /\ cause[c] = "conflict" => seen[c].run # target[c]
    /\ Intended(seen[c])

\* Nothing moves under a pass as long as no claim lapsed.
Alone(c) ==
    /\ target[c] # 0 => claim[target[c]] = {c} /\ claimLive[target[c]]
    /\ step[c] \notin Ended => status[target[c]] = "COMMITTING"
    /\ step[c] = "save" => state = plan[c].prev
    /\ step[c] \in Verified => state = plan[c].next
    /\ step[c] \in {"markVerified", "complete"} => mirror >= Mark[target[c]]

Current(r) ==
    /\ status[r] = "COMMITTING" /\ HasIntent(intent[r]) => state \in {intent[r].prev, intent[r].next}
    /\ status[r] = "SUCCEEDED" => state.run >= r /\ state.hwm >= Mark[r] /\ mirror >= Mark[r]

Undisturbed ==
    /\ \A c \in Committers : Alone(c)
    /\ \A r \in Runs : Current(r)

CommitInv ==
    /\ Typed
    /\ Serial
    /\ Intended(state)
    /\ \A r \in Runs : RunOK(r)
    /\ \A c \in Committers : PassOK(c)
    /\ lapses = 0 => Undisturbed

-----------------------------------------------------------------------------
(* Types *)

LEMMA NoneTyped == NoState \in States /\ NoIntent \in Intents /\ 0 \in Marks
BY Zenon DEF NoState, NoIntent, Intents, States, Marks

LEMMA MarkTyped ==
    ASSUME CommitAssumption, NEW r \in Runs, NEW s \in States
    PROVE  /\ Mark[r] \in Nat /\ s.hwm \in Nat /\ s.run \in Nat /\ r \in Nat \ {0}
           /\ MaxHWM(r, s.hwm) \in Marks
           /\ MaxHWM(r, s.hwm) >= s.hwm /\ MaxHWM(r, s.hwm) >= Mark[r]
           /\ [run |-> r, hwm |-> MaxHWM(r, s.hwm)] \in States
<1>1. Mark[r] \in Nat /\ r \in Nat \ {0} /\ \A q \in Runs : Mark[q] \in Nat /\ q \in Nat
  BY Zenon DEF CommitAssumption
<1>2. s.hwm \in Marks /\ s.run \in Runs \cup {0}
  BY Zenon DEF States, Marks
<1>3. s.hwm \in Nat
  <2>1. ASSUME NEW q \in Runs PROVE Mark[q] \in Nat
    BY <1>1, Zenon
  <2> QED
    BY <1>2, <2>1 DEF Marks
<1>4. s.run \in Nat
  <2>1. s.run \in Runs => s.run \in Nat
    BY <1>1, Zenon
  <2> QED
    BY <1>2, <2>1
<1>5. MaxHWM(r, s.hwm) \in {Mark[r], s.hwm}
  BY Zenon DEF MaxHWM
<1>6. MaxHWM(r, s.hwm) >= s.hwm /\ MaxHWM(r, s.hwm) >= Mark[r]
  BY <1>1, <1>3 DEF MaxHWM
<1>7. MaxHWM(r, s.hwm) \in Marks
  BY <1>2, <1>5, Zenon DEF Marks
<1> HIDE DEF MaxHWM
<1> QED
  BY <1>1, <1>3, <1>4, <1>6, <1>7, Zenon DEF States, Marks

LEMMA TypedInit == ASSUME CommitAssumption, Init PROVE Typed
<1>0. 0 \in 0..MaxAttempts /\ 0 < MaxAttempts /\ 0 \in 0..MaxFaults /\ 0 \in 0..MaxLapses
  BY DEF CommitAssumption
<1>1. RowTyped
  BY <1>0, NoneTyped, Zenon DEF Init, RowTyped, Statuses, Phases
<1>2. ClaimTyped
  BY Zenon DEF Init, ClaimTyped
<1>3. ObjectTyped
  BY <1>0, NoneTyped, Zenon DEF Init, ObjectTyped
<1>4. PassTyped
  BY NoneTyped, Zenon DEF Init, PassTyped, Steps, Causes
<1> QED
  BY <1>1, <1>2, <1>3, <1>4, Zenon DEF Typed

\* A pass goes from one call to another.
LEMMA GotoTyped ==
    ASSUME PassTyped, NEW c \in Committers, NEW s \in Steps \ {"idle"},
           step[c] # "idle", Goto(c, s),
           UNCHANGED target,
           seen' \in [Committers -> States],
           plan' \in [Committers -> Intents],
           cause' \in [Committers -> Causes]
    PROVE  PassTyped'
<1>1. step' \in [Committers -> Steps]
  BY Zenon DEF PassTyped, Goto
<1>2. \A d \in Committers : step'[d] = "idle" <=> step[d] = "idle"
  BY Zenon DEF PassTyped, Goto
<1> QED
  BY <1>1, <1>2, Zenon DEF PassTyped

\* A row that does not end keeps its tries.
LEMMA RowsSame ==
    ASSUME Typed, UNCHANGED <<status, intent, tries>>, phase' \in [Runs -> Phases]
    PROVE  RowTyped'
BY Zenon DEF Typed, RowTyped

LEMMA ClaimsSame == ASSUME Typed, UNCHANGED <<waiting, claim, claimLive>> PROVE ClaimTyped'
BY Zenon DEF Typed, ClaimTyped

-----------------------------------------------------------------------------
(* Steps of one pass that write nothing but its own phase *)

Local(c, s) ==
    /\ step[c] # "idle" /\ s \in Steps \ {"idle"} /\ Goto(c, s)
    /\ UNCHANGED <<status, intent, tries, waiting, claim, claimLive, mirror, manifest, state, target, lapses>>
    /\ phase' \in [Runs -> Phases]
    /\ faults' \in 0..MaxFaults
    /\ seen' \in [Committers -> States]
    /\ plan' \in [Committers -> Intents]
    /\ cause' \in [Committers -> Causes]
    /\ \A d \in Committers \ {c} : seen'[d] = seen[d] /\ plan'[d] = plan[d] /\ cause'[d] = cause[d]

LEMMA LocalTyped ==
    ASSUME Typed, NEW c \in Committers, NEW s, Local(c, s)
    PROVE  Typed'
<1>1. RowTyped' /\ ClaimTyped'
  BY RowsSame, ClaimsSame, Zenon DEF Local
<1>2. ObjectTyped'
  BY Zenon DEF Typed, Local, ObjectTyped
<1>3. PassTyped'
  BY GotoTyped, Zenon DEF Typed, Local
<1> QED
  BY <1>1, <1>2, <1>3, Zenon DEF Typed

LEMMA LocalStep ==
    ASSUME CommitInv, NEW c \in Committers, NEW s, Local(c, s),
           PassOK(c)', lapses = 0 => Alone(c)'
    PROVE  CommitInv'
<1>0. Typed /\ step \in [Committers -> Steps]
  BY Zenon DEF CommitInv, Typed, PassTyped
<1>1. Typed'
  BY <1>0, LocalTyped, Zenon
<1>2. Serial' /\ Intended(state)'
  BY Zenon DEF CommitInv, Local, Serial, Intended
<1>3. \A r \in Runs : RunOK(r)'
  BY Zenon DEF CommitInv, Local, RunOK, WellFormed
<1>4. ASSUME NEW d \in Committers \ {c}
      PROVE  /\ step'[d] = step[d] /\ target'[d] = target[d] /\ seen'[d] = seen[d]
             /\ plan'[d] = plan[d] /\ cause'[d] = cause[d]
  BY <1>0, Zenon DEF Local, Goto
<1>5. ASSUME NEW d \in Committers PROVE PassOK(d)'
  <2>1. CASE d # c
    <3>1. PassOK(d) /\ intent' = intent /\ manifest' = manifest
      BY Zenon DEF CommitInv, Local
    <3> QED
      BY <1>4, <2>1, <3>1, ZenonT(60) DEF PassOK, WellFormed, Intended
  <2> QED
    BY <2>1, Zenon
<1>6. ASSUME lapses' = 0 PROVE Undisturbed'
  <2>1. lapses = 0 /\ Undisturbed
    BY <1>6, Zenon DEF CommitInv, Local
  <2>2. UNCHANGED <<status, intent, claim, claimLive, mirror, state>>
    BY Zenon DEF Local
  <2>3. ASSUME NEW d \in Committers, d # c PROVE Alone(d)'
    <3>1. Alone(d)
      BY <2>1, Zenon DEF Undisturbed
    <3> QED
      BY <1>4, <2>2, <2>3, <3>1, Zenon DEF Alone
  <2>4. \A r \in Runs : Current(r)'
    BY <2>1, <2>2, Zenon DEF Undisturbed, Current
  <2> QED
    BY <2>1, <2>3, <2>4, Zenon DEF Undisturbed
<1> QED
  BY <1>1, <1>2, <1>3, <1>5, <1>6, Zenon DEF CommitInv

\* A pass that ends, and one that begins again, promises nothing.
LEMMA EndStep ==
    ASSUME CommitInv, NEW c \in Committers, NEW s \in {"release", "load"}, Local(c, s),
           UNCHANGED seen,
           s = "load" /\ lapses = 0 => status[target[c]] = "COMMITTING"
    PROVE  CommitInv'
<1>0. PassOK(c) /\ step'[c] = s /\ c \in Committers
  BY Zenon DEF CommitInv, Local, Goto, Typed, PassTyped
<1>1. PassOK(c)'
  BY <1>0, Zenon DEF Local, PassOK, Follows, Publishes, Compares, Intended
<1>2. ASSUME lapses = 0 PROVE Alone(c)'
  <2>1. Alone(c)
    BY <1>2, Zenon DEF CommitInv, Undisturbed
  <2> QED
    BY <1>0, <1>2, <2>1, Zenon DEF Local, Alone, Ended, Verified
<1> QED
  BY <1>1, <1>2, LocalStep, Zenon

LEMMA FailStep ==
    ASSUME CommitInv, NEW c \in Committers, step[c] \notin Ended, Local(c, "failed"),
           UNCHANGED seen,
           cause'[c] = "conflict" => seen[c].run # target[c]
    PROVE  CommitInv'
<1>0. PassOK(c) /\ step'[c] = "failed"
  BY Zenon DEF CommitInv, Local, Goto, Typed, PassTyped
<1>1. PassOK(c)'
  BY <1>0, Zenon DEF Local, PassOK, Follows, Publishes, Compares, Intended
<1>2. ASSUME lapses = 0 PROVE Alone(c)'
  <2>1. Alone(c)
    BY <1>2, Zenon DEF CommitInv, Undisturbed
  <2> QED
    BY <1>0, <1>2, <2>1, Zenon DEF Local, Alone, Ended, Verified
<1> QED
  BY <1>1, <1>2, LocalStep, Zenon

\* The next call of a pass that goes on with what it has.
LEMMA GoOnStep ==
    ASSUME CommitInv, NEW c \in Committers, NEW s, step[c] \notin Ended, Local(c, s),
           UNCHANGED <<seen, plan, cause>>,
           s \notin {"reread", "save", "failed", "release"},
           s \in {"verify", "read"} /\ HasIntent(plan[c]) => plan[c] = intent[target[c]],
           s \in Follows => HasIntent(plan[c]) /\ plan[c] = intent[target[c]],
           s \in Publishes => manifest[target[c]] = plan[c].next,
           s \in Compares => seen[c] \in {plan[c].prev, plan[c].next},
           s \in Verified /\ lapses = 0 => state = plan[c].next,
           s \in {"markVerified", "complete"} /\ lapses = 0 => mirror >= Mark[target[c]]
    PROVE  CommitInv'
<1>0. PassOK(c) /\ step'[c] = s
  BY Zenon DEF CommitInv, Local, Goto, Typed, PassTyped
<1>1. PassOK(c)'
  BY <1>0, Zenon DEF Local, PassOK, Intended
<1>2. ASSUME lapses = 0 PROVE Alone(c)'
  <2>1. Alone(c)
    BY <1>2, Zenon DEF CommitInv, Undisturbed
  <2> QED
    BY <1>0, <1>2, <2>1, Zenon DEF Local, Alone
<1> QED
  BY <1>1, <1>2, LocalStep, Zenon

LEMMA PassRow ==
    ASSUME CommitInv, NEW c \in Committers
    PROVE  /\ PassOK(c) /\ step[c] \in Steps /\ (step[c] # "idle" => target[c] \in Runs)
           /\ seen[c] \in States /\ plan[c] \in Intents /\ cause[c] \in Causes
           /\ (lapses = 0 => Alone(c))
BY Zenon DEF CommitInv, Typed, PassTyped, Undisturbed

LEMMA LoadStep ==
    ASSUME CommitInv, NEW c \in Committers, LoadRun(c)
    PROVE  CommitInv'
<1> DEFINE s == IF status[target[c]] = "SUCCEEDED" THEN "release" ELSE "verify"
<1>0. target[c] \in Runs /\ Typed
  BY PassRow, Zenon DEF LoadRun, CommitInv
<1>1. intent[target[c]] \in Intents
  BY <1>0, Zenon DEF Typed, RowTyped
<1>2. /\ step[c] = "load" /\ plan' = [plan EXCEPT ![c] = intent[target[c]]] /\ Goto(c, s)
      /\ UNCHANGED <<status, intent, phase, tries, waiting, claim, claimLive, mirror, manifest, state,
                     target, seen, cause, faults, lapses>>
  BY Zenon DEF LoadRun, rowVars, objectVars
<1>3. s \in {"release", "verify"}
  BY Zenon
<1> HIDE DEF s
<1>4. Local(c, s)
  BY <1>0, <1>1, <1>2, <1>3, Zenon DEF Local, Typed, RowTyped, ObjectTyped, PassTyped, Steps
<1>5. CASE s = "release"
  BY <1>2, <1>4, <1>5, EndStep, Zenon
<1>6. CASE s = "verify"
  <2>1. PassOK(c) /\ step'[c] = s /\ plan'[c] = intent[target[c]]
    BY <1>0, <1>2, PassRow, Zenon DEF Goto, Typed, PassTyped
  <2>2. PassOK(c)'
    BY <1>2, <1>6, <2>1, Zenon DEF PassOK, Follows, Publishes, Compares, Intended
  <2>3. ASSUME lapses = 0 PROVE Alone(c)'
    <3>1. Alone(c)
      BY <2>3, PassRow, Zenon
    <3> QED
      BY <1>2, <1>6, <2>1, <3>1, Zenon DEF Alone, Ended, Verified
  <2> QED
    BY <1>4, <2>2, <2>3, LocalStep, Zenon
<1> QED
  BY <1>3, <1>5, <1>6, Zenon

Faulted == faults' = faults \/ (faults < MaxFaults /\ faults' = faults + 1)

LEMMA FaultTyped == ASSUME CommitAssumption, faults \in 0..MaxFaults, Faulted PROVE faults' \in 0..MaxFaults
BY DEF Faulted, CommitAssumption

\* A pass that only moves, or fails.
Moves(c, s) ==
    /\ step[c] # "idle" /\ s \in Steps \ {"idle"} /\ Goto(c, s)
    /\ UNCHANGED <<status, intent, tries, waiting, claim, claimLive, mirror, manifest, state, target,
                   lapses, seen, plan>>
    /\ phase' = phase \/ \E p \in Phases : phase' = [phase EXCEPT ![target[c]] = p]
    /\ cause' = cause \/ \E w \in Causes : cause' = [cause EXCEPT ![c] = w]
    /\ Faulted

LEMMA MovesLocal ==
    ASSUME CommitAssumption, CommitInv, NEW c \in Committers, NEW s, Moves(c, s)
    PROVE  Local(c, s)
<1>0. Typed /\ Faulted
  BY Zenon DEF CommitInv, Moves
<1>1. phase' \in [Runs -> Phases]
  <2>1. phase \in [Runs -> Phases]
    BY <1>0, Zenon DEF Typed, RowTyped
  <2> QED
    BY <2>1, Zenon DEF Moves
<1>2. cause' \in [Committers -> Causes] /\ \A d \in Committers \ {c} : cause'[d] = cause[d]
  <2>1. cause \in [Committers -> Causes]
    BY <1>0, Zenon DEF Typed, PassTyped
  <2> QED
    BY <2>1, Zenon DEF Moves
<1>3. faults' \in 0..MaxFaults
  BY <1>0, FaultTyped, Zenon DEF Typed, ObjectTyped
<1>4. seen' \in [Committers -> States] /\ plan' \in [Committers -> Intents]
  BY <1>0, Zenon DEF Typed, PassTyped, Moves
<1> QED
  BY <1>1, <1>2, <1>3, <1>4, Zenon DEF Moves, Local

LEMMA FailMoves ==
    ASSUME NEW c \in Committers, NEW why \in Causes, step[c] # "idle", Fail(c, why), Faulted,
           UNCHANGED <<rowVars, objectVars, target, seen, plan, lapses>>
    PROVE  Moves(c, "failed")
BY Zenon DEF Fail, Moves, rowVars, objectVars, Steps

\* A pass fails for anything but a conflict.
LEMMA PlainFailStep ==
    ASSUME CommitAssumption, CommitInv, NEW c \in Committers, NEW why \in Causes \ {"conflict"},
           step[c] \notin Ended, Fail(c, why), Faulted,
           UNCHANGED <<rowVars, objectVars, target, seen, plan, lapses>>
    PROVE  CommitInv'
<1>1. step[c] # "idle"
  BY Zenon DEF Ended
<1>2. Local(c, "failed")
  BY <1>1, FailMoves, MovesLocal, Zenon
<1>3. cause'[c] # "conflict"
  BY Zenon DEF Fail, CommitInv, Typed, PassTyped
<1> QED
  BY <1>2, <1>3, FailStep, Zenon

LEMMA VerifyStep ==
    ASSUME CommitAssumption, CommitInv, NEW c \in Committers, VerifyArtifacts(c) \/ RejectArtifacts(c)
    PROVE  CommitInv'
<1>1. CASE VerifyArtifacts(c)
  <2>1. Moves(c, "read")
    BY <1>1, Zenon DEF VerifyArtifacts, Moves, Faulted, rowVars, objectVars, passVars, Steps
  <2>2. Local(c, "read")
    BY <2>1, MovesLocal, Zenon
  <2>3. step[c] = "verify" /\ UNCHANGED <<seen, plan, cause>> /\ PassOK(c)
    BY <1>1, PassRow, Zenon DEF VerifyArtifacts, passVars
  <2>4. HasIntent(plan[c]) => plan[c] = intent[target[c]]
    BY <2>3, Zenon DEF PassOK
  <2> QED
    BY <2>2, <2>3, <2>4, GoOnStep, Zenon DEF Ended, Follows, Publishes, Compares, Verified
<1>2. CASE RejectArtifacts(c)
  <2>1. step[c] \notin Ended /\ Fail(c, "rejected") /\ Faulted
        /\ UNCHANGED <<rowVars, objectVars, target, seen, plan, lapses>>
    BY <1>2, Zenon DEF RejectArtifacts, Ended, Faulted
  <2>2. "rejected" \in Causes \ {"conflict"}
    BY Zenon DEF Causes
  <2> QED
    BY <2>1, <2>2, PlainFailStep, Zenon
<1> QED
  BY <1>1, <1>2, Zenon

\* The plan of a pass without an intent moves what it read to its own run.
LEMMA PlanWellFormed ==
    ASSUME CommitAssumption, NEW r \in Runs, NEW s \in States
    PROVE  LET p == [prev |-> s, next |-> [run |-> r, hwm |-> MaxHWM(r, s.hwm)]]
           IN  p \in Intents /\ (s.run # r /\ ~(s.run > r) => WellFormed(p, r))
<1>1. s.run \in Nat /\ r \in Nat /\ [run |-> r, hwm |-> MaxHWM(r, s.hwm)] \in States
  BY MarkTyped, Zenon
<1>2. s.run # r /\ ~(s.run > r) => s.run < r
  BY <1>1
<1> QED
  BY <1>1, <1>2, Zenon DEF WellFormed, Intents

LEMMA ReadStep ==
    ASSUME CommitAssumption, CommitInv, NEW c \in Committers, ReadState(c)
    PROVE  CommitInv'
<1> DEFINE r == target[c]
           s == AfterState(c)
           p == [prev |-> state, next |-> [run |-> r, hwm |-> MaxHWM(r, state.hwm)]]
           q == IF HasIntent(plan[c]) THEN plan[c] ELSE p
           w == IF s = "failed" THEN "conflict" ELSE ""
<1>0. Typed /\ step[c] = "read" /\ r \in Runs /\ state \in States /\ PassOK(c) /\ plan[c] \in Intents
  BY PassRow, Zenon DEF ReadState, CommitInv, Typed, ObjectTyped
<1>1. p \in Intents /\ (state.run # r /\ ~(state.run > r) => WellFormed(p, r))
  BY <1>0, PlanWellFormed, Zenon
<1>2. /\ seen' = [seen EXCEPT ![c] = state]
      /\ Goto(c, s)
      /\ cause' = [cause EXCEPT ![c] = w]
      /\ plan' = IF HasIntent(plan[c]) THEN plan ELSE [plan EXCEPT ![c] = p]
      /\ UNCHANGED <<status, intent, phase, tries, waiting, claim, claimLive, mirror, manifest, state,
                     target, faults, lapses>>
  BY Zenon DEF ReadState, rowVars, objectVars
<1>3. s \in {"get", "reread", "failed", "save"} /\ w \in Causes /\ q \in Intents
  BY <1>0, <1>1, Zenon DEF AfterState, Causes
<1>4. /\ s = "get" => HasIntent(plan[c])
      /\ s = "reread" => state.run = r
      /\ s = "failed" => state.run # r
      /\ s = "save" => ~HasIntent(plan[c]) /\ state.run # r /\ ~(state.run > r)
      /\ HasIntent(plan[c]) => s = "get"
  <2>1. state.run \in Nat /\ r \in Nat
    BY <1>0, MarkTyped, Zenon
  <2> QED
    BY <2>1, Zenon DEF AfterState
<1>5. p.prev = state
  BY Zenon
<1> HIDE DEF s, p, r, w
<1>6. /\ seen' \in [Committers -> States] /\ plan' \in [Committers -> Intents]
      /\ cause' \in [Committers -> Causes] /\ step'[c] = s /\ seen'[c] = state /\ plan'[c] = q
      /\ \A d \in Committers \ {c} : seen'[d] = seen[d] /\ plan'[d] = plan[d] /\ cause'[d] = cause[d]
  BY <1>0, <1>1, <1>2, <1>3, Zenon DEF Typed, PassTyped, Goto
<1>7. Local(c, s)
  BY <1>0, <1>2, <1>3, <1>6, Zenon DEF Local, Typed, RowTyped, ObjectTyped, Steps
<1>8. s = "get" => plan[c] = intent[r]
  BY <1>0, <1>4, Zenon DEF PassOK, r
<1>9. s = "save" => WellFormed(p, r) /\ q = p
  BY <1>1, <1>4, Zenon
<1>10. PassOK(c)'
  <2>1. Intended(state)
    BY Zenon DEF CommitInv
  <2>2. target'[c] = r /\ intent' = intent /\ manifest' = manifest /\ state' = state
    BY <1>2, Zenon DEF r
  <2> HIDE DEF q
  <2>3. s = "get" => q = plan[c]
    BY <1>4, Zenon DEF q
  <2> QED
    BY <1>3, <1>4, <1>5, <1>6, <1>8, <1>9, <2>1, <2>2, <2>3, Zenon
       DEF PassOK, Follows, Publishes, Compares, Intended, WellFormed
<1>11. ASSUME lapses = 0 PROVE Alone(c)'
  <2>1. Alone(c)
    BY <1>11, PassRow, Zenon
  <2> HIDE DEF q
  <2> QED
    BY <1>0, <1>2, <1>3, <1>5, <1>6, <1>9, <2>1, Zenon DEF Alone, Ended, Verified
<1> QED
  BY <1>7, <1>10, <1>11, LocalStep, Zenon

\* What a run intended is there as soon as its state is.
LEMMA StateHasIntent ==
    ASSUME CommitAssumption, NEW r \in Runs, NEW s, Intended(s), s.run = r
    PROVE  HasIntent(intent[r]) /\ s = intent[r].next
<1>1. r # 0
  BY Zenon DEF CommitAssumption
<1> QED
  BY <1>1 DEF Intended, HasIntent, NoState

LEMMA RereadStep ==
    ASSUME CommitAssumption, CommitInv, NEW c \in Committers, RereadRun(c) \/ RereadFails(c)
    PROVE  CommitInv'
<1>0. step[c] = "reread" /\ step[c] \notin Ended /\ target[c] \in Runs /\ PassOK(c)
      /\ (lapses = 0 => Alone(c))
  BY PassRow, Zenon DEF RereadRun, RereadFails, Ended
<1>1. CASE RereadRun(c)
  <2>1. HasIntent(intent[target[c]])
    BY <1>0, StateHasIntent, Zenon DEF PassOK
  <2>2. \E s \in {"release", "load"} : Goto(c, s) /\ UNCHANGED cause
    BY <1>1, <2>1, Zenon DEF RereadRun
  <2>3. PICK s \in {"release", "load"} : Goto(c, s) /\ UNCHANGED cause
    BY <2>2, Zenon
  <2>4. Moves(c, s) /\ UNCHANGED seen
    BY <1>0, <1>1, <2>3, Zenon DEF RereadRun, Moves, Faulted, rowVars, objectVars, Steps
  <2>5. Local(c, s)
    BY <2>4, MovesLocal, Zenon
  <2>6. lapses = 0 => status[target[c]] = "COMMITTING"
    BY <1>0, Zenon DEF Alone
  <2> QED
    BY <2>4, <2>5, <2>6, EndStep, Zenon
<1>2. CASE RereadFails(c)
  <2>1. Fail(c, "unread") /\ Faulted /\ UNCHANGED <<rowVars, objectVars, target, seen, plan, lapses>>
    BY <1>2, Zenon DEF RereadFails, Faulted
  <2>2. "unread" \in Causes \ {"conflict"}
    BY Zenon DEF Causes
  <2> QED
    BY <1>0, <2>1, <2>2, PlainFailStep, Zenon
<1> QED
  BY <1>1, <1>2, Zenon

\* A pass that follows an intent has the run's own.
LEMMA FollowsIntent ==
    ASSUME CommitAssumption, CommitInv, NEW c \in Committers, step[c] \in Follows
    PROVE  /\ step[c] \notin Ended /\ step[c] # "idle" /\ target[c] \in Runs
           /\ HasIntent(plan[c]) /\ plan[c] = intent[target[c]] /\ WellFormed(plan[c], target[c])
           /\ plan[c].next.run = target[c] /\ plan[c].next # NoState
           /\ manifest[target[c]] # NoState => manifest[target[c]] = plan[c].next
<1>1. step[c] \notin Ended /\ step[c] # "idle"
  BY Zenon DEF Ended, Follows, Publishes, Compares
<1>2. target[c] \in Runs /\ HasIntent(plan[c]) /\ plan[c] = intent[target[c]]
  BY <1>1, PassRow, Zenon DEF PassOK
<1>3. RunOK(target[c])
  BY <1>2, Zenon DEF CommitInv
<1> QED
  BY <1>1, <1>2, <1>3 DEF RunOK, WellFormed, HasIntent

LEMMA ManifestStep ==
    ASSUME CommitAssumption, CommitInv, NEW c \in Committers, GetManifest(c) \/ CheckManifest(c)
    PROVE  CommitInv'
<1>0. step[c] \in {"get", "check"} /\ step[c] \in Follows
  BY Zenon DEF GetManifest, CheckManifest, Follows
<1>1. UNCHANGED <<rowVars, objectVars, target, seen, plan, faults, lapses>>
  BY Zenon DEF GetManifest, CheckManifest
<1>2. CASE Fail(c, "transient") /\ step[c] = "check"
  BY <1>0, <1>1, <1>2, FollowsIntent, PlainFailStep, Zenon DEF Faulted, Causes
<1>3. ASSUME NEW s \in {"put", "check", "markManifest"}, Goto(c, s), UNCHANGED cause,
             s = "markManifest" => manifest[target[c]] = plan[c].next
      PROVE  CommitInv'
  <2>1. Moves(c, s)
    BY <1>0, <1>1, <1>3, Zenon DEF Moves, Faulted, rowVars, objectVars, Steps
  <2>2. Local(c, s) /\ UNCHANGED <<seen, plan, cause>>
    BY <1>1, <1>3, <2>1, MovesLocal, Zenon
  <2>3. step[c] \notin Ended /\ HasIntent(plan[c]) /\ plan[c] = intent[target[c]]
    BY <1>0, FollowsIntent, Zenon
  <2>4. /\ s \notin {"reread", "save", "failed", "release", "verify", "read"} /\ s \notin Compares
        /\ s \notin Verified
        /\ s \in Publishes => s = "markManifest"
    BY <1>3, Zenon DEF Follows, Publishes, Compares, Verified
  <2> HIDE DEF Follows, Publishes, Compares, Verified
  <2>5. s \notin {"markVerified", "complete"}
    BY <2>4, Zenon DEF Verified
  <2> QED
    BY <1>3, <2>2, <2>3, <2>4, <2>5, GoOnStep, Zenon
<1>4. CASE GetManifest(c)
  <2>1. (Goto(c, "put") \/ Goto(c, "check")) /\ UNCHANGED cause
    BY <1>0, <1>4, FollowsIntent, Zenon DEF GetManifest
  <2> QED
    BY <1>3, <2>1, Zenon
<1>5. CASE CheckManifest(c)
  <2>1. \/ Goto(c, "markManifest") /\ UNCHANGED cause /\ manifest[target[c]] = plan[c].next
        \/ Fail(c, "transient") /\ step[c] = "check"
    BY <1>5, Zenon DEF CheckManifest
  <2> QED
    BY <1>2, <1>3, <2>1, Zenon
<1> QED
  BY <1>4, <1>5, Zenon

LEMMA CheckStateStep ==
    ASSUME CommitAssumption, CommitInv, NEW c \in Committers, CheckState(c)
    PROVE  CommitInv'
<1>0. step[c] = "checkState" /\ step[c] \in Follows /\ PassOK(c)
  BY PassRow, Zenon DEF CheckState, Follows, Publishes, Compares
<1>1. UNCHANGED <<rowVars, objectVars, target, seen, plan, faults, lapses>>
  BY Zenon DEF CheckState
<1>2. CASE Fail(c, "transient")
  BY <1>0, <1>1, <1>2, FollowsIntent, PlainFailStep, Zenon DEF Faulted, Causes
<1>3. CASE Goto(c, "markState") /\ UNCHANGED cause /\ state = plan[c].next
  <2>1. Moves(c, "markState")
    BY <1>0, <1>1, <1>3, Zenon DEF Moves, Faulted, rowVars, objectVars, Steps
  <2>2. Local(c, "markState") /\ UNCHANGED <<seen, plan, cause>>
    BY <1>1, <1>3, <2>1, MovesLocal, Zenon
  <2>3. step[c] \notin Ended /\ HasIntent(plan[c]) /\ plan[c] = intent[target[c]]
    BY <1>0, FollowsIntent, Zenon
  <2>4. manifest[target[c]] = plan[c].next /\ seen[c] \in {plan[c].prev, plan[c].next}
    BY <1>0, Zenon DEF PassOK, Publishes, Compares
  <2> QED
    BY <1>3, <2>2, <2>3, <2>4, GoOnStep, Zenon
<1> QED
  BY <1>2, <1>3, Zenon DEF CheckState

\* The phase of a run that commits is written, or not.
LEMMA PhaseMoves ==
    ASSUME NEW c \in Committers, NEW s \in Steps \ {"idle"}, NEW p \in Phases, step[c] # "idle", Goto(c, s),
           TrySetCommitPhase(target[c], p),
           UNCHANGED <<objectVars, target, seen, plan, lapses>>,
           UNCHANGED cause \/ \E w \in Causes : cause' = [cause EXCEPT ![c] = w]
    PROVE  Moves(c, s)
<1>1. CASE SetCommitPhase(target[c], p) /\ UNCHANGED faults
  <2>1. phase' = phase \/ phase' = [phase EXCEPT ![target[c]] = p]
    BY <1>1, Zenon DEF SetCommitPhase
  <2> QED
    BY <1>1, <2>1, Zenon DEF SetCommitPhase, Moves, Faulted, objectVars
<1>2. CASE faults < MaxFaults /\ faults' = faults + 1 /\ UNCHANGED rowVars
  BY <1>2, Zenon DEF Moves, Faulted, rowVars, objectVars
<1> QED
  BY <1>1, <1>2, Zenon DEF TrySetCommitPhase

LEMMA MarkManifestStep ==
    ASSUME CommitAssumption, CommitInv, NEW c \in Committers, MarkManifest(c)
    PROVE  CommitInv'
<1>0. step[c] = "markManifest" /\ step[c] \in Follows /\ PassOK(c)
  BY PassRow, Zenon DEF MarkManifest, Follows, Publishes
<1>1. /\ TrySetCommitPhase(target[c], "MANIFEST_VERIFIED")
      /\ UNCHANGED <<objectVars, target, seen, plan, lapses>>
  BY Zenon DEF MarkManifest
<1>2. "MANIFEST_VERIFIED" \in Phases /\ step[c] # "idle" /\ step[c] \notin Ended
  BY <1>0, Zenon DEF Phases, Ended
<1>3. CASE Fail(c, "conflict") /\ seen[c] \notin {plan[c].prev, plan[c].next}
  <2>1. Goto(c, "failed") /\ \E w \in Causes : cause' = [cause EXCEPT ![c] = w]
    BY <1>3, Zenon DEF Fail, Causes
  <2>2. Moves(c, "failed")
    BY <1>1, <1>2, <2>1, PhaseMoves, Zenon DEF Steps
  <2>3. Local(c, "failed")
    BY <2>2, MovesLocal, Zenon
  <2>4. seen[c].run # target[c]
    <3>1. Intended(seen[c])
      BY <1>0, Zenon DEF PassOK
    <3> QED
      BY <1>0, <1>3, <3>1, FollowsIntent, StateHasIntent
  <2> QED
    BY <1>1, <1>2, <2>3, <2>4, FailStep, Zenon
<1>4. ASSUME NEW s \in {"checkState", "putState"}, Goto(c, s), UNCHANGED cause,
             seen[c] \in {plan[c].prev, plan[c].next}
      PROVE  CommitInv'
  <2>1. Moves(c, s)
    BY <1>1, <1>2, <1>4, PhaseMoves, Zenon DEF Steps
  <2>2. Local(c, s) /\ UNCHANGED <<seen, plan, cause>>
    BY <1>1, <1>4, <2>1, MovesLocal, Zenon
  <2>3. /\ HasIntent(plan[c]) /\ plan[c] = intent[target[c]]
        /\ manifest[target[c]] = plan[c].next
    BY <1>0, FollowsIntent, Zenon DEF PassOK, Publishes
  <2>4. s \notin Verified /\ s \notin {"reread", "save", "failed", "release", "verify", "read"}
    BY <1>4, Zenon DEF Verified
  <2>5. s \notin {"markVerified", "complete"}
    BY <2>4, Zenon DEF Verified
  <2> QED
    BY <1>2, <1>4, <2>2, <2>3, <2>4, <2>5, GoOnStep, Zenon
<1>5. CASE seen[c] \in {plan[c].prev, plan[c].next}
  <2>1. (Goto(c, "checkState") \/ Goto(c, "putState")) /\ UNCHANGED cause
    BY <1>5, Zenon DEF MarkManifest
  <2> QED
    BY <1>4, <1>5, <2>1, Zenon
<1>6. CASE seen[c] \notin {plan[c].prev, plan[c].next}
  BY <1>3, <1>6, Zenon DEF MarkManifest
<1> QED
  BY <1>5, <1>6, Zenon

LEMMA MarkStateStep ==
    ASSUME CommitAssumption, CommitInv, NEW c \in Committers, MarkState(c) \/ MarkVerified(c)
    PROVE  CommitInv'
<1>0. step[c] \in {"markState", "markVerified"} /\ step[c] \in Follows /\ PassOK(c)
      /\ (lapses = 0 => Alone(c)) /\ step[c] # "idle" /\ step[c] \notin Ended
  BY PassRow, Zenon DEF MarkState, MarkVerified, Follows, Publishes, Compares, Ended
<1> DEFINE s == IF step[c] = "markState" THEN "mirror" ELSE "complete"
           p == IF step[c] = "markState" THEN "STATE_VERIFIED" ELSE "VERIFIED"
<1>1. Goto(c, s) /\ TrySetCommitPhase(target[c], p) /\ UNCHANGED <<objectVars, passVars, lapses>>
  BY Zenon DEF MarkState, MarkVerified, TrySetCommitPhase
<1>2. p \in Phases /\ s \in {"mirror", "complete"} /\ s \in Steps \ {"idle"}
  BY Zenon DEF Phases, Steps
<1>3. s = "mirror" => step[c] = "markState"
  BY Zenon
<1>4. s = "complete" => step[c] = "markVerified"
  BY <1>0, Zenon
<1> HIDE DEF s, p
<1>5. UNCHANGED <<target, seen, plan, cause>>
  BY <1>1, Zenon DEF passVars
<1>6. Moves(c, s)
  BY <1>0, <1>1, <1>2, <1>5, PhaseMoves, Zenon
<1>7. Local(c, s)
  BY <1>6, MovesLocal, Zenon
<1>8. HasIntent(plan[c]) /\ plan[c] = intent[target[c]] /\ manifest[target[c]] = plan[c].next
  BY <1>0, FollowsIntent, Zenon DEF PassOK, Publishes, Compares
<1>9. s \in Compares => seen[c] \in {plan[c].prev, plan[c].next}
  BY <1>0, <1>2, <1>3, Zenon DEF PassOK, Compares
<1>10. lapses = 0 => state = plan[c].next /\ (s = "complete" => mirror >= Mark[target[c]])
  BY <1>0, <1>4, Zenon DEF Alone, Verified
<1>11. s \notin {"reread", "save", "failed", "release", "verify", "read", "markVerified"}
  BY <1>2, Zenon
<1> QED
  BY <1>0, <1>5, <1>7, <1>8, <1>9, <1>10, <1>11, GoOnStep, Zenon

LEMMA InterruptStep ==
    ASSUME CommitAssumption, CommitInv, NEW c \in Committers, Interrupted(c)
    PROVE  CommitInv'
<1>1. Moves(c, "release") /\ UNCHANGED seen
  BY Zenon DEF Interrupted, Moves, Faulted, rowVars, objectVars, passVars, Steps
<1>2. Local(c, "release")
  BY <1>1, MovesLocal, Zenon
<1> QED
  BY <1>1, <1>2, EndStep, Zenon

-----------------------------------------------------------------------------
(* Steps that write rows, objects and claims *)

\* What is intended and published stands.
Stands ==
    \A r \in Runs : /\ HasIntent(intent[r]) => intent'[r] = intent[r]
                    /\ manifest[r] # NoState => manifest'[r] = manifest[r]

Same(c) ==
    /\ step'[c] = step[c] /\ target'[c] = target[c] /\ seen'[c] = seen[c]
    /\ plan'[c] = plan[c] /\ cause'[c] = cause[c]

LEMMA IntendedStays ==
    ASSUME Stands, NEW s \in States, Intended(s)
    PROVE  s.run # 0 => s = intent'[s.run].next
<1> SUFFICES ASSUME s.run # 0 PROVE s = intent'[s.run].next
  BY Zenon
<1>1. s.run \in Runs /\ s = intent[s.run].next
  BY Zenon DEF States, Intended
<1>2. s # NoState
  BY DEF NoState
<1> QED
  BY <1>1, <1>2, Zenon DEF Stands, HasIntent

\* A pass that does not move keeps its agreement with the intent.
LEMMA PassStays ==
    ASSUME CommitInv, Stands, NEW c \in Committers, Same(c)
    PROVE  PassOK(c)'
<1> DEFINE t == target[c]
<1>1. PassOK(c) /\ seen[c] \in States /\ (step[c] # "idle" => t \in Runs)
  BY PassRow, Zenon
<1>2. Intended(seen[c])'
  <2>1. seen[c].run # 0 => seen[c] = intent'[seen[c].run].next
    BY <1>1, IntendedStays, Zenon DEF PassOK
  <2> QED
    BY <2>1, Zenon DEF Intended, Same
<1>3. ASSUME HasIntent(plan[c]), plan[c] = intent[t], step[c] # "idle" PROVE plan[c] = intent'[t]
  BY <1>1, <1>3, Zenon DEF Stands
<1>4. ASSUME HasIntent(plan[c]), manifest[t] = plan[c].next, step[c] # "idle"
      PROVE  manifest'[t] = plan[c].next
  BY <1>1, <1>4, Zenon DEF Stands, HasIntent
<1>5. step[c] \in Follows \cup {"verify", "read"} => step[c] # "idle"
  BY Zenon DEF Follows, Publishes, Compares
<1>6. step[c] \in Publishes => step[c] \in Follows
  BY Zenon DEF Follows
<1> QED
  BY <1>1, <1>2, <1>3, <1>4, <1>5, <1>6, Zenon DEF PassOK, Same

\* Only one pass is at work while no claim lapses.
LEMMA OnlyPass ==
    ASSUME CommitAssumption, CommitInv, lapses = 0, NEW c \in Committers, NEW d \in Committers, c # d,
           step[c] # "idle"
    PROVE  /\ target[c] \in Runs /\ target[d] # target[c]
           /\ step[c] \notin Ended => step[d] \in Ended
<1>1. Alone(c) /\ Alone(d) /\ target[c] \in Runs
  BY PassRow, Zenon
<1>2. target[c] # 0 /\ \A r \in Runs : r \in Nat
  BY <1>1, Zenon DEF CommitAssumption
<1>3. target[d] # target[c]
  BY <1>1, <1>2 DEF Alone
<1>4. ASSUME step[c] \notin Ended, step[d] \notin Ended PROVE FALSE
  <2>1. status[target[c]] = "COMMITTING" /\ status[target[d]] = "COMMITTING" /\ target[d] \in Runs
    BY <1>1, <1>4, PassRow, Zenon DEF Alone, Ended
  <2>2. target[c] < target[d] \/ target[d] < target[c]
    BY <1>1, <1>2, <1>3, <2>1
  <2> QED
    BY <1>1, <2>1, <2>2, Zenon DEF CommitInv, Serial, Over
<1> QED
  BY <1>1, <1>3, <1>4, Zenon

\* What is alone stays alone while others act on other runs.
LEMMA AloneStays ==
    ASSUME NEW c \in Committers, Alone(c), Same(c),
           target[c] # 0 => claim'[target[c]] = claim[target[c]] /\ claimLive'[target[c]] = claimLive[target[c]],
           step[c] \notin Ended => status'[target[c]] = status[target[c]] /\ state' = state /\ mirror' = mirror
    PROVE  Alone(c)'
<1>1. step[c] = "save" \/ step[c] \in Verified \/ step[c] \in {"markVerified", "complete"} => step[c] \notin Ended
  BY Zenon DEF Ended, Verified
<1> QED
  BY <1>1, Zenon DEF Alone, Same

\* A call that goes on, or fails, after it wrote.
Writes(c, s) ==
    /\ Goto(c, s) /\ s \in Steps \ {"idle"} /\ step[c] \notin Ended
    /\ UNCHANGED <<target, seen, plan, lapses>>
    /\ s = "failed" => cause' = [cause EXCEPT ![c] = "transient"]
    /\ s # "failed" => UNCHANGED cause
    /\ Faulted

LEMMA WriteTyped ==
    ASSUME CommitAssumption, Typed, NEW c \in Committers, NEW s, Writes(c, s)
    PROVE  /\ PassTyped' /\ faults' \in 0..MaxFaults /\ lapses' \in 0..MaxLapses
           /\ step[c] # "idle" /\ step'[c] = s /\ target'[c] = target[c] /\ seen'[c] = seen[c]
           /\ plan'[c] = plan[c] /\ (s = "failed" => cause'[c] = "transient")
           /\ \A d \in Committers : d # c => Same(d)
<1>1. cause' \in [Committers -> Causes] /\ (s = "failed" => cause'[c] = "transient")
      /\ \A d \in Committers : d # c => cause'[d] = cause[d]
  <2>1. cause \in [Committers -> Causes] /\ "transient" \in Causes
    BY Zenon DEF Typed, PassTyped, Causes
  <2> QED
    BY <2>1, Zenon DEF Writes
<1>2. step[c] # "idle"
  BY Zenon DEF Writes, Ended
<1>3. step'[c] = s /\ \A d \in Committers : d # c => step'[d] = step[d]
  BY Zenon DEF Typed, PassTyped, Writes, Goto
<1>4. PassTyped'
  BY <1>1, <1>2, GotoTyped, Zenon DEF Typed, PassTyped, Writes
<1>5. faults' \in 0..MaxFaults
  BY FaultTyped, Zenon DEF Typed, ObjectTyped, Writes
<1> QED
  BY <1>1, <1>2, <1>3, <1>4, <1>5, Zenon DEF Typed, ObjectTyped, Writes, Same

LEMMA PutManifestStep ==
    ASSUME CommitAssumption, CommitInv, NEW c \in Committers, NEW s \in {"check", "failed"},
           step[c] = "put", Writes(c, s),
           manifest' = [manifest EXCEPT ![target[c]] = plan[c].next],
           UNCHANGED <<rowVars, state>>
    PROVE  CommitInv'
<1> DEFINE t == target[c]
<1>0. Typed /\ step[c] \in Follows /\ PassOK(c) /\ plan[c] \in Intents
  BY PassRow, Zenon DEF CommitInv, Follows
<1>1. t \in Runs /\ HasIntent(plan[c]) /\ plan[c] = intent[t] /\ step[c] \notin Ended
      /\ (manifest[t] # NoState => manifest[t] = plan[c].next)
  BY <1>0, FollowsIntent, Zenon
<1>2. /\ PassTyped' /\ faults' \in 0..MaxFaults /\ lapses' \in 0..MaxLapses
      /\ step'[c] = s /\ target'[c] = t /\ seen'[c] = seen[c] /\ plan'[c] = plan[c]
      /\ (s = "failed" => cause'[c] = "transient")
      /\ \A d \in Committers : d # c => Same(d)
  BY <1>0, WriteTyped, Zenon
<1>3. UNCHANGED <<status, intent, phase, tries, waiting, claim, claimLive, mirror, state, target, lapses>>
  BY Zenon DEF rowVars, Writes
<1>4. manifest \in [Runs -> States] /\ plan[c].next \in States
  BY <1>0, Zenon DEF Typed, ObjectTyped, Intents
<1>5. manifest'[t] = plan[c].next /\ manifest' \in [Runs -> States]
      /\ \A r \in Runs : r # t => manifest'[r] = manifest[r]
  BY <1>1, <1>4, Zenon
<1>6. Typed'
  <2>1. RowTyped' /\ ClaimTyped'
    BY <1>0, <1>3, RowsSame, ClaimsSame, Zenon DEF Typed, RowTyped
  <2>2. ObjectTyped'
    BY <1>0, <1>2, <1>3, <1>5, Zenon DEF Typed, ObjectTyped
  <2> QED
    BY <1>2, <2>1, <2>2, Zenon DEF Typed
<1>7. Stands
  BY <1>1, <1>3, <1>5, Zenon DEF Stands
<1>8. Serial' /\ Intended(state)'
  BY <1>3, Zenon DEF CommitInv, Serial, Intended
<1>9. ASSUME NEW r \in Runs PROVE RunOK(r)'
  <2>1. RunOK(r)
    BY Zenon DEF CommitInv
  <2>2. CASE r = t
    BY <1>1, <1>3, <1>5, <2>1, <2>2, Zenon DEF RunOK, WellFormed
  <2>3. CASE r # t
    BY <1>3, <1>5, <2>1, <2>3, Zenon DEF RunOK, WellFormed
  <2> QED
    BY <2>2, <2>3, Zenon
<1>10. ASSUME NEW d \in Committers PROVE PassOK(d)'
  <2>1. CASE d # c
    BY <1>2, <1>7, <2>1, PassStays, Zenon
  <2>2. CASE d = c
    <3>1. s \notin {"verify", "read", "reread", "save"} /\ s \notin Publishes /\ s \notin Compares
      BY Zenon DEF Publishes, Compares
    <3>2. Intended(seen[c])
      BY <1>0, Zenon DEF PassOK
    <3> QED
      BY <1>1, <1>2, <1>3, <2>2, <3>1, <3>2, Zenon DEF PassOK, Intended
  <2> QED
    BY <2>1, <2>2, Zenon
<1>11. ASSUME lapses' = 0 PROVE Undisturbed'
  <2>1. lapses = 0 /\ Undisturbed
    BY <1>3, <1>11, Zenon DEF CommitInv
  <2>2. ASSUME NEW d \in Committers PROVE Alone(d)'
    <3>1. Alone(d)
      BY <2>1, Zenon DEF Undisturbed
    <3>2. CASE d # c
      BY <1>2, <1>3, <3>1, <3>2, AloneStays, Zenon
    <3>3. CASE d = c
      BY <1>1, <1>2, <1>3, <3>1, <3>3, Zenon DEF Alone, Verified
    <3> QED
      BY <3>2, <3>3, Zenon
  <2>3. \A r \in Runs : Current(r)'
    BY <1>3, <2>1, Zenon DEF Undisturbed, Current
  <2> QED
    BY <2>2, <2>3, Zenon DEF Undisturbed
<1> QED
  BY <1>6, <1>8, <1>9, <1>10, <1>11, Zenon DEF CommitInv

\* A pass that is alone moves the state forward only.
LEMMA Forward ==
    ASSUME CommitAssumption, CommitInv, lapses = 0, NEW c \in Committers, step[c] = "putState"
    PROVE  /\ plan[c].next.run = target[c] /\ plan[c].next.hwm >= Mark[target[c]]
           /\ plan[c].next.run >= state.run /\ plan[c].next.hwm >= state.hwm
<1> DEFINE t == target[c]  p == plan[c]
<1>1. step[c] \in Follows /\ step[c] \notin Ended
  BY Zenon DEF Follows, Publishes, Compares, Ended
<1>2. t \in Runs /\ HasIntent(p) /\ p = intent[t] /\ WellFormed(p, t) /\ p.next.run = t
  BY <1>1, FollowsIntent, Zenon
<1>3. p.prev \in States /\ p.next \in States /\ Alone(c) /\ Current(t)
  BY <1>2, PassRow, Zenon DEF CommitInv, Undisturbed, Intents
<1>4. state \in {p.prev, p.next}
  BY <1>1, <1>2, <1>3, Zenon DEF Alone, Current
<1>5. /\ p.prev.run \in Nat /\ p.prev.hwm \in Nat /\ p.next.hwm \in Nat /\ t \in Nat /\ Mark[t] \in Nat
      /\ MaxHWM(t, p.prev.hwm) >= p.prev.hwm /\ MaxHWM(t, p.prev.hwm) >= Mark[t]
  BY <1>2, <1>3, MarkTyped, Zenon
<1>6. p.next.hwm = MaxHWM(t, p.prev.hwm) /\ p.prev.run < t
  BY <1>2 DEF WellFormed
<1> HIDE DEF p, t
<1>7. p.next.run >= p.prev.run /\ p.next.hwm >= p.prev.hwm /\ p.next.hwm >= Mark[t]
      /\ p.next.run >= p.next.run /\ p.next.hwm >= p.next.hwm
  BY <1>2, <1>5, <1>6
<1>8. p.next.run >= state.run /\ p.next.hwm >= state.hwm
  BY <1>4, <1>7, Zenon
<1> QED
  BY <1>2, <1>7, <1>8, Zenon DEF p, t

LEMMA PutStateStep ==
    ASSUME CommitAssumption, CommitInv, NEW c \in Committers, NEW s \in {"checkState", "failed"},
           step[c] = "putState", Writes(c, s),
           state' = plan[c].next,
           UNCHANGED <<rowVars, manifest>>
    PROVE  CommitInv'
<1> DEFINE t == target[c]
<1>0. Typed /\ step[c] \in Follows /\ PassOK(c) /\ plan[c] \in Intents
  BY PassRow, Zenon DEF CommitInv, Follows, Publishes, Compares
<1>1. t \in Runs /\ HasIntent(plan[c]) /\ plan[c] = intent[t] /\ step[c] \notin Ended
      /\ plan[c].next.run = t
  BY <1>0, FollowsIntent, Zenon
<1>2. /\ PassTyped' /\ faults' \in 0..MaxFaults /\ lapses' \in 0..MaxLapses
      /\ step'[c] = s /\ target'[c] = t /\ seen'[c] = seen[c] /\ plan'[c] = plan[c]
      /\ (s = "failed" => cause'[c] = "transient")
      /\ \A d \in Committers : d # c => Same(d)
  BY <1>0, WriteTyped, Zenon
<1>3. UNCHANGED <<status, intent, phase, tries, waiting, claim, claimLive, mirror, manifest, target, lapses>>
  BY Zenon DEF rowVars, Writes
<1>4. state' \in States
  BY <1>0, Zenon DEF Intents
<1>6. Typed'
  <2>1. RowTyped' /\ ClaimTyped'
    BY <1>0, <1>3, RowsSame, ClaimsSame, Zenon DEF Typed, RowTyped
  <2>2. ObjectTyped'
    BY <1>0, <1>2, <1>3, <1>4, Zenon DEF Typed, ObjectTyped
  <2> QED
    BY <1>2, <2>1, <2>2, Zenon DEF Typed
<1>7. Stands
  BY <1>3, Zenon DEF Stands
<1>8. Serial' /\ Intended(state)'
  <2>1. Serial'
    BY <1>3, Zenon DEF CommitInv, Serial
  <2>2. Intended(state)'
    BY <1>1, <1>3, Zenon DEF Intended
  <2> QED
    BY <2>1, <2>2, Zenon
<1>9. \A r \in Runs : RunOK(r)'
  BY <1>3, Zenon DEF CommitInv, RunOK, WellFormed
<1>10. ASSUME NEW d \in Committers PROVE PassOK(d)'
  <2>1. CASE d # c
    BY <1>2, <1>7, <2>1, PassStays, Zenon
  <2>2. CASE d = c
    <3>1. s \notin {"verify", "read", "reread", "save"} /\ (s = "failed" => s \notin Follows /\ s \notin Publishes /\ s \notin Compares)
      BY Zenon DEF Follows, Publishes, Compares
    <3>2. Intended(seen[c]) /\ manifest[t] = plan[c].next /\ seen[c] \in {plan[c].prev, plan[c].next}
      BY <1>0, Zenon DEF PassOK, Publishes, Compares
    <3> QED
      BY <1>1, <1>2, <1>3, <2>2, <3>1, <3>2, Zenon DEF PassOK, Intended
  <2> QED
    BY <2>1, <2>2, Zenon
<1>11. ASSUME lapses' = 0 PROVE Undisturbed'
  <2>1. lapses = 0 /\ Undisturbed /\ step[c] # "idle"
    BY <1>3, <1>11, Zenon DEF CommitInv
  <2>2. ASSUME NEW d \in Committers PROVE Alone(d)'
    <3>1. Alone(d)
      BY <2>1, Zenon DEF Undisturbed
    <3>2. CASE d # c
      <4>1. step[d] \in Ended
        BY <1>1, <2>1, <3>2, OnlyPass, Zenon
      <4> QED
        BY <1>2, <1>3, <3>1, <3>2, <4>1, AloneStays, Zenon
    <3>3. CASE d = c
      BY <1>1, <1>2, <1>3, <3>1, <3>3, Zenon DEF Alone, Verified
    <3> QED
      BY <3>2, <3>3, Zenon
  <2>3. ASSUME NEW r \in Runs PROVE Current(r)'
    <3>1. Current(r) /\ status[t] = "COMMITTING" /\ r \in Nat /\ t \in Nat
      BY <1>1, <2>1, PassRow, MarkTyped, Zenon DEF Undisturbed, Alone, CommitAssumption
    <3>2. ASSUME r # t, status[r] = "COMMITTING" PROVE FALSE
      <4>1. r < t \/ t < r
        BY <3>1, <3>2
      <4> QED
        BY <1>1, <3>1, <3>2, <4>1, Zenon DEF CommitInv, Serial, Over
    <3>3. status[r] = "COMMITTING" => r = t /\ state' = intent[t].next
      BY <1>1, <3>2, Zenon
    <3>4. ASSUME status[r] = "SUCCEEDED" PROVE state'.run >= r /\ state'.hwm >= Mark[r]
      <4>1. state.run >= r /\ state.hwm >= Mark[r]
        BY <3>1, <3>4, Zenon DEF Current
      <4>2. state'.run >= state.run /\ state'.hwm >= state.hwm
        BY <2>1, Forward, Zenon
      <4>3. state.run \in Nat /\ state.hwm \in Nat /\ state'.run \in Nat /\ state'.hwm \in Nat /\ Mark[r] \in Nat
        BY <1>0, <1>4, MarkTyped, Zenon DEF Typed, ObjectTyped
      <4> QED
        BY <3>1, <4>1, <4>2, <4>3
    <3> QED
      BY <1>3, <3>1, <3>3, <3>4, Zenon DEF Current
  <2> QED
    BY <2>2, <2>3, Zenon DEF Undisturbed
<1> QED
  BY <1>6, <1>8, <1>9, <1>10, <1>11, Zenon DEF CommitInv

LEMMA PutStep ==
    ASSUME CommitAssumption, CommitInv, NEW c \in Committers, PutManifest(c) \/ PutState(c)
    PROVE  CommitInv'
<1>1. CASE PutManifest(c)
  <2>1. Writes(c, "check") /\ step[c] = "put" /\ UNCHANGED <<rowVars, state>>
        /\ manifest' = [manifest EXCEPT ![target[c]] = plan[c].next]
    BY <1>1, Zenon DEF PutManifest, Writes, Faulted, passVars, Steps, Ended
  <2> QED
    BY <2>1, PutManifestStep, Zenon
<1>2. CASE PutState(c)
  <2>1. Writes(c, "checkState") /\ step[c] = "putState" /\ UNCHANGED <<rowVars, manifest>>
        /\ state' = plan[c].next
    BY <1>2, Zenon DEF PutState, Writes, Faulted, passVars, Steps, Ended
  <2> QED
    BY <2>1, PutStateStep, Zenon
<1> QED
  BY <1>1, <1>2, Zenon

LEMMA CallFailsStep ==
    ASSUME CommitAssumption, CommitInv, NEW c \in Committers, CallFails(c)
    PROVE  CommitInv'
<1>1. /\ step[c] \notin Ended /\ Faulted /\ Fail(c, "transient")
      /\ UNCHANGED <<rowVars, target, seen, plan, lapses>>
  BY Zenon DEF CallFails, Ended, Faulted
<1>2. Writes(c, "failed")
  BY <1>1, Zenon DEF Writes, Fail, Steps
<1>3. CASE UNCHANGED objectVars
  <2>1. "transient" \in Causes \ {"conflict"}
    BY Zenon DEF Causes
  <2> QED
    BY <1>1, <1>3, <2>1, PlainFailStep, Zenon
<1>4. CASE step[c] = "put" /\ manifest' = [manifest EXCEPT ![target[c]] = plan[c].next] /\ UNCHANGED state
  BY <1>1, <1>2, <1>4, PutManifestStep, Zenon
<1>5. CASE step[c] = "putState" /\ state' = plan[c].next /\ UNCHANGED manifest
  BY <1>1, <1>2, <1>5, PutStateStep, Zenon
<1> QED
  BY <1>3, <1>4, <1>5, Zenon DEF CallFails

LEMMA SaveIntentStep ==
    ASSUME CommitAssumption, CommitInv, NEW c \in Committers, step[c] = "save", Saveable(target[c]),
           Writes(c, "get"),
           intent' = [intent EXCEPT ![target[c]] = plan[c]],
           phase' = [phase EXCEPT ![target[c]] = "INTENT"],
           UNCHANGED <<status, tries, waiting, claim, claimLive, mirror, manifest, state>>
    PROVE  CommitInv'
<1> DEFINE t == target[c]
<1>0. Typed /\ PassOK(c) /\ plan[c] \in Intents /\ t \in Runs
  BY PassRow, Zenon DEF CommitInv
<1>1. WellFormed(plan[c], t) /\ seen[c] = plan[c].prev /\ step[c] \notin Ended
  BY <1>0, Zenon DEF PassOK, Ended
<1>2. /\ PassTyped' /\ faults' \in 0..MaxFaults /\ lapses' \in 0..MaxLapses
      /\ step'[c] = "get" /\ target'[c] = t /\ seen'[c] = seen[c] /\ plan'[c] = plan[c]
      /\ \A d \in Committers : d # c => Same(d)
  BY <1>0, WriteTyped, Zenon
<1>3. UNCHANGED <<target, lapses>> /\ status[t] = "COMMITTING" /\ ~HasIntent(intent[t])
  BY Zenon DEF Writes, Saveable
<1>4. intent'[t] = plan[c] /\ intent' \in [Runs -> Intents] /\ \A r \in Runs : r # t => intent'[r] = intent[r]
  BY <1>0, Zenon DEF Typed, RowTyped
<1>5. HasIntent(plan[c])
  <2>1. t # 0
    BY <1>0, Zenon DEF CommitAssumption
  <2> QED
    BY <1>1, <2>1 DEF HasIntent, NoState, WellFormed
<1>6. Typed'
  <2>1. RowTyped'
    BY <1>0, <1>4, Zenon DEF Typed, RowTyped, Phases
  <2>2. ClaimTyped' /\ ObjectTyped'
    BY <1>0, <1>2, ClaimsSame, Zenon DEF Typed, ObjectTyped
  <2> QED
    BY <1>2, <2>1, <2>2, Zenon DEF Typed
<1>7. Stands
  BY <1>3, <1>4, Zenon DEF Stands
<1>8. Serial'
  BY <1>3, <1>4, Zenon DEF CommitInv, Serial
<1>9. Intended(state)'
  <2>1. state.run # 0 => state = intent'[state.run].next
    BY <1>0, <1>7, IntendedStays, Zenon DEF CommitInv, Typed, ObjectTyped
  <2> QED
    BY <2>1, Zenon DEF Intended
<1>10. ASSUME NEW r \in Runs PROVE RunOK(r)'
  <2>1. RunOK(r)
    BY Zenon DEF CommitInv
  <2>2. CASE r = t
    BY <1>1, <1>3, <1>4, <1>5, <2>1, <2>2, Zenon DEF RunOK, WellFormed
  <2>3. CASE r # t
    BY <1>4, <2>1, <2>3, Zenon DEF RunOK, WellFormed
  <2> QED
    BY <2>2, <2>3, Zenon
<1>11. ASSUME NEW d \in Committers PROVE PassOK(d)'
  <2>1. CASE d # c
    BY <1>2, <1>7, <2>1, PassStays, Zenon
  <2>2. CASE d = c
    <3>1. "get" \notin Publishes /\ "get" \notin Compares
      BY Zenon DEF Publishes, Compares
    <3>2. Intended(seen[c])'
      <4>1. seen[c].run # 0 => seen[c] = intent'[seen[c].run].next
        BY <1>0, <1>7, IntendedStays, PassRow, Zenon DEF PassOK
      <4> QED
        BY <1>2, <4>1, Zenon DEF Intended
    <3> QED
      BY <1>2, <1>4, <1>5, <2>2, <3>1, <3>2, Zenon DEF PassOK
  <2> QED
    BY <2>1, <2>2, Zenon
<1>12. ASSUME lapses' = 0 PROVE Undisturbed'
  <2>1. lapses = 0 /\ Undisturbed
    BY <1>3, <1>12, Zenon DEF CommitInv
  <2>2. ASSUME NEW d \in Committers PROVE Alone(d)'
    <3>1. Alone(d)
      BY <2>1, Zenon DEF Undisturbed
    <3>2. CASE d # c
      BY <1>2, <3>1, <3>2, AloneStays, Zenon
    <3>3. CASE d = c
      BY <1>1, <1>2, <3>1, <3>3, Zenon DEF Alone, Verified
    <3> QED
      BY <3>2, <3>3, Zenon
  <2>3. ASSUME NEW r \in Runs PROVE Current(r)'
    <3>1. Current(r) /\ state = plan[c].prev
      BY <2>1, Zenon DEF Undisturbed, Alone
    <3> QED
      BY <1>3, <1>4, <3>1, Zenon DEF Current
  <2> QED
    BY <2>2, <2>3, Zenon DEF Undisturbed
<1> QED
  BY <1>6, <1>8, <1>9, <1>10, <1>11, <1>12, Zenon DEF CommitInv

LEMMA SaveStep ==
    ASSUME CommitAssumption, CommitInv, NEW c \in Committers, SaveCommitIntent(c)
    PROVE  CommitInv'
<1> DEFINE t == target[c]
<1>0. /\ step[c] = "save" /\ step[c] \notin Ended /\ PassOK(c) /\ t \in Runs /\ seen[c] \in States
      /\ UNCHANGED <<status, tries, waiting, claim, claimLive, mirror, objectVars, target, seen, plan,
                     faults, lapses>>
      /\ Faulted
  BY PassRow, Zenon DEF SaveCommitIntent, Ended, Faulted
<1>1. CASE /\ Saveable(t) /\ intent' = [intent EXCEPT ![t] = plan[c]]
           /\ phase' = [phase EXCEPT ![t] = "INTENT"] /\ Goto(c, "get") /\ UNCHANGED cause
  <2>1. Writes(c, "get")
    BY <1>0, <1>1, Zenon DEF Writes, Steps
  <2>2. UNCHANGED <<manifest, state>>
    BY <1>0, Zenon DEF objectVars
  <2> QED
    BY <1>0, <1>1, <2>1, <2>2, SaveIntentStep, Zenon
<1>2. CASE /\ HasIntent(intent[t]) /\ intent[t] = plan[c] /\ Goto(c, "get") /\ UNCHANGED cause
           /\ UNCHANGED <<intent, phase>>
  <2>1. Moves(c, "get")
    BY <1>0, <1>2, Zenon DEF Moves, objectVars, Steps
  <2>2. Local(c, "get")
    BY <2>1, MovesLocal, Zenon
  <2>3. "get" \notin Publishes /\ "get" \notin Compares /\ "get" \notin Verified
    BY Zenon DEF Publishes, Compares, Verified
  <2> QED
    BY <1>0, <1>2, <2>2, <2>3, GoOnStep, Zenon
<1>3. CASE Fail(c, "conflict") /\ UNCHANGED <<intent, phase>>
  <2>1. Moves(c, "failed")
    BY <1>0, <1>3, FailMoves, Zenon DEF Causes, rowVars
  <2>2. Local(c, "failed")
    BY <2>1, MovesLocal, Zenon
  <2>3. seen[c].run # t
    <3>1. seen[c].run < t /\ seen[c].run \in Nat /\ t \in Nat
      BY <1>0, MarkTyped, Zenon DEF PassOK, WellFormed
    <3> QED
      BY <3>1
  <2> QED
    BY <1>0, <2>2, <2>3, FailStep, Zenon
<1>4. CASE Fail(c, "transient") /\ UNCHANGED <<intent, phase>>
  BY <1>0, <1>4, PlainFailStep, Zenon DEF Causes, rowVars
<1> QED
  BY <1>1, <1>2, <1>3, <1>4, Zenon DEF SaveCommitIntent

\* The mark of a pass that is alone is the state's.
LEMMA MarkOfState ==
    ASSUME CommitAssumption, CommitInv, lapses = 0, NEW c \in Committers, step[c] = "mirror"
    PROVE  MaxHWM(target[c], seen[c].hwm) = state.hwm /\ state.hwm >= Mark[target[c]]
<1> DEFINE t == target[c]  p == plan[c]
<1>1. step[c] \in Follows /\ PassOK(c) /\ Alone(c) /\ p \in Intents
  BY PassRow, Zenon DEF Follows, Publishes, Compares
<1>2. t \in Runs /\ WellFormed(p, t)
  BY <1>1, FollowsIntent, Zenon
<1>3. seen[c] \in {p.prev, p.next} /\ state = p.next
  BY <1>1, Zenon DEF PassOK, Compares, Alone, Verified
<1>4. p.prev.hwm \in Nat /\ p.next.hwm \in Nat /\ Mark[t] \in Nat
  BY <1>1, <1>2, MarkTyped, Zenon DEF Intents
<1>5. p.next.hwm = MaxHWM(t, p.prev.hwm)
  BY <1>2 DEF WellFormed
<1> HIDE DEF p, t
<1>6. p.next.hwm >= Mark[t] /\ MaxHWM(t, p.next.hwm) = p.next.hwm
  BY <1>4, <1>5 DEF MaxHWM
<1> QED
  BY <1>3, <1>5, <1>6, Zenon DEF p, t

LEMMA MirrorStep ==
    ASSUME CommitAssumption, CommitInv, NEW c \in Committers, UpsertHWM(c)
    PROVE  CommitInv'
<1> DEFINE t == target[c]
           mark == MaxHWM(t, seen[c].hwm)
<1>0. Typed /\ step[c] = "mirror" /\ PassOK(c) /\ t \in Runs /\ seen[c] \in States /\ step[c] \notin Ended
      /\ step[c] # "idle" /\ step[c] \in Follows
  BY PassRow, Zenon DEF CommitInv, UpsertHWM, Ended, Follows, Publishes, Compares
<1>1. /\ mirror' = (IF mark = 0 THEN mirror ELSE mark)
      /\ UNCHANGED <<status, intent, phase, tries, waiting, claim, claimLive, manifest, state, target,
                     lapses>>
  BY Zenon DEF UpsertHWM, objectVars, passVars
<1>2. Writes(c, "markVerified")
  BY <1>0, Zenon DEF UpsertHWM, Writes, passVars, Faulted, Steps
<1>3. /\ PassTyped' /\ faults' \in 0..MaxFaults /\ lapses' \in 0..MaxLapses
      /\ step'[c] = "markVerified" /\ target'[c] = t /\ seen'[c] = seen[c] /\ plan'[c] = plan[c]
      /\ \A d \in Committers : d # c => Same(d)
  BY <1>0, <1>2, WriteTyped, Zenon
<1>4. mark \in Marks /\ mirror' \in Marks
  BY <1>0, <1>1, MarkTyped, Zenon DEF Typed, ObjectTyped
<1> HIDE DEF mark
<1>5. Typed'
  <2>1. RowTyped' /\ ClaimTyped'
    BY <1>0, <1>1, RowsSame, ClaimsSame, Zenon DEF Typed, RowTyped
  <2>2. ObjectTyped'
    BY <1>0, <1>1, <1>3, <1>4, Zenon DEF Typed, ObjectTyped
  <2> QED
    BY <1>3, <2>1, <2>2, Zenon DEF Typed
<1>6. Stands
  BY <1>1, Zenon DEF Stands
<1>7. Serial' /\ Intended(state)'
  BY <1>1, Zenon DEF CommitInv, Serial, Intended
<1>8. \A r \in Runs : RunOK(r)'
  BY <1>1, Zenon DEF CommitInv, RunOK, WellFormed
<1>9. ASSUME NEW d \in Committers PROVE PassOK(d)'
  <2>1. CASE d # c
    BY <1>3, <1>6, <2>1, PassStays, Zenon
  <2>2. CASE d = c
    <3>1. HasIntent(plan[c]) /\ plan[c] = intent[t] /\ manifest[t] = plan[c].next /\ Intended(seen[c])
      BY <1>0, FollowsIntent, Zenon DEF PassOK, Publishes, Compares
    <3>2. "markVerified" \notin Compares
      BY Zenon DEF Compares
    <3> QED
      BY <1>1, <1>3, <2>2, <3>1, <3>2, Zenon DEF PassOK, Intended
  <2> QED
    BY <2>1, <2>2, Zenon
<1>10. ASSUME lapses' = 0 PROVE Undisturbed'
  <2>1. lapses = 0 /\ Undisturbed
    BY <1>1, <1>10, Zenon DEF CommitInv
  <2>2. mark = state.hwm /\ state.hwm >= Mark[t]
    BY <1>0, <2>1, MarkOfState, Zenon DEF mark
  <2>3. state.hwm \in Nat /\ \A r \in Runs : Mark[r] \in Nat
    BY <1>0, MarkTyped, Zenon DEF Typed, ObjectTyped
  <2>4. mirror \in Nat
    <3>1. \A r \in Runs : Mark[r] \in Nat
      BY <2>3, Zenon
    <3> QED
      BY <1>0, <3>1 DEF Typed, ObjectTyped, Marks
  <2>5. ASSUME NEW r \in Runs, state.hwm >= Mark[r] PROVE mirror' >= Mark[r]
    BY <1>1, <2>2, <2>3, <2>4, <2>5
  <2>6. ASSUME NEW d \in Committers PROVE Alone(d)'
    <3>1. Alone(d)
      BY <2>1, Zenon DEF Undisturbed
    <3>2. CASE d # c
      <4>1. step[d] \in Ended
        BY <1>0, <2>1, <3>2, OnlyPass, Zenon
      <4> QED
        BY <1>1, <1>3, <3>1, <3>2, <4>1, AloneStays, Zenon
    <3>3. CASE d = c
      <4>1. mirror' >= Mark[t]
        BY <1>0, <2>2, <2>5, Zenon
      <4> QED
        BY <1>0, <1>1, <1>3, <3>1, <3>3, <4>1, Zenon DEF Alone, Verified
    <3> QED
      BY <3>2, <3>3, Zenon
  <2>7. ASSUME NEW r \in Runs PROVE Current(r)'
    <3>1. Current(r)
      BY <2>1, Zenon DEF Undisturbed
    <3> QED
      BY <1>1, <2>5, <3>1, Zenon DEF Current
  <2> QED
    BY <2>6, <2>7, Zenon DEF Undisturbed
<1> QED
  BY <1>5, <1>7, <1>8, <1>9, <1>10, Zenon DEF CommitInv

\* A pass ends, and may have decided its run.
LEMMA DecideStep ==
    ASSUME CommitAssumption, CommitInv, NEW c \in Committers, Writes(c, "release"),
           NEW new \in Statuses, status' = [status EXCEPT ![target[c]] = new],
           new = status[target[c]] \/ (status[target[c]] = "COMMITTING" /\ new \in Over),
           new = "SUCCEEDED" /\ status[target[c]] # new =>
               /\ HasIntent(intent[target[c]]) /\ manifest[target[c]] = intent[target[c]].next
               /\ lapses = 0 => /\ state.run >= target[c] /\ state.hwm >= Mark[target[c]]
                                /\ mirror >= Mark[target[c]],
           RowTyped', ClaimTyped',
           UNCHANGED <<intent, claim, claimLive, mirror, manifest, state>>
    PROVE  CommitInv'
<1> DEFINE t == target[c]
<1>0. Typed /\ PassOK(c) /\ step[c] \notin Ended /\ step[c] # "idle" /\ UNCHANGED lapses
  BY PassRow, Zenon DEF CommitInv, Writes, Ended
<1>1. t \in Runs
  BY <1>0, PassRow, Zenon
<1>2. /\ PassTyped' /\ faults' \in 0..MaxFaults /\ lapses' \in 0..MaxLapses
      /\ step'[c] = "release" /\ target'[c] = t /\ seen'[c] = seen[c] /\ plan'[c] = plan[c]
      /\ \A d \in Committers : d # c => Same(d)
  BY <1>0, WriteTyped, Zenon
<1>3. status'[t] = new /\ \A r \in Runs : r # t => status'[r] = status[r]
  BY <1>0, <1>1, Zenon DEF Typed, RowTyped
<1>4. Typed'
  <2>1. ObjectTyped'
    BY <1>0, <1>2, Zenon DEF Typed, ObjectTyped
  <2> QED
    BY <1>2, <2>1, Zenon DEF Typed
<1>5. Stands
  BY Zenon DEF Stands
<1>6. Serial'
  <2>1. \A r \in Runs : status'[r] = "WAITING" <=> status[r] = "WAITING"
    BY <1>1, <1>3, Zenon DEF Over
  <2>2. \A r \in Runs : status[r] \in Over => status'[r] \in Over
    BY <1>1, <1>3, Zenon DEF Over
  <2>3. UNCHANGED target
    BY Zenon DEF Writes
  <2>4. Serial /\ \A d \in Committers : target[d] \in Runs \cup {0}
    BY <1>0, Zenon DEF CommitInv, Typed, PassTyped
  <2> QED
    BY <2>1, <2>2, <2>3, <2>4, Zenon DEF Serial
<1>7. Intended(state)'
  BY Zenon DEF CommitInv, Intended
<1>8. ASSUME NEW r \in Runs PROVE RunOK(r)'
  <2>1. RunOK(r)
    BY Zenon DEF CommitInv
  <2> QED
    BY <1>3, <2>1, Zenon DEF RunOK, WellFormed
<1>9. ASSUME NEW d \in Committers PROVE PassOK(d)'
  <2>1. CASE d # c
    BY <1>2, <1>5, <2>1, PassStays, Zenon
  <2>2. CASE d = c
    <3>1. "release" \notin Follows /\ "release" \notin Publishes /\ "release" \notin Compares
      BY Zenon DEF Follows, Publishes, Compares
    <3> QED
      BY <1>0, <1>2, <2>2, <3>1, Zenon DEF PassOK, Intended
  <2> QED
    BY <2>1, <2>2, Zenon
<1>10. ASSUME lapses' = 0 PROVE Undisturbed'
  <2>1. lapses = 0 /\ Undisturbed
    BY <1>0, <1>10, Zenon DEF CommitInv
  <2>2. ASSUME NEW d \in Committers PROVE Alone(d)'
    <3>1. Alone(d)
      BY <2>1, Zenon DEF Undisturbed
    <3>2. CASE d # c
      <4>1. step[d] \in Ended
        BY <1>0, <2>1, <3>2, OnlyPass, Zenon
      <4> QED
        BY <1>2, <3>1, <3>2, <4>1, AloneStays, Zenon
    <3>3. CASE d = c
      BY <1>2, <3>1, <3>3, Zenon DEF Alone, Verified, Ended
    <3> QED
      BY <3>2, <3>3, Zenon
  <2>3. ASSUME NEW r \in Runs PROVE Current(r)'
    <3>1. Current(r)
      BY <2>1, Zenon DEF Undisturbed
    <3>2. status'[r] = "COMMITTING" => status[r] = "COMMITTING"
      BY <1>3, Zenon DEF Over
    <3>3. status'[r] = "SUCCEEDED" => status[r] = "SUCCEEDED" \/ (r = t /\ status[t] # new /\ new = "SUCCEEDED")
      BY <1>3, Zenon
    <3> QED
      BY <2>1, <3>1, <3>2, <3>3, Zenon DEF Current
  <2> QED
    BY <2>2, <2>3, Zenon DEF Undisturbed
<1> QED
  BY <1>4, <1>6, <1>7, <1>8, <1>9, <1>10, Zenon DEF CommitInv

LEMMA CompleteStep ==
    ASSUME CommitAssumption, CommitInv, NEW c \in Committers, CompleteRunCommit(c)
    PROVE  CommitInv'
<1> DEFINE t == target[c]
           new == IF Completable(t) THEN "SUCCEEDED" ELSE status[t]
<1>0. Typed /\ step[c] = "complete" /\ PassOK(c) /\ t \in Runs /\ step[c] \in Follows
      /\ plan[c] \in Intents /\ (lapses = 0 => Alone(c))
  BY PassRow, Zenon DEF CommitInv, CompleteRunCommit, Follows, Publishes
<1>1. /\ Writes(c, "release")
      /\ UNCHANGED <<intent, tries, waiting, claim, claimLive, mirror, manifest, state>>
  BY Zenon DEF CompleteRunCommit, Writes, Faulted, Ended, objectVars, passVars, Steps
<1>2. /\ status' = IF Completable(t) THEN [status EXCEPT ![t] = "SUCCEEDED"] ELSE status
      /\ phase' = IF Completable(t) THEN [phase EXCEPT ![t] = "COMPLETE"] ELSE phase
  BY Zenon DEF CompleteRunCommit
<1>3. status' = [status EXCEPT ![t] = new] /\ new \in Statuses
  BY <1>0, <1>2, Zenon DEF Typed, RowTyped, Statuses
<1>4. new = status[t] \/ (status[t] = "COMMITTING" /\ new \in Over)
  BY Zenon DEF Completable, Over
<1>5. RowTyped' /\ ClaimTyped'
  <2>1. phase' \in [Runs -> Phases]
    BY <1>0, <1>2, Zenon DEF Typed, RowTyped, Phases
  <2>2. \A r \in Runs : status'[r] \notin Over => status[r] \notin Over
    BY <1>0, <1>2, Zenon DEF Typed, RowTyped, Over
  <2>3. status' \in [Runs -> Statuses]
    BY <1>0, <1>3, Zenon DEF Typed, RowTyped
  <2> QED
    BY <1>0, <1>1, <2>1, <2>2, <2>3, ClaimsSame, Zenon DEF Typed, RowTyped
<1>6. HasIntent(plan[c]) /\ plan[c] = intent[t] /\ manifest[t] = plan[c].next
      /\ WellFormed(plan[c], t) /\ plan[c].next.run = t
  BY <1>0, FollowsIntent, Zenon DEF PassOK, Publishes
<1>7. ASSUME lapses = 0 PROVE state.run >= t /\ state.hwm >= Mark[t] /\ mirror >= Mark[t]
  <2>1. state = plan[c].next /\ mirror >= Mark[t]
    BY <1>0, <1>7, Zenon DEF Alone, Verified
  <2>2. state.hwm = MaxHWM(t, plan[c].prev.hwm) /\ state.run = t
    BY <1>6, <2>1 DEF WellFormed
  <2>3. t \in Nat /\ MaxHWM(t, plan[c].prev.hwm) >= Mark[t]
    BY <1>0, MarkTyped, Zenon DEF Intents
  <2> QED
    BY <2>1, <2>2, <2>3
<1> HIDE DEF new
<1> QED
  BY <1>1, <1>3, <1>4, <1>5, <1>6, <1>7, DecideStep, Zenon

LEMMA FailureStep ==
    ASSUME CommitAssumption, CommitInv, NEW c \in Committers, RecordFailure(c)
    PROVE  CommitInv'
<1> DEFINE t == target[c]
           again == cause[c] = "transient" /\ tries[t] + 1 < MaxAttempts
           new == IF StillFails(t) /\ ~again THEN "FAILED" ELSE status[t]
<1>0. Typed /\ step[c] = "failed" /\ t \in Runs
  BY PassRow, Zenon DEF CommitInv, RecordFailure
<1>1. /\ Writes(c, "release")
      /\ UNCHANGED <<intent, claim, claimLive, mirror, manifest, state>>
  BY Zenon DEF RecordFailure, Writes, Faulted, Ended, objectVars, passVars, Steps
<1>2. IF StillFails(t)
      THEN /\ tries' = [tries EXCEPT ![t] = tries[t] + 1]
           /\ status' = IF again THEN status ELSE [status EXCEPT ![t] = "FAILED"]
           /\ phase' = [phase EXCEPT ![t] = IF again THEN "RETRY_REQUIRED" ELSE "FAILED"]
           /\ waiting' = [waiting EXCEPT ![t] = again]
      ELSE UNCHANGED <<tries, status, phase, waiting>>
  BY Zenon DEF RecordFailure
<1>3. tries[t] \in 0..MaxAttempts /\ (StillFails(t) => tries[t] < MaxAttempts) /\ MaxAttempts \in Nat
  BY <1>0, Zenon DEF Typed, RowTyped, StillFails, Over, CommitAssumption
<1>4. StillFails(t) => tries[t] + 1 \in 0..MaxAttempts
  BY <1>3
<1>5. again \in BOOLEAN /\ (again => tries[t] + 1 < MaxAttempts)
  BY Zenon
<1>6. new = status[t] \/ (status[t] = "COMMITTING" /\ new \in Over)
  BY Zenon DEF StillFails, Over
<1> HIDE DEF again
<1>7. status' = [status EXCEPT ![t] = new] /\ new \in Statuses
  BY <1>0, <1>2, Zenon DEF Typed, RowTyped, Statuses
<1>8. ClaimTyped'
  <2>1. waiting' \in [Runs -> BOOLEAN]
    BY <1>0, <1>2, <1>5, Zenon DEF Typed, ClaimTyped
  <2> QED
    BY <1>0, <1>1, <2>1, Zenon DEF Typed, ClaimTyped
<1>9. RowTyped'
  <2>1. phase' \in [Runs -> Phases]
    BY <1>0, <1>2, Zenon DEF Typed, RowTyped, Phases
  <2>2. tries' \in [Runs -> 0..MaxAttempts]
    BY <1>0, <1>2, <1>4, Zenon DEF Typed, RowTyped
  <2>3. status' \in [Runs -> Statuses]
    BY <1>0, <1>7, Zenon DEF Typed, RowTyped
  <2>4. ASSUME NEW r \in Runs, status'[r] \notin Over PROVE tries'[r] < MaxAttempts
    <3>1. status \in [Runs -> Statuses] /\ tries \in [Runs -> 0..MaxAttempts]
          /\ (status[r] \notin Over => tries[r] < MaxAttempts)
      BY <1>0, Zenon DEF Typed, RowTyped
    <3>2. CASE r # t
      BY <1>2, <2>4, <3>1, <3>2, Zenon
    <3>3. CASE r = t
      BY <1>2, <1>5, <2>4, <3>1, <3>3, Zenon DEF Over
    <3> QED
      BY <3>2, <3>3, Zenon
  <2> QED
    BY <1>0, <1>1, <2>1, <2>2, <2>3, <2>4, Zenon DEF Typed, RowTyped
<1>10. new = "SUCCEEDED" => status[t] = new
  BY Zenon
<1> HIDE DEF new
<1> QED
  BY <1>1, <1>6, <1>7, <1>8, <1>9, <1>10, DecideStep, Zenon

-----------------------------------------------------------------------------
(* The run and its claim *)

LEMMA ClaimStep ==
    ASSUME CommitAssumption, CommitInv, NEW c \in Committers, NEW r \in Runs, ClaimCommittingRun(c, r)
    PROVE  CommitInv'
<1>0. /\ Typed /\ step[c] = "idle" /\ status[r] = "COMMITTING" /\ ~claimLive[r]
      /\ claim' = [claim EXCEPT ![r] = {c}] /\ claimLive' = [claimLive EXCEPT ![r] = TRUE]
      /\ step' = [step EXCEPT ![c] = "load"] /\ target' = [target EXCEPT ![c] = r]
      /\ UNCHANGED <<status, intent, phase, tries, waiting, mirror, manifest, state, seen, plan, cause,
                     faults, lapses>>
  BY Zenon DEF CommitInv, ClaimCommittingRun, Claimable, objectVars
<1>1. r # 0
  BY Zenon DEF CommitAssumption
<1>2. step'[c] = "load" /\ target'[c] = r /\ \A d \in Committers : d # c => Same(d)
  BY <1>0, Zenon DEF Typed, PassTyped, Same
<1>3. Typed'
  <2>1. RowTyped'
    BY <1>0, RowsSame, Zenon DEF Typed, RowTyped
  <2>2. ClaimTyped'
    BY <1>0, Zenon DEF Typed, ClaimTyped
  <2>3. ObjectTyped'
    BY <1>0, Zenon DEF Typed, ObjectTyped
  <2>4. step' \in [Committers -> Steps] /\ target' \in [Committers -> Runs \cup {0}]
    BY <1>0, Zenon DEF Typed, PassTyped, Steps
  <2>5. \A d \in Committers : target'[d] = 0 <=> step'[d] = "idle"
    BY <1>0, <1>1, <1>2, Zenon DEF Typed, PassTyped, Same
  <2>6. PassTyped'
    BY <1>0, <2>4, <2>5, Zenon DEF Typed, PassTyped
  <2> QED
    BY <2>1, <2>2, <2>3, <2>6, Zenon DEF Typed
<1>4. Serial'
  <2>1. \A d \in Committers : target'[d] # 0 => status[target'[d]] # "WAITING"
    BY <1>0, <1>2, Zenon DEF CommitInv, Serial, Same
  <2> QED
    BY <1>0, <2>1, Zenon DEF CommitInv, Serial
<1>5. Stands
  BY <1>0, Zenon DEF Stands
<1>6. Intended(state)' /\ \A s \in Runs : RunOK(s)'
  BY <1>0, Zenon DEF CommitInv, Intended, RunOK, WellFormed
<1>7. ASSUME NEW d \in Committers PROVE PassOK(d)'
  <2>1. CASE d # c
    BY <1>2, <1>5, <2>1, PassStays, Zenon
  <2>2. CASE d = c
    <3>1. Intended(seen[c])
      BY PassRow, Zenon DEF PassOK
    <3> QED
      BY <1>0, <1>2, <2>2, <3>1, Zenon DEF PassOK, Follows, Publishes, Compares, Intended
  <2> QED
    BY <2>1, <2>2, Zenon
<1>8. ASSUME lapses' = 0 PROVE Undisturbed'
  <2>1. lapses = 0 /\ Undisturbed
    BY <1>0, <1>8, Zenon DEF CommitInv
  <2>2. ASSUME NEW d \in Committers PROVE Alone(d)'
    <3>1. Alone(d)
      BY <2>1, Zenon DEF Undisturbed
    <3>2. CASE d # c
      <4>1. target[d] # r
        BY <1>0, <1>1, <3>1, Zenon DEF Alone
      <4>2. target[d] \in Runs \cup {0}
        BY <1>0, Zenon DEF Typed, PassTyped
      <4>3. target[d] # 0 => claim'[target[d]] = claim[target[d]] /\ claimLive'[target[d]] = claimLive[target[d]]
        BY <1>0, <4>1, <4>2, Zenon DEF Typed, ClaimTyped
      <4> QED
        BY <1>0, <1>2, <3>1, <3>2, <4>3, AloneStays, Zenon
    <3>3. CASE d = c
      <4>1. claim'[r] = {c} /\ claimLive'[r]
        BY <1>0, Zenon DEF Typed, ClaimTyped
      <4> QED
        BY <1>0, <1>2, <3>3, <4>1, Zenon DEF Alone, Verified
    <3> QED
      BY <3>2, <3>3, Zenon
  <2>3. \A s \in Runs : Current(s)'
    BY <1>0, <2>1, Zenon DEF Undisturbed, Current
  <2> QED
    BY <2>2, <2>3, Zenon DEF Undisturbed
<1> QED
  BY <1>3, <1>4, <1>6, <1>7, <1>8, Zenon DEF CommitInv

LEMMA ReleaseStep ==
    ASSUME CommitAssumption, CommitInv, NEW c \in Committers, ReleaseCommitClaim(c)
    PROVE  CommitInv'
<1> DEFINE t == target[c]
<1>0. /\ Typed /\ step[c] = "release" /\ t \in Runs
      /\ step' = [step EXCEPT ![c] = "idle"]
      /\ claim' = [claim EXCEPT ![t] = claim[t] \ {c}]
      /\ target' = [target EXCEPT ![c] = 0]
      /\ seen' = [seen EXCEPT ![c] = NoState]
      /\ plan' = [plan EXCEPT ![c] = NoIntent]
      /\ cause' = [cause EXCEPT ![c] = ""]
      /\ UNCHANGED <<status, intent, phase, tries, waiting, mirror, manifest, state, lapses>>
  BY PassRow, Zenon DEF CommitInv, ReleaseCommitClaim, objectVars
<1>1. Faulted /\ claimLive' \in [Runs -> BOOLEAN] /\ \A r \in Runs : r # t => claimLive'[r] = claimLive[r]
  <2>1. claimLive \in [Runs -> BOOLEAN]
    BY <1>0, Zenon DEF Typed, ClaimTyped
  <2>2. CASE /\ claimLive' = [claimLive EXCEPT ![t] = claimLive[t] /\ c \notin claim[t]]
             /\ UNCHANGED faults
    BY <1>0, <2>1, <2>2, Zenon DEF Faulted
  <2>3. CASE faults < MaxFaults /\ faults' = faults + 1 /\ UNCHANGED claimLive
    BY <2>1, <2>3, Zenon DEF Faulted
  <2> QED
    BY <2>2, <2>3, Zenon DEF ReleaseCommitClaim
<1>2. /\ step'[c] = "idle" /\ target'[c] = 0 /\ seen'[c] = NoState /\ plan'[c] = NoIntent
      /\ \A d \in Committers : d # c => Same(d)
  BY <1>0, Zenon DEF Typed, PassTyped, Same
<1>3. Typed'
  <2>1. RowTyped'
    BY <1>0, RowsSame, Zenon DEF Typed, RowTyped
  <2>2. ClaimTyped'
    BY <1>0, <1>1, Zenon DEF Typed, ClaimTyped
  <2>3. faults' \in 0..MaxFaults
    BY <1>0, <1>1, FaultTyped, Zenon DEF Typed, ObjectTyped
  <2>4. ObjectTyped'
    BY <1>0, <2>3, Zenon DEF Typed, ObjectTyped
  <2>5. step' \in [Committers -> Steps] /\ target' \in [Committers -> Runs \cup {0}]
    BY <1>0, Zenon DEF Typed, PassTyped, Steps
  <2>6. seen' \in [Committers -> States] /\ plan' \in [Committers -> Intents]
    BY <1>0, NoneTyped, Zenon DEF Typed, PassTyped
  <2>7. cause' \in [Committers -> Causes]
    BY <1>0, Zenon DEF Typed, PassTyped, Causes
  <2>8. \A d \in Committers : target'[d] = 0 <=> step'[d] = "idle"
    BY <1>0, <1>2, Zenon DEF Typed, PassTyped, Same
  <2> QED
    BY <2>1, <2>2, <2>4, <2>5, <2>6, <2>7, <2>8, Zenon DEF Typed, PassTyped
<1>4. Serial'
  <2>1. \A d \in Committers : target'[d] # 0 => status[target'[d]] # "WAITING"
    BY <1>2, Zenon DEF CommitInv, Serial, Same
  <2> QED
    BY <1>0, <2>1, Zenon DEF CommitInv, Serial
<1>5. Stands
  BY <1>0, Zenon DEF Stands
<1>6. Intended(state)' /\ \A s \in Runs : RunOK(s)'
  BY <1>0, Zenon DEF CommitInv, Intended, RunOK, WellFormed
<1>7. ASSUME NEW d \in Committers PROVE PassOK(d)'
  <2>1. CASE d # c
    BY <1>2, <1>5, <2>1, PassStays, Zenon
  <2>2. CASE d = c
    BY <1>2, <2>2 DEF PassOK, Follows, Publishes, Compares, Intended, NoState
  <2> QED
    BY <2>1, <2>2, Zenon
<1>8. ASSUME lapses' = 0 PROVE Undisturbed'
  <2>1. lapses = 0 /\ Undisturbed
    BY <1>0, <1>8, Zenon DEF CommitInv
  <2>2. ASSUME NEW d \in Committers PROVE Alone(d)'
    <3>1. Alone(d)
      BY <2>1, Zenon DEF Undisturbed
    <3>2. CASE d # c
      <4>1. target[d] # t
        BY <1>0, <2>1, <3>2, OnlyPass, Zenon
      <4>2. target[d] \in Runs \cup {0}
        BY <1>0, Zenon DEF Typed, PassTyped
      <4>3. target[d] # 0 => claim'[target[d]] = claim[target[d]] /\ claimLive'[target[d]] = claimLive[target[d]]
        BY <1>0, <1>1, <4>1, <4>2, Zenon DEF Typed, ClaimTyped
      <4> QED
        BY <1>0, <1>2, <3>1, <3>2, <4>3, AloneStays, Zenon
    <3>3. CASE d = c
      BY <1>2, <3>3, Zenon DEF Alone, Verified, Ended
    <3> QED
      BY <3>2, <3>3, Zenon
  <2>3. \A s \in Runs : Current(s)'
    BY <1>0, <2>1, Zenon DEF Undisturbed, Current
  <2> QED
    BY <2>2, <2>3, Zenon DEF Undisturbed
<1> QED
  BY <1>3, <1>4, <1>6, <1>7, <1>8, Zenon DEF CommitInv

\* A run begins to commit when those before it are over.
LEMMA BeginStep ==
    ASSUME CommitAssumption, CommitInv, NEW r \in Runs, BeginCommit(r)
    PROVE  CommitInv'
<1>0. /\ Typed /\ status[r] = "WAITING" /\ (\A s \in Runs : s < r => status[s] \in Over)
      /\ status' = [status EXCEPT ![r] = "COMMITTING"]
      /\ phase' = [phase EXCEPT ![r] = "PREPARING"]
      /\ UNCHANGED <<intent, tries, waiting, claim, claimLive, mirror, manifest, state, step, target, seen,
                     plan, cause, faults, lapses>>
  BY Zenon DEF CommitInv, BeginCommit, objectVars, passVars, Over
<1>1. status'[r] = "COMMITTING" /\ \A s \in Runs : s # r => status'[s] = status[s]
  BY <1>0, Zenon DEF Typed, RowTyped
<1>2. Typed'
  <2>1. status' \in [Runs -> Statuses] /\ phase' \in [Runs -> Phases]
    BY <1>0, Zenon DEF Typed, RowTyped, Statuses, Phases
  <2>2. \A s \in Runs : status'[s] \notin Over => status[s] \notin Over
    BY <1>0, <1>1, Zenon DEF Over
  <2>3. RowTyped'
    BY <1>0, <2>1, <2>2, Zenon DEF Typed, RowTyped
  <2>4. ClaimTyped' /\ ObjectTyped'
    BY <1>0, Zenon DEF Typed, ClaimTyped, ObjectTyped
  <2>5. PassTyped'
    BY <1>0, Zenon DEF Typed, PassTyped
  <2> QED
    BY <2>3, <2>4, <2>5, Zenon DEF Typed
<1>3. \A c \in Committers : target[c] # r \/ target[c] = 0
  BY <1>0, Zenon DEF CommitInv, Serial
<1>4. Serial'
  <2>1. ASSUME NEW q \in Runs, NEW s \in Runs, s < q, status'[q] # "WAITING" PROVE status'[s] \in Over
    <3>1. q \in Nat /\ s \in Nat /\ r \in Nat
      BY Zenon DEF CommitAssumption
    <3>2. CASE q = r
      BY <1>0, <1>1, <2>1, <3>1, <3>2
    <3>3. CASE q # r
      <4>1. status[s] \in Over
        BY <1>1, <2>1, <3>3, Zenon DEF CommitInv, Serial
      <4> QED
        BY <1>0, <1>1, <4>1, Zenon DEF Over
    <3> QED
      BY <3>2, <3>3, Zenon
  <2>2. \A s \in Runs : status'[s] = "WAITING" => ~HasIntent(intent[s])
    BY <1>1, Zenon DEF CommitInv, Serial
  <2>3. \A c \in Committers : target[c] # 0 => status'[target[c]] # "WAITING"
    BY <1>0, <1>1, <1>3, Zenon DEF CommitInv, Serial, Typed, PassTyped
  <2> QED
    BY <1>0, <2>1, <2>2, <2>3, Zenon DEF Serial
<1>5. Intended(state)' /\ (\A c \in Committers : PassOK(c)')
  <2>1. Stands /\ \A c \in Committers : Same(c)
    BY <1>0, Zenon DEF Stands, Same
  <2> QED
    BY <1>0, <2>1, PassStays, Zenon DEF CommitInv, Intended
<1>6. ASSUME NEW s \in Runs PROVE RunOK(s)'
  <2>1. RunOK(s) /\ (status'[s] = "SUCCEEDED" => status[s] = "SUCCEEDED")
    BY <1>1, Zenon DEF CommitInv
  <2> QED
    BY <1>0, <2>1, Zenon DEF RunOK, WellFormed
<1>7. ASSUME lapses' = 0 PROVE Undisturbed'
  <2>1. lapses = 0 /\ Undisturbed
    BY <1>0, <1>7, Zenon DEF CommitInv
  <2>2. ASSUME NEW c \in Committers PROVE Alone(c)'
    <3>1. Alone(c) /\ (step[c] \notin Ended => target[c] \in Runs)
      BY <2>1, PassRow, Zenon DEF Undisturbed, Ended
    <3>2. step[c] \notin Ended => status'[target[c]] = status[target[c]]
      BY <1>1, <1>3, <3>1, Zenon DEF CommitAssumption
    <3> QED
      BY <1>0, <3>1, <3>2, AloneStays, Zenon DEF Same
  <2>3. ASSUME NEW s \in Runs PROVE Current(s)'
    <3>1. Current(s) /\ ~HasIntent(intent[r])
      BY <1>0, <2>1, Zenon DEF Undisturbed, CommitInv, Serial
    <3> QED
      BY <1>0, <1>1, <3>1, Zenon DEF Current
  <2> QED
    BY <2>2, <2>3, Zenon DEF Undisturbed
<1> QED
  BY <1>2, <1>4, <1>5, <1>6, <1>7, Zenon DEF CommitInv

LEMMA TimeStep ==
    ASSUME CommitAssumption, CommitInv, NEW r \in Runs, BackoffOver(r) \/ ClaimLapses(r)
    PROVE  CommitInv'
<1>0. /\ Typed
      /\ UNCHANGED <<status, intent, phase, tries, claim, mirror, manifest, state, step, target, seen,
                     plan, cause, faults>>
  BY Zenon DEF CommitInv, BackoffOver, ClaimLapses, objectVars, passVars
<1>1. /\ waiting' \in [Runs -> BOOLEAN] /\ claimLive' \in [Runs -> BOOLEAN]
      /\ \A s \in Runs : s # r => claimLive'[s] = claimLive[s]
      /\ lapses' = 0 => lapses = 0 /\ (claimLive'[r] = claimLive[r] \/ claim[r] = {})
      /\ lapses' \in 0..MaxLapses
  <2>1. lapses \in 0..MaxLapses /\ MaxLapses \in Nat /\ waiting \in [Runs -> BOOLEAN]
        /\ claimLive \in [Runs -> BOOLEAN]
    BY <1>0, Zenon DEF Typed, ObjectTyped, ClaimTyped, CommitAssumption
  <2>2. CASE BackoffOver(r)
    BY <2>1, <2>2, Zenon DEF BackoffOver
  <2>3. CASE ClaimLapses(r)
    <3>1. claimLive' = [claimLive EXCEPT ![r] = FALSE] /\ waiting' = waiting
      BY <2>3, Zenon DEF ClaimLapses
    <3>2. \/ claim[r] = {} /\ lapses' = lapses
          \/ lapses < MaxLapses /\ lapses' = lapses + 1
      BY <2>3, Zenon DEF ClaimLapses
    <3>3. lapses' \in 0..MaxLapses /\ (lapses' = 0 => lapses = 0 /\ claim[r] = {})
      BY <2>1, <3>2
    <3> QED
      BY <2>1, <3>1, <3>3, Zenon
  <2> QED
    BY <2>2, <2>3, Zenon
<1>2. Typed'
  <2>1. RowTyped'
    BY <1>0, RowsSame, Zenon DEF Typed, RowTyped
  <2>2. ClaimTyped' /\ ObjectTyped'
    BY <1>0, <1>1, Zenon DEF Typed, ClaimTyped, ObjectTyped
  <2>3. PassTyped'
    BY <1>0, Zenon DEF Typed, PassTyped
  <2> QED
    BY <2>1, <2>2, <2>3, Zenon DEF Typed
<1>3. Serial' /\ Intended(state)'
  BY <1>0, Zenon DEF CommitInv, Serial, Intended
<1>4. \A s \in Runs : RunOK(s)'
  BY <1>0, Zenon DEF CommitInv, RunOK, WellFormed
<1>5. \A c \in Committers : Same(c) /\ PassOK(c)'
  <2>1. Stands /\ \A c \in Committers : Same(c)
    BY <1>0, Zenon DEF Stands, Same
  <2> QED
    BY <2>1, PassStays, Zenon
<1>6. ASSUME lapses' = 0 PROVE Undisturbed'
  <2>1. lapses = 0 /\ Undisturbed /\ (claimLive'[r] = claimLive[r] \/ claim[r] = {})
    BY <1>1, <1>6, Zenon DEF CommitInv
  <2>2. ASSUME NEW c \in Committers PROVE Alone(c)'
    <3>1. Alone(c) /\ target[c] \in Runs \cup {0}
      BY <1>0, <2>1, Zenon DEF Undisturbed, Typed, PassTyped
    <3>2. target[c] # 0 => claimLive'[target[c]] = claimLive[target[c]]
      BY <1>1, <2>1, <3>1, Zenon DEF Alone
    <3> QED
      BY <1>0, <1>5, <3>1, <3>2, AloneStays, Zenon
  <2>3. \A s \in Runs : Current(s)'
    BY <1>0, <2>1, Zenon DEF Undisturbed, Current
  <2> QED
    BY <2>2, <2>3, Zenon DEF Undisturbed
<1> QED
  BY <1>2, <1>3, <1>4, <1>5, <1>6, Zenon DEF CommitInv

LEMMA StopStep ==
    ASSUME CommitAssumption, CommitInv, MasterStops
    PROVE  CommitInv'
<1>0. /\ Typed /\ Faulted
      /\ step' = [c \in Committers |-> "idle"] /\ target' = [c \in Committers |-> 0]
      /\ seen' = [c \in Committers |-> NoState] /\ plan' = [c \in Committers |-> NoIntent]
      /\ cause' = [c \in Committers |-> ""] /\ claim' = [r \in Runs |-> {}]
      /\ UNCHANGED <<status, intent, phase, tries, waiting, claimLive, mirror, manifest, state, lapses>>
  BY Zenon DEF CommitInv, MasterStops, objectVars, Faulted
<1>1. Typed'
  <2>1. RowTyped'
    BY <1>0, RowsSame, Zenon DEF Typed, RowTyped
  <2>2. ClaimTyped'
    BY <1>0, Zenon DEF Typed, ClaimTyped
  <2>3. faults' \in 0..MaxFaults
    BY <1>0, FaultTyped, Zenon DEF Typed, ObjectTyped
  <2>4. ObjectTyped'
    BY <1>0, <2>3, Zenon DEF Typed, ObjectTyped
  <2>5. PassTyped'
    BY <1>0, NoneTyped, Zenon DEF PassTyped, Steps, Causes
  <2> QED
    BY <2>1, <2>2, <2>4, <2>5, Zenon DEF Typed
<1>2. Serial' /\ Intended(state)'
  BY <1>0, Zenon DEF CommitInv, Serial, Intended
<1>3. \A s \in Runs : RunOK(s)'
  BY <1>0, Zenon DEF CommitInv, RunOK, WellFormed
<1>4. ASSUME NEW c \in Committers PROVE PassOK(c)' /\ Alone(c)'
  <2>1. step'[c] = "idle" /\ target'[c] = 0 /\ seen'[c] = NoState /\ plan'[c] = NoIntent
    BY <1>0, Zenon
  <2>2. PassOK(c)'
    BY <2>1 DEF PassOK, Follows, Publishes, Compares, Intended, NoState
  <2>3. Alone(c)'
    BY <2>1, Zenon DEF Alone, Verified, Ended
  <2> QED
    BY <2>2, <2>3, Zenon
<1>5. ASSUME lapses' = 0 PROVE \A s \in Runs : Current(s)'
  BY <1>0, <1>5, Zenon DEF CommitInv, Undisturbed, Current
<1> QED
  BY <1>1, <1>2, <1>3, <1>4, <1>5, Zenon DEF CommitInv, Undisturbed

LEMMA CommitInit == ASSUME CommitAssumption, Init PROVE CommitInv
<1>0. /\ status = [r \in Runs |-> "WAITING"] /\ intent = [r \in Runs |-> NoIntent]
      /\ manifest = [r \in Runs |-> NoState] /\ state = NoState
      /\ step = [c \in Committers |-> "idle"] /\ target = [c \in Committers |-> 0]
      /\ seen = [c \in Committers |-> NoState] /\ plan = [c \in Committers |-> NoIntent]
  BY Zenon DEF Init
<1>1. Typed
  BY TypedInit, Zenon
<1>2. ~HasIntent(NoIntent) /\ NoState.run = 0
  BY Zenon DEF HasIntent, NoIntent, NoState
<1>3. Serial /\ Intended(state)
  BY <1>0, <1>2, Zenon DEF Serial, Intended
<1>4. \A r \in Runs : RunOK(r) /\ Current(r)
  BY <1>0, <1>2, Zenon DEF RunOK, Current
<1>5. \A c \in Committers : PassOK(c) /\ Alone(c)
  BY <1>0, <1>2, Zenon DEF PassOK, Alone, Follows, Publishes, Compares, Verified, Ended, Intended
<1> QED
  BY <1>1, <1>3, <1>4, <1>5, Zenon DEF CommitInv, Undisturbed

LEMMA CommitUnchanged == ASSUME CommitInv, UNCHANGED vars PROVE CommitInv'
<1>0. UNCHANGED <<status, intent, phase, tries, waiting, claim, claimLive, mirror, manifest, state, step,
                  target, seen, plan, cause, faults, lapses>>
  BY Zenon DEF vars, rowVars, objectVars, passVars
<1>1. Typed'
  BY <1>0, Zenon DEF CommitInv, Typed, RowTyped, ClaimTyped, ObjectTyped, PassTyped
<1>2. Serial' /\ Intended(state)'
  BY <1>0, Zenon DEF CommitInv, Serial, Intended
<1>3. \A s \in Runs : RunOK(s)'
  BY <1>0, Zenon DEF CommitInv, RunOK, WellFormed
<1>4. \A c \in Committers : PassOK(c)'
  BY <1>0, Zenon DEF CommitInv, PassOK, WellFormed, Intended
<1>5. lapses' = 0 => Undisturbed'
  BY <1>0, Zenon DEF CommitInv, Undisturbed, Alone, Current
<1> QED
  BY <1>1, <1>2, <1>3, <1>4, <1>5, Zenon DEF CommitInv

LEMMA CommitStep == ASSUME CommitAssumption, CommitInv, [Next]_vars PROVE CommitInv'
<1>1. ASSUME NEW r \in Runs, BeginCommit(r) \/ BackoffOver(r) \/ ClaimLapses(r) PROVE CommitInv'
  BY <1>1, BeginStep, TimeStep, Zenon
<1>2. ASSUME NEW c \in Committers, Pass(c) PROVE CommitInv'
  BY <1>2, LoadStep, VerifyStep, ReadStep, RereadStep, SaveStep, ManifestStep, PutStep, MarkManifestStep,
     CheckStateStep, MarkStateStep, MirrorStep, CompleteStep, FailureStep, ReleaseStep, Zenon DEF Pass
<1>3. ASSUME NEW c \in Committers, NEW r \in Runs, ClaimCommittingRun(c, r) PROVE CommitInv'
  BY <1>3, ClaimStep, Zenon
<1>4. ASSUME NEW c \in Committers,
             RejectArtifacts(c) \/ RereadFails(c) \/ CallFails(c) \/ Interrupted(c)
      PROVE  CommitInv'
  BY <1>4, VerifyStep, RereadStep, CallFailsStep, InterruptStep, Zenon
<1>5. CASE MasterStops
  BY <1>5, StopStep, Zenon
<1>6. CASE AllOver \/ UNCHANGED vars
  BY <1>6, CommitUnchanged, Zenon DEF AllOver
<1> QED
  BY <1>1, <1>2, <1>3, <1>4, <1>5, <1>6, Zenon DEF Next

LEMMA CommitHolds == ASSUME CommitAssumption PROVE Spec => []CommitInv
<1>1. Init => CommitInv
  BY CommitInit, Zenon
<1>2. CommitInv /\ [Next]_vars => CommitInv'
  BY CommitStep, Zenon
<1> QED
  BY <1>1, <1>2, PTL DEF Spec

-----------------------------------------------------------------------------
(* The theorems *)

\* A run is SUCCEEDED (CompleteRunCommit) only with its intent persisted and its
\* manifest published as planned, whatever claims lapse and however often passes
\* fail, stop and begin again; while no claim lapses under a live committer, the
\* state and the mirror are its own or those of a later run.
THEOREM SuccessStaysDurable == ASSUME CommitAssumption PROVE Spec => []SuccessIsDurable
<1>1. CommitInv => SuccessIsDurable
  BY Zenon DEF CommitInv, RunOK, Undisturbed, Current, SuccessIsDurable
<1> QED
  BY <1>1, CommitHolds, PTL

\* ClaimCommittingRun and the deferred release leave at most one committer on a
\* run while no claim lapses under a live one.
THEOREM ClaimsExclude == ASSUME CommitAssumption PROVE Spec => []OneCommitter
<1>1. CommitInv => OneCommitter
  <2> SUFFICES ASSUME CommitInv, lapses = 0, NEW c \in Committers, NEW d \in Committers,
                      c # d, target[c] = target[d], target[c] # 0
               PROVE  FALSE
    BY Zenon DEF OneCommitter
  <2>1. Alone(c) /\ Alone(d)
    BY Zenon DEF CommitInv, Undisturbed
  <2> QED
    BY <2>1 DEF Alone
<1> QED
  BY <1>1, CommitHolds, PTL

\* A pass of commitRun that finds the state its run wrote never fails the run
\* with a conflict, even when passes overlap after a claim lapsed.
THEOREM OwnStateNeverConflicts == ASSUME CommitAssumption PROVE Spec => []OwnStateIsNoConflict
<1>1. CommitInv => OwnStateIsNoConflict
  BY Zenon DEF CommitInv, PassOK, OwnStateIsNoConflict
<1> QED
  BY <1>1, CommitHolds, PTL

\* The status of a run is decided once.
LEMMA DecisionsStand ==
    ASSUME CommitInv, [Next]_vars, NEW r \in Runs, status[r] \in {"SUCCEEDED", "FAILED"}
    PROVE  status'[r] = status[r]
<1>0. status \in [Runs -> Statuses]
  BY Zenon DEF CommitInv, Typed, RowTyped
<1>1. ASSUME NEW s \in Runs, BeginCommit(s) \/ BackoffOver(s) \/ ClaimLapses(s) PROVE status'[r] = status[r]
  BY <1>0, <1>1, Zenon DEF BeginCommit, BackoffOver, ClaimLapses
<1>2. ASSUME NEW c \in Committers, CompleteRunCommit(c) PROVE status'[r] = status[r]
  BY <1>0, <1>2, Zenon DEF CompleteRunCommit, Completable
<1>3. ASSUME NEW c \in Committers, RecordFailure(c) PROVE status'[r] = status[r]
  BY <1>0, <1>3, Zenon DEF RecordFailure, StillFails
<1>4. ASSUME NEW c \in Committers,
             \/ LoadRun(c) \/ VerifyArtifacts(c) \/ ReadState(c) \/ RereadRun(c) \/ GetManifest(c)
             \/ PutManifest(c) \/ CheckManifest(c) \/ PutState(c) \/ CheckState(c)
             \/ RejectArtifacts(c) \/ RereadFails(c) \/ CallFails(c) \/ Interrupted(c)
      PROVE  UNCHANGED status
  <2>1. UNCHANGED rowVars
    BY <1>4, Zenon DEF LoadRun, VerifyArtifacts, ReadState, RereadRun, GetManifest, PutManifest, CheckManifest,
                       PutState, CheckState, RejectArtifacts, RereadFails, CallFails, Interrupted
  <2> QED
    BY <2>1, Zenon DEF rowVars
<1>5. ASSUME NEW c \in Committers,
             SaveCommitIntent(c) \/ UpsertHWM(c) \/ ReleaseCommitClaim(c)
             \/ (\E s \in Runs : ClaimCommittingRun(c, s))
      PROVE  UNCHANGED status
  BY <1>5, Zenon DEF SaveCommitIntent, UpsertHWM, ReleaseCommitClaim, ClaimCommittingRun
<1>6. ASSUME NEW c \in Committers, MarkManifest(c) \/ MarkState(c) \/ MarkVerified(c) PROVE UNCHANGED status
  BY <1>6, Zenon DEF MarkManifest, MarkState, MarkVerified, TrySetCommitPhase, SetCommitPhase, rowVars
<1>7. MasterStops \/ AllOver \/ UNCHANGED vars => UNCHANGED status
  BY Zenon DEF MasterStops, AllOver, vars, rowVars
<1> QED
  BY <1>1, <1>2, <1>3, <1>4, <1>5, <1>6, <1>7, Zenon DEF Next, Pass

\* Only SaveCommitIntent writes an intent, where there is none.
LEMMA IntentsStand ==
    ASSUME CommitInv, [Next]_vars, NEW r \in Runs, HasIntent(intent[r])
    PROVE  intent'[r] = intent[r]
<1>0. intent \in [Runs -> Intents]
  BY Zenon DEF CommitInv, Typed, RowTyped
<1>1. ASSUME NEW s \in Runs, BeginCommit(s) \/ BackoffOver(s) \/ ClaimLapses(s) PROVE UNCHANGED intent
  BY <1>1, Zenon DEF BeginCommit, BackoffOver, ClaimLapses
<1>2. ASSUME NEW c \in Committers, SaveCommitIntent(c) PROVE intent'[r] = intent[r]
  BY <1>0, <1>2, Zenon DEF SaveCommitIntent, Saveable
<1>3. ASSUME NEW c \in Committers,
             \/ LoadRun(c) \/ VerifyArtifacts(c) \/ ReadState(c) \/ RereadRun(c) \/ GetManifest(c)
             \/ PutManifest(c) \/ CheckManifest(c) \/ PutState(c) \/ CheckState(c)
             \/ RejectArtifacts(c) \/ RereadFails(c) \/ CallFails(c) \/ Interrupted(c)
      PROVE  UNCHANGED intent
  <2>1. UNCHANGED rowVars
    BY <1>3, Zenon DEF LoadRun, VerifyArtifacts, ReadState, RereadRun, GetManifest, PutManifest, CheckManifest,
                       PutState, CheckState, RejectArtifacts, RereadFails, CallFails, Interrupted
  <2> QED
    BY <2>1, Zenon DEF rowVars
<1>4. ASSUME NEW c \in Committers,
             \/ CompleteRunCommit(c) \/ RecordFailure(c) \/ UpsertHWM(c) \/ ReleaseCommitClaim(c)
             \/ (\E s \in Runs : ClaimCommittingRun(c, s))
      PROVE  UNCHANGED intent
  BY <1>4, Zenon DEF CompleteRunCommit, RecordFailure, UpsertHWM, ReleaseCommitClaim, ClaimCommittingRun
<1>5. ASSUME NEW c \in Committers, MarkManifest(c) \/ MarkState(c) \/ MarkVerified(c) PROVE UNCHANGED intent
  BY <1>5, Zenon DEF MarkManifest, MarkState, MarkVerified, TrySetCommitPhase, SetCommitPhase, rowVars
<1>6. MasterStops \/ AllOver \/ UNCHANGED vars => UNCHANGED intent
  BY Zenon DEF MasterStops, AllOver, vars, rowVars
<1> QED
  BY <1>1, <1>2, <1>3, <1>4, <1>5, <1>6, Zenon DEF Next, Pass

\* Who writes the objects.
LEMMA ObjectsWritten ==
    ASSUME [Next]_vars
    PROVE  \/ UNCHANGED <<manifest, state>>
           \/ \E c \in Committers : /\ step[c] = "put" /\ UNCHANGED state
                                    /\ manifest' = [manifest EXCEPT ![target[c]] = plan[c].next]
           \/ \E c \in Committers : /\ step[c] = "putState" /\ UNCHANGED <<manifest, lapses>>
                                    /\ state' = plan[c].next
<1> DEFINE Written ==
        \/ UNCHANGED <<manifest, state>>
        \/ \E c \in Committers : /\ step[c] = "put" /\ UNCHANGED state
                                 /\ manifest' = [manifest EXCEPT ![target[c]] = plan[c].next]
        \/ \E c \in Committers : /\ step[c] = "putState" /\ UNCHANGED <<manifest, lapses>>
                                 /\ state' = plan[c].next
<1>0. UNCHANGED objectVars => Written
  BY Zenon DEF objectVars
<1>1. ASSUME NEW c \in Committers, PutManifest(c) \/ PutState(c) PROVE Written
  BY <1>1, Zenon DEF PutManifest, PutState
<1>2. ASSUME NEW c \in Committers, CallFails(c) PROVE Written
  BY <1>0, <1>2, Zenon DEF CallFails
<1> HIDE DEF Written
<1>3. ASSUME NEW s \in Runs, BeginCommit(s) \/ BackoffOver(s) \/ ClaimLapses(s) PROVE UNCHANGED objectVars
  BY <1>3, Zenon DEF BeginCommit, BackoffOver, ClaimLapses
<1>4. ASSUME NEW c \in Committers,
             \/ LoadRun(c) \/ VerifyArtifacts(c) \/ ReadState(c) \/ RereadRun(c) \/ SaveCommitIntent(c)
             \/ GetManifest(c) \/ CheckManifest(c) \/ CheckState(c) \/ MarkManifest(c) \/ MarkState(c)
             \/ MarkVerified(c)
      PROVE  UNCHANGED objectVars
  BY <1>4, Zenon DEF LoadRun, VerifyArtifacts, ReadState, RereadRun, SaveCommitIntent, GetManifest, CheckManifest,
                     CheckState, MarkManifest, MarkState, MarkVerified
<1>5. ASSUME NEW c \in Committers,
             \/ CompleteRunCommit(c) \/ RecordFailure(c) \/ UpsertHWM(c) \/ ReleaseCommitClaim(c)
             \/ RejectArtifacts(c) \/ RereadFails(c) \/ Interrupted(c)
             \/ (\E s \in Runs : ClaimCommittingRun(c, s))
      PROVE  UNCHANGED objectVars
  BY <1>5, Zenon DEF CompleteRunCommit, RecordFailure, UpsertHWM, ReleaseCommitClaim, RejectArtifacts,
                     RereadFails, Interrupted, ClaimCommittingRun
<1>6. MasterStops \/ AllOver \/ UNCHANGED vars => UNCHANGED objectVars
  BY Zenon DEF MasterStops, AllOver, vars
<1>7. Written
  BY <1>0, <1>1, <1>2, <1>3, <1>4, <1>5, <1>6, Zenon DEF Next, Pass
<1> QED
  BY <1>7, Zenon DEF Written

\* Time does not run backwards.
LEMMA LapsesCount == ASSUME CommitInv, CommitInv', [Next]_vars, lapses' = 0 PROVE lapses = 0
<1>0. lapses \in Nat
  BY DEF CommitInv, Typed, ObjectTyped
<1>1. ASSUME NEW s \in Runs, ClaimLapses(s) PROVE lapses = 0
  BY <1>0, <1>1 DEF ClaimLapses
<1>2. ASSUME NEW s \in Runs, BeginCommit(s) \/ BackoffOver(s) PROVE UNCHANGED lapses
  BY <1>2, Zenon DEF BeginCommit, BackoffOver
<1>3. ASSUME NEW c \in Committers,
             \/ LoadRun(c) \/ VerifyArtifacts(c) \/ ReadState(c) \/ RereadRun(c) \/ SaveCommitIntent(c)
             \/ GetManifest(c) \/ PutManifest(c) \/ CheckManifest(c) \/ CheckState(c) \/ MarkManifest(c)
             \/ PutState(c) \/ MarkState(c) \/ MarkVerified(c)
      PROVE  UNCHANGED lapses
  BY <1>3, Zenon DEF LoadRun, VerifyArtifacts, ReadState, RereadRun, SaveCommitIntent, GetManifest, PutManifest,
                     CheckManifest, CheckState, MarkManifest, PutState, MarkState, MarkVerified
<1>4. ASSUME NEW c \in Committers,
             \/ CompleteRunCommit(c) \/ RecordFailure(c) \/ UpsertHWM(c) \/ ReleaseCommitClaim(c)
             \/ RejectArtifacts(c) \/ RereadFails(c) \/ CallFails(c) \/ Interrupted(c)
             \/ (\E s \in Runs : ClaimCommittingRun(c, s))
      PROVE  UNCHANGED lapses
  BY <1>4, Zenon DEF CompleteRunCommit, RecordFailure, UpsertHWM, ReleaseCommitClaim, RejectArtifacts,
                     RereadFails, CallFails, Interrupted, ClaimCommittingRun
<1>5. MasterStops \/ AllOver \/ UNCHANGED vars => UNCHANGED lapses
  BY Zenon DEF MasterStops, AllOver, vars
<1> QED
  BY <1>1, <1>2, <1>3, <1>4, <1>5, Zenon DEF Next, Pass

\* What is over and what is published stands: a late pass changes no run that is
\* decided, replaces no intent and no manifest, and moves _state.json to later
\* runs and larger marks only, while no claim lapses under a live committer.
THEOREM PublicationsStand == ASSUME CommitAssumption PROVE Spec => [][PublicationStands]_vars
<1>1. CommitInv /\ [Next]_vars => PublicationStands
  <2> SUFFICES ASSUME CommitInv, [Next]_vars PROVE PublicationStands
    BY Zenon
  <2>1. \A r \in Runs : /\ status[r] \in {"SUCCEEDED", "FAILED"} => status'[r] = status[r]
                        /\ HasIntent(intent[r]) => intent'[r] = intent[r]
    BY DecisionsStand, IntentsStand, Zenon
  <2>2. ASSUME NEW r \in Runs, manifest[r] # NoState PROVE manifest'[r] = manifest[r]
    <3>1. CASE UNCHANGED manifest
      BY <3>1, Zenon
    <3>2. ASSUME NEW c \in Committers, step[c] = "put",
                 manifest' = [manifest EXCEPT ![target[c]] = plan[c].next]
          PROVE  manifest'[r] = manifest[r]
      <4>1. manifest[target[c]] # NoState => manifest[target[c]] = plan[c].next
        BY <3>2, FollowsIntent, Zenon DEF Follows
      <4>2. manifest \in [Runs -> States]
        BY Zenon DEF CommitInv, Typed, ObjectTyped
      <4> QED
        BY <2>2, <3>2, <4>1, <4>2, Zenon
    <3> QED
      BY <3>1, <3>2, ObjectsWritten, Zenon
  <2>3. ASSUME lapses' = 0 PROVE StateForward
    <3>1. lapses = 0
      BY <2>3, CommitStep, LapsesCount, Zenon
    <3>2. state.run \in Nat /\ state.hwm \in Nat
      <4>1. state \in States
        BY Zenon DEF CommitInv, Typed, ObjectTyped
      <4>2. ASSUME NEW r \in Runs PROVE state.run \in Nat /\ state.hwm \in Nat
        BY <4>1, MarkTyped, Zenon
      <4>3. CASE Runs = {}
        BY <4>1, <4>3 DEF States
      <4> QED
        BY <4>2, <4>3, Zenon
    <3>3. CASE UNCHANGED state
      BY <3>2, <3>3 DEF StateForward
    <3>4. ASSUME NEW c \in Committers, step[c] = "putState", state' = plan[c].next PROVE StateForward
      BY <3>1, <3>4, Forward, Zenon DEF StateForward
    <3> QED
      BY <3>3, <3>4, ObjectsWritten, Zenon
  <2> QED
    BY <2>1, <2>2, <2>3, Zenon DEF PublicationStands
<1> QED
  BY <1>1, CommitHolds, PTL DEF Spec
=============================================================================
