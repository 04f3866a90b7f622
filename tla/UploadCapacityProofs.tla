------------------------ MODULE UploadCapacityProofs ------------------------
(***************************************************************************)
(* The bound on concurrent uploads holds for any number of attempts, any   *)
(* limit and any number of lost, late and repeated calls.                  *)
(*                                                                         *)
(* The workers are compared with the rows of the master: an upload within  *)
(* the deadline its worker knows has a live slot.  This survives a late    *)
(* renewal because a grant is released only after its upload is over, so   *)
(* a slot whose deadline lies ahead belongs to the upload or is ACTIVE.    *)
(***************************************************************************)
EXTENDS UploadCapacity, FiniteSetTheorems, TLAPS

Slot == [status : {"NONE", "ACTIVE", "RELEASED", "EXPIRED"}, token : Nat, live : BOOLEAN]

BeforeRelease == {"writing", "waiting", "uploading"}

\* A deadline lies ahead only for a slot that was given and not reclaimed, and
\* a slot is not released before its upload is over.
SlotsInUse ==
    \A a \in Attempts :
        /\ row[a].live => row[a].status \in {"ACTIVE", "RELEASED"}
        /\ wk[a] \in BeforeRelease => row[a].status # "RELEASED"
        /\ wk[a] = "uploading" /\ known[a] => row[a].live

CapInv ==
    /\ row \in [Attempts -> Slot]
    /\ wk \in [Attempts -> BeforeRelease \cup {"closing", "abandoning", "done", "lost"}]
    /\ known \in [Attempts -> BOOLEAN]
    /\ SlotsInUse
    /\ Cardinality(SlotsTaken) <= Limit

-----------------------------------------------------------------------------
LEMMA CapInit == ASSUME CapacityConstants, Init PROVE CapInv
<1>1. SlotsTaken = {}
  BY Zenon DEF Init, NoRow, SlotsTaken
<1>2. Cardinality(SlotsTaken) <= Limit
  BY <1>1, FS_EmptySet DEF CapacityConstants
<1> QED
  BY <1>2, Zenon DEF Init, NoRow, CapInv, Slot, BeforeRelease, SlotsInUse

\* Taking no slot keeps the bound.
LEMMA FewerSlots ==
    ASSUME CapacityConstants, CapInv, SlotsTaken' \subseteq SlotsTaken
    PROVE  Cardinality(SlotsTaken)' <= Limit
<1>1. IsFiniteSet(SlotsTaken)
  BY FS_Subset, Zenon DEF CapacityConstants, SlotsTaken
<1>2. /\ IsFiniteSet(SlotsTaken')
      /\ Cardinality(SlotsTaken') \in Nat /\ Cardinality(SlotsTaken) \in Nat
      /\ Cardinality(SlotsTaken') <= Cardinality(SlotsTaken)
  BY <1>1, FS_Subset, FS_CardinalityType, Zenon
<1> QED
  BY <1>2 DEF CapInv, CapacityConstants

\* A slot that stays what it is, or is reclaimed.
Kept(b) ==
    \/ row'[b] = row[b]
    \/ ~row[b].live /\ ~row'[b].live /\ row'[b].status = "EXPIRED"

\* The caller's slot is live afterwards, and it was so before or there was room.
Taken(a) ==
    /\ row'[a].status = "ACTIVE" /\ row'[a].live
    /\ a \in SlotsTaken \/ Cardinality(SlotsTaken) < Limit

\* The transaction of AcquireUploadCapacity: expired slots are reclaimed, and
\* at most the caller's slot is new, given only below the limit.
LEMMA AcquireRows ==
    ASSUME CapacityConstants, CapInv, NEW a \in Attempts, AcquireUploadCapacity(a)
    PROVE  /\ row' \in [Attempts -> Slot]
           /\ \A b \in Attempts \ {a} : Kept(b)
           /\ Kept(a) \/ Taken(a)
<1>1. Reclaimed \in [Attempts -> Slot]
  BY Zenon DEF Reclaimed, Slot, CapInv
<1>2. \A b \in Attempts :
         \/ Reclaimed[b] = row[b]
         \/ ~row[b].live /\ ~Reclaimed[b].live /\ Reclaimed[b].status = "EXPIRED"
  BY Zenon DEF Reclaimed, Slot, CapInv
<1>3. CASE UNCHANGED row
  BY <1>3, Zenon DEF Kept, CapInv
<1>4. CASE row' = Reclaimed
  BY <1>1, <1>2, <1>4, Zenon DEF Kept
<1>5. CASE Reclaimed[a].status = "ACTIVE" /\ row' = [Reclaimed EXCEPT ![a].live = TRUE]
  <2>1. Reclaimed[a] = row[a] /\ row[a].status = "ACTIVE" /\ row[a].live
    BY <1>5, Zenon DEF Reclaimed, Slot, CapInv
  <2>2. row' = Reclaimed
    BY <1>1, <1>5, <2>1 DEF Slot
  <2> QED
    BY <1>1, <1>2, <2>2, Zenon DEF Kept
<1>6. CASE /\ ~(Cardinality(SlotsTaken) >= Limit)
           /\ row' = [Reclaimed EXCEPT ![a] = [status |-> "ACTIVE", token |-> row[a].token + 1,
                                               live |-> TRUE]]
  <2>1. IsFiniteSet(SlotsTaken)
    BY FS_Subset, Zenon DEF CapacityConstants, SlotsTaken
  <2>2. Cardinality(SlotsTaken) < Limit
    BY <1>6, <2>1, FS_CardinalityType DEF CapacityConstants
  <2>3. [status |-> "ACTIVE", token |-> row[a].token + 1, live |-> TRUE] \in Slot
    BY DEF CapInv, Slot
  <2> QED
    BY <1>1, <1>2, <1>6, <2>2, <2>3, Zenon DEF Kept, Taken
<1> QED
  BY <1>3, <1>4, <1>5, <1>6, Zenon DEF AcquireUploadCapacity, GrantOrRenew

LEMMA AcquireKeepsBound ==
    ASSUME CapacityConstants, CapInv, NEW a \in Attempts, AcquireUploadCapacity(a),
           UNCHANGED <<wk, known>>
    PROVE  CapInv'
<1>1. /\ row' \in [Attempts -> Slot]
      /\ \A b \in Attempts \ {a} : Kept(b)
      /\ Kept(a) \/ Taken(a)
  BY AcquireRows, Zenon
<1>2. SlotsInUse'
  BY <1>1, Zenon DEF SlotsInUse, CapInv, Kept, Taken
<1>3. CASE \A b \in Attempts : Kept(b)
  <2>1. SlotsTaken' \subseteq SlotsTaken
    BY <1>3, Zenon DEF SlotsTaken, Kept
  <2> QED
    BY <1>1, <1>2, <2>1, FewerSlots, Zenon DEF CapInv
<1>4. CASE Taken(a)
  <2>1. SlotsTaken' \subseteq SlotsTaken \cup {a}
    BY <1>1, Zenon DEF SlotsTaken, Kept
  <2>2. CASE a \in SlotsTaken
    <3>1. SlotsTaken' \subseteq SlotsTaken
      BY <2>1, <2>2, Zenon
    <3> QED
      BY <1>1, <1>2, <3>1, FewerSlots, Zenon DEF CapInv
  <2>3. CASE Cardinality(SlotsTaken) < Limit /\ a \notin SlotsTaken
    <3>1. IsFiniteSet(SlotsTaken)
      BY FS_Subset, Zenon DEF CapacityConstants, SlotsTaken
    <3>2. /\ IsFiniteSet(SlotsTaken \cup {a})
          /\ Cardinality(SlotsTaken \cup {a}) = Cardinality(SlotsTaken) + 1
      BY <2>3, <3>1, FS_AddElement, Zenon
    <3>3. Cardinality(SlotsTaken') <= Cardinality(SlotsTaken \cup {a})
      BY <2>1, <3>2, FS_Subset, Zenon
    <3>4. IsFiniteSet(SlotsTaken')
      BY <2>1, <3>2, FS_Subset, Zenon
    <3>5. Cardinality(SlotsTaken') \in Nat /\ Cardinality(SlotsTaken) \in Nat
      BY <3>1, <3>4, FS_CardinalityType, Zenon
    <3>6. Cardinality(SlotsTaken)' <= Limit
      BY <2>3, <3>2, <3>3, <3>5 DEF CapacityConstants
    <3> QED
      BY <1>1, <1>2, <3>6, Zenon DEF CapInv
  <2> QED
    BY <1>4, <2>2, <2>3, Zenon DEF Taken
<1> QED
  BY <1>1, <1>3, <1>4, Zenon

\* What a worker does between two calls leaves the rows alone.
LEMMA WorkerKeepsBound ==
    ASSUME CapacityConstants, CapInv, UNCHANGED row,
           wk' \in [Attempts -> BeforeRelease \cup {"closing", "abandoning", "done", "lost"}],
           known' \in [Attempts -> BOOLEAN],
           \A a \in Attempts :
              /\ wk'[a] \in BeforeRelease => wk[a] \in BeforeRelease
              /\ wk'[a] = "uploading" /\ known'[a] => row[a].live
    PROVE  CapInv'
<1>1. SlotsTaken' = SlotsTaken
  BY Zenon DEF SlotsTaken
<1>2. SlotsInUse'
  BY Zenon DEF SlotsInUse, CapInv
<1> QED
  BY <1>1, <1>2, FewerSlots, Zenon DEF CapInv

LEMMA CapStep == ASSUME CapacityConstants, CapInv, [Next]_vars PROVE CapInv'
<1> USE DEF CapInv, BeforeRelease
<1>1. ASSUME NEW a \in Attempts, AnswerCall(a) \/ AnswerLateCall(a) PROVE CapInv'
  BY <1>1, AcquireKeepsBound, Zenon DEF AnswerCall, AnswerLateCall
<1>2. ASSUME NEW a \in Attempts,
             Ask(a) \/ CallFails(a) \/ CallLost(a) \/ NotGranted(a) \/ DeadlinePassed(a) \/ UploadsDone(a)
      PROVE  CapInv'
  <2>1. UNCHANGED <<row, known>>
    BY <1>2, Zenon DEF Ask, CallFails, CallLost, NotGranted, DeadlinePassed, UploadsDone
  <2>2. /\ wk' \in [Attempts -> BeforeRelease \cup {"closing", "abandoning", "done", "lost"}]
        /\ \A b \in Attempts : wk'[b] \in BeforeRelease => wk[b] \in BeforeRelease
        /\ \A b \in Attempts : wk'[b] = "uploading" => wk[b] = "uploading"
    BY <1>2, Zenon DEF Ask, CallFails, CallLost, NotGranted, DeadlinePassed, UploadsDone
  <2> QED
    BY <2>1, <2>2, WorkerKeepsBound, Zenon DEF SlotsInUse
<1>3. ASSUME NEW a \in Attempts, Granted(a) \/ Renewed(a) PROVE CapInv'
  <2>1. UNCHANGED row
    BY <1>3, Zenon DEF Granted, Renewed
  <2>2. wk' \in [Attempts -> BeforeRelease \cup {"closing", "abandoning", "done", "lost"}]
    BY <1>3, Zenon DEF Granted, Renewed
  <2>3. known' \in [Attempts -> BOOLEAN]
    BY <1>3, Zenon DEF Granted, Renewed
  <2>4. \A b \in Attempts : wk'[b] \in BeforeRelease => wk[b] \in BeforeRelease
    BY <1>3, Zenon DEF Granted, Renewed
  <2>5. \A b \in Attempts : wk'[b] = "uploading" /\ known'[b] => row[b].live
    BY <1>3, Zenon DEF Granted, Renewed, SlotsInUse
  <2> QED
    BY <2>1, <2>2, <2>3, <2>4, <2>5, WorkerKeepsBound, Zenon
<1>4. ASSUME NEW a \in Attempts, OwnershipEnds(a) \/ KnownDeadlinePasses(a) PROVE CapInv'
  <2>1. UNCHANGED row
    BY <1>4, Zenon DEF OwnershipEnds, KnownDeadlinePasses
  <2>2. wk' \in [Attempts -> BeforeRelease \cup {"closing", "abandoning", "done", "lost"}]
    BY <1>4, Zenon DEF OwnershipEnds, KnownDeadlinePasses
  <2>3. known' \in [Attempts -> BOOLEAN]
    BY <1>4, Zenon DEF OwnershipEnds, KnownDeadlinePasses
  <2>4. \A b \in Attempts : /\ wk'[b] \in BeforeRelease => wk[b] \in BeforeRelease
                            /\ wk'[b] = "uploading" /\ known'[b] => wk[b] = "uploading" /\ known[b]
    BY <1>4, Zenon DEF OwnershipEnds, KnownDeadlinePasses
  <2> QED
    BY <2>1, <2>2, <2>3, <2>4, WorkerKeepsBound, Zenon DEF SlotsInUse
<1>5. ASSUME NEW a \in Attempts, CloseGuard(a) PROVE CapInv'
  <2>1. /\ wk' \in [Attempts -> BeforeRelease \cup {"closing", "abandoning", "done", "lost"}]
        /\ wk'[a] \in {"done", "lost"}
        /\ \A b \in Attempts \ {a} : wk'[b] = wk[b]
    BY <1>5, Zenon DEF CloseGuard
  <2>2. /\ known' \in [Attempts -> BOOLEAN]
        /\ \A b \in Attempts \ {a} : known'[b] = known[b]
    BY <1>5, Zenon DEF CloseGuard
  <2>3. UNCHANGED row \/ row' = [row EXCEPT ![a].status = "RELEASED"]
    BY <1>5, Zenon DEF CloseGuard, ReleaseUploadCapacity
  <2>4. row' \in [Attempts -> Slot]
    BY <2>3 DEF Slot
  <2>5. /\ \A b \in Attempts \ {a} : row'[b] = row[b]
        /\ row'[a].live = row[a].live
        /\ row'[a].status \in {row[a].status, "RELEASED"}
    BY <2>3, Zenon DEF Slot
  <2>6. SlotsInUse'
    BY <2>1, <2>2, <2>5 DEF SlotsInUse
  <2>7. SlotsTaken' \subseteq SlotsTaken
    BY <2>5, Zenon DEF SlotsTaken
  <2> QED
    BY <2>1, <2>2, <2>4, <2>6, <2>7, FewerSlots, Zenon
<1>6. ASSUME NEW a \in Attempts, RowDeadlinePasses(a) PROVE CapInv'
  <2>1. UNCHANGED <<wk, known>> /\ ~(wk[a] = "uploading" /\ known[a])
    BY <1>6, Zenon DEF RowDeadlinePasses
  <2>2. row' = [row EXCEPT ![a].live = FALSE]
    BY <1>6, Zenon DEF RowDeadlinePasses
  <2>3. row' \in [Attempts -> Slot]
    BY <2>2, ZenonT(60) DEF Slot
  <2>4. /\ \A b \in Attempts \ {a} : row'[b] = row[b]
        /\ row'[a].status = row[a].status /\ ~row'[a].live
    BY <2>2, Zenon DEF Slot
  <2>5. SlotsInUse'
    BY <2>1, <2>4, Zenon DEF SlotsInUse
  <2>6. SlotsTaken' \subseteq SlotsTaken
    BY <2>4, Zenon DEF SlotsTaken
  <2> QED
    BY <2>1, <2>3, <2>5, <2>6, FewerSlots, Zenon
<1>7. CASE UNCHANGED vars
  BY <1>7, WorkerKeepsBound, Zenon DEF vars, SlotsInUse
<1> QED
  BY <1>1, <1>2, <1>3, <1>4, <1>5, <1>6, <1>7, Zenon DEF Next, WorkerStep

\* At most Limit workers upload within the deadline they know, for every limit
\* and every number of attempts: AcquireUploadCapacity counts and grants in
\* one transaction (upload_capacity.go), and a worker gives up when the grant
\* it renews is no longer its own.
THEOREM UploadsStayWithinLimit ==
    ASSUME CapacityConstants PROVE Spec => []UploadsWithinLimit
<1>1. Init => CapInv
  BY CapInit, Zenon
<1>2. CapInv /\ [Next]_vars => CapInv'
  BY CapStep, Zenon
<1>3. CapInv => UploadsWithinLimit
  <2> SUFFICES ASSUME CapInv PROVE UploadsWithinLimit
    BY Zenon
  <2> DEFINE Uploading == {a \in Attempts : wk[a] = "uploading" /\ known[a]}
  <2>1. Uploading \subseteq SlotsTaken
    BY Zenon DEF CapInv, SlotsInUse, SlotsTaken, BeforeRelease
  <2>2. IsFiniteSet(SlotsTaken)
    BY FS_Subset, Zenon DEF CapacityConstants, SlotsTaken
  <2>3. /\ IsFiniteSet(Uploading) /\ Cardinality(Uploading) <= Cardinality(SlotsTaken)
        /\ Cardinality(Uploading) \in Nat /\ Cardinality(SlotsTaken) \in Nat
    BY <2>1, <2>2, FS_Subset, FS_CardinalityType, Zenon
  <2> QED
    BY <2>3 DEF CapInv, CapacityConstants, UploadsWithinLimit
<1> QED
  BY <1>1, <1>2, <1>3, PTL DEF Spec
=============================================================================
