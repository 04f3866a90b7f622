---------------------------- MODULE SecretsProofs ----------------------------
(***************************************************************************)
(* The secrets of a database are always under one key, and a serving       *)
(* master opens all of them: for any keys, any rows, any number of         *)
(* rotations and of rotations that die before or after their transaction.  *)
(*                                                                         *)
(* The invariant relates the database with the operator's environment: as  *)
(* long as the operator is sure of the key, and no rotation has just       *)
(* replaced it, the environment holds the key of every sealed value; after *)
(* a rotation's transaction every stored value opens with its target.  A   *)
(* master starts only in the first case, and migrates what is in the clear *)
(* before it serves.                                                       *)
(***************************************************************************)
EXTENDS Secrets, TLAPS

StoredValue ==
    [kind : {"empty", "v0", "unversioned", "sealed"}, key : Keys \cup {NoKey}, row : Rows]

SealedRow(r) == value[r].kind = "sealed"

\* Who holds the lock, and what it is about to do.
LockMatches ==
    /\ lock \in {"free", "master", "rotation"}
    /\ lock = "free" => pc = "none"
    /\ lock = "master" => pc \in {"migrate", "ca", "serve"} /\ key = env /\ sure
    /\ lock = "rotation" => pc \in {"rotate", "rotated"} /\ target \in Keys

\* Every sealed value is bound to its own row, and the CA key is never plain.
RowsBound ==
    /\ \A r \in Rows : SealedRow(r) => value[r].row = r
    /\ value[CA].kind \in {"empty", "sealed"}

\* Which key the sealed values are under.
KeyKnown ==
    /\ sure /\ pc # "rotated" => \A r \in Rows : SealedRow(r) => value[r].key = env
    /\ pc = "rotated" => \A r \in Rows : SealedRow(r) => value[r].key = target

\* A master that passed its migration, and a rotation that passed its
\* transaction, leave nothing in the clear.
NothingPlain == pc \in {"ca", "serve", "rotated"} => \A r \in Rows : Stored(r) => SealedRow(r)

SecretsInv ==
    /\ value \in [Rows -> StoredValue]
    /\ env \in Keys /\ sure \in BOOLEAN
    /\ LockMatches
    /\ RowsBound
    /\ OneKeyAtATime
    /\ KeyKnown
    /\ NothingPlain

-----------------------------------------------------------------------------
LEMMA SealedValue ==
    ASSUME NEW k \in Keys, NEW r \in Rows PROVE Encrypt(k, r) \in StoredValue
  BY Zenon DEF Encrypt, StoredValue

LEMMA SecretsStart == ASSUME SecretsAssumption, SecretsInit PROVE SecretsInv
<1>1. PICK k \in Keys :
         /\ value \in [Rows -> {Empty, Plain("v0"), Plain("unversioned")} \cup {Encrypt(k, r) : r \in Rows}]
         /\ \A r \in Rows : value[r].kind = "sealed" => value[r].row = r
         /\ value[CA].kind \in {"empty", "sealed"}
         /\ env = k
  BY Zenon DEF SecretsInit
<1>2. CA \in Rows
  BY Zenon DEF Rows
<1>3. \A r \in Rows : value[r] \in StoredValue /\ (SealedRow(r) => value[r].key = k)
  <2> TAKE r \in Rows
  <2>1. \/ value[r] \in {Empty, Plain("v0"), Plain("unversioned")}
        \/ \E q \in Rows : value[r] = Encrypt(k, q)
    BY <1>1, Zenon
  <2>2. CASE value[r] \in {Empty, Plain("v0"), Plain("unversioned")}
    BY <1>2, <2>2 DEF Empty, Plain, StoredValue, SealedRow
  <2>3. CASE \E q \in Rows : value[r] = Encrypt(k, q)
    BY <2>3 DEF Encrypt, StoredValue, SealedRow
  <2> QED
    BY <2>1, <2>2, <2>3, Zenon
<1>4. value \in [Rows -> StoredValue]
  BY <1>1, <1>3, Zenon
<1>5. sure = TRUE /\ lock = "free" /\ pc = "none"
  BY Zenon DEF SecretsInit
<1>6. LockMatches
  BY <1>5, Zenon DEF LockMatches
<1>7. OneKeyAtATime /\ KeyKnown
  BY <1>1, <1>3, <1>5, Zenon DEF OneKeyAtATime, KeyKnown, SealedRow
<1> QED
  BY <1>1, <1>4, <1>5, <1>6, <1>7, Zenon DEF SecretsInv, RowsBound, SealedRow, NothingPlain

\* What each stored value becomes when a starting master migrates it.
LEMMA MigratedValue ==
    ASSUME SecretsAssumption, SecretsInv, MigrateLegacySecrets
    PROVE  /\ value' \in [Rows -> StoredValue]
           /\ value'[CA] = value[CA]
           /\ \A r \in Rows \ {CA} :
                value'[r] = IF Stored(r) /\ ~SealedRow(r) THEN Encrypt(key, r) ELSE value[r]
<1>1. ASSUME NEW r \in Blobs
      PROVE  ReencryptLegacy(key, r) = IF Stored(r) /\ ~SealedRow(r) THEN Encrypt(key, r) ELSE value[r]
  <2>1. value[r].kind \in {"empty", "v0", "unversioned", "sealed"}
    BY Zenon DEF SecretsInv, StoredValue, Rows
  <2> QED
    BY <2>1, Zenon DEF ReencryptLegacy, Stored, SealedRow
<1>2. ASSUME NEW r \in Rows \ {CA}
      PROVE  value'[r] = IF Stored(r) /\ ~SealedRow(r) THEN Encrypt(key, r) ELSE value[r]
  BY <1>1, Zenon DEF MigrateLegacySecrets, Migrated, SecretsAssumption, Rows, Blobs, SealedRow,
     migrateLegacyConnectionSecrets, migrateLegacyServerCredentials,
     migrateLegacyConfigVersions, migrateLegacyEncryptedJSONColumn
<1>3. value'[CA] = value[CA]
  BY Zenon DEF MigrateLegacySecrets, Migrated, SecretsAssumption, Rows, Blobs
<1>4. key \in Keys
  BY Zenon DEF SecretsInv, LockMatches, MigrateLegacySecrets
<1>5. ASSUME NEW r \in Rows PROVE value'[r] \in StoredValue
  <2>1. value[r] \in StoredValue
    BY Zenon DEF SecretsInv
  <2> QED
    BY <1>2, <1>3, <1>4, <2>1, SealedValue, Zenon
<1>6. value' \in [Rows -> StoredValue]
  BY <1>5, Zenon DEF MigrateLegacySecrets
<1> QED
  BY <1>2, <1>3, <1>6, Zenon

\* A step that seals some rows with the key of the environment, and empties or
\* leaves the others, while the operator is sure.
LEMMA SealedUnderEnv ==
    ASSUME SecretsInv, sure, pc # "rotated", UNCHANGED <<env, sure>>, pc' # "rotated",
           value' \in [Rows -> StoredValue], value'[CA].kind \in {"empty", "sealed"},
           \A r \in Rows : value'[r] \in {value[r], Encrypt(env, r), Empty}
    PROVE  RowsBound' /\ OneKeyAtATime' /\ KeyKnown'
<1>1. \A r \in Rows : SealedRow(r)' => value'[r].row = r /\ value'[r].key = env
  BY DEF SecretsInv, RowsBound, KeyKnown, SealedRow, Encrypt, Empty
<1> QED
  BY <1>1, Zenon DEF RowsBound, OneKeyAtATime, KeyKnown, SealedRow

LEMMA SecretsStep ==
    ASSUME SecretsAssumption, SecretsInv, [SecretsNext]_secretVars PROVE SecretsInv'
<1> USE DEF SecretsInv, LockMatches
<1>0. CA \in Rows /\ Empty \in StoredValue
  BY Zenon DEF Rows, Empty, StoredValue
<1>1. CASE UNCHANGED value /\ pc' \notin {"ca", "serve", "rotated"} /\ UNCHANGED <<env, sure>> /\ LockMatches'
           /\ pc # "rotated"
  BY <1>1, Zenon DEF RowsBound, OneKeyAtATime, KeyKnown, NothingPlain, SealedRow
<1>2. CASE AcquireMasterProcessLock
  BY <1>1, <1>2, Zenon DEF AcquireMasterProcessLock
<1>3. CASE MigrateLegacySecrets
  <2>1. /\ value' \in [Rows -> StoredValue]
        /\ value'[CA] = value[CA]
        /\ \A r \in Rows \ {CA} :
             value'[r] = IF Stored(r) /\ ~SealedRow(r) THEN Encrypt(key, r) ELSE value[r]
    BY <1>3, MigratedValue, Zenon
  <2>2. /\ sure /\ pc = "migrate" /\ key = env /\ pc' = "ca"
        /\ UNCHANGED <<env, sure, lock, key, target>> /\ lock = "master"
    BY <1>3, Zenon DEF MigrateLegacySecrets
  <2>3. \A r \in Rows : value'[r] \in {value[r], Encrypt(env, r), Empty}
    BY <2>1, <2>2, Zenon
  <2>4. RowsBound' /\ OneKeyAtATime' /\ KeyKnown'
    BY <1>0, <2>1, <2>2, <2>3, SealedUnderEnv, Zenon DEF RowsBound
  <2>5. \A r \in Rows : Stored(r)' => SealedRow(r)'
    BY <1>0, <2>1 DEF Stored, SealedRow, Encrypt, RowsBound
  <2> QED
    BY <2>1, <2>2, <2>4, <2>5, Zenon DEF NothingPlain
<1>4. CASE LoadWorkerCA
  <2>1. /\ lock = "master" /\ pc = "ca" /\ key = env /\ sure
        /\ UNCHANGED <<env, sure, target>>
    BY <1>4, Zenon DEF LoadWorkerCA
  <2>2. CASE UNCHANGED value /\ pc' = "serve" /\ UNCHANGED <<lock, key>>
    BY <2>1, <2>2, Zenon DEF RowsBound, OneKeyAtATime, KeyKnown, NothingPlain, SealedRow, Stored
  <2>3. CASE /\ value' = [value EXCEPT ![CA] = Encrypt(key, CA)]
             /\ pc' = "serve" /\ UNCHANGED <<lock, key>>
    <3>1. value' \in [Rows -> StoredValue]
      BY <1>0, <2>1, <2>3, SealedValue, Zenon
    <3>2. \A r \in Rows : value'[r] = IF r = CA THEN Encrypt(env, CA) ELSE value[r]
      BY <1>0, <2>1, <2>3, Zenon
    <3>3. value'[CA].kind = "sealed"
      BY <1>0, <3>2 DEF Encrypt
    <3>4. RowsBound' /\ OneKeyAtATime' /\ KeyKnown'
      BY <2>1, <2>3, <3>1, <3>2, <3>3, SealedUnderEnv, Zenon
    <3>5. \A r \in Rows : Stored(r)' => SealedRow(r)'
      BY <2>1, <3>2, <3>3, Zenon DEF Stored, SealedRow, NothingPlain
    <3> QED
      BY <2>1, <2>3, <3>1, <3>4, <3>5, Zenon DEF NothingPlain
  <2>4. CASE UNCHANGED value /\ pc' = "none" /\ lock' = "free"
    BY <1>1, <2>1, <2>4, Zenon
  <2> QED
    BY <1>4, <2>2, <2>3, <2>4, Zenon DEF LoadWorkerCA
<1>5. CASE MasterStops
  BY <1>1, <1>5, Zenon DEF MasterStops
<1>6. ASSUME NEW r \in Rows \ {CA}, StoreSecret(r) \/ DeleteSecret(r) PROVE SecretsInv'
  <2>1. /\ lock = "master" /\ pc = "serve" /\ key = env /\ sure
        /\ UNCHANGED <<env, sure, lock, pc, key, target>>
    BY <1>6, Zenon DEF StoreSecret, DeleteSecret
  <2>2. PICK v \in {Encrypt(env, r), Empty} : value' = [value EXCEPT ![r] = v]
    BY <1>6, <2>1, Zenon DEF StoreSecret, DeleteSecret
  <2>3. value' \in [Rows -> StoredValue]
    BY <1>0, <2>2, SealedValue, Zenon
  <2>4. \A q \in Rows : value'[q] = IF q = r THEN v ELSE value[q]
    BY <2>2, Zenon
  <2>5. RowsBound' /\ OneKeyAtATime' /\ KeyKnown'
    BY <1>0, <2>1, <2>3, <2>4, SealedUnderEnv, Zenon DEF RowsBound
  <2>6. \A q \in Rows : Stored(q)' => SealedRow(q)'
    BY <2>1, <2>4 DEF Stored, SealedRow, NothingPlain, Encrypt, Empty
  <2> QED
    BY <2>1, <2>3, <2>5, <2>6, Zenon DEF NothingPlain
<1>7. ASSUME NEW k \in Keys, RotateMasterKeyStarts(k) PROVE SecretsInv'
  BY <1>1, <1>7, Zenon DEF RotateMasterKeyStarts
<1>8. ASSUME NEW k \in Keys, OperatorChecks(k) PROVE SecretsInv'
  <2>1. \A r \in Rows : SealedRow(r) => value[r].key = k
    BY <1>8, Zenon DEF OperatorChecks, InspectDatabase, Opens, Stored, SealedRow
  <2>2. UNCHANGED <<value, lock, pc, key, target>> /\ env' = k /\ sure' = TRUE /\ pc = "none" /\ lock = "free"
    BY <1>8, Zenon DEF OperatorChecks
  <2> QED
    BY <2>1, <2>2, Zenon DEF RowsBound, OneKeyAtATime, KeyKnown, NothingPlain, SealedRow
<1>9. CASE RotateMasterKey
  <2>1. pc = "rotate" /\ lock = "rotation" /\ target \in Keys /\ UNCHANGED <<env, sure, key>>
    BY <1>9, Zenon DEF RotateMasterKey
  <2>2. CASE /\ \A r \in Rows : Stored(r) => Opens(env, r)
             /\ value' = [r \in Rows |-> rotateSealedColumn(r)] /\ pc' = "rotated"
    <3>1. \A r \in Rows : value'[r] = IF Stored(r) THEN Encrypt(target, r) ELSE value[r]
      BY <2>2, Zenon DEF rotateSealedColumn
    <3>2. value' \in [Rows -> StoredValue]
      BY <2>1, <2>2, SealedValue, Zenon DEF rotateSealedColumn
    <3>3. lock' = lock /\ target' = target
      BY <1>9, <2>2, Zenon DEF RotateMasterKey
    <3>4. \A r \in Rows : /\ SealedRow(r)' => value'[r].row = r /\ value'[r].key = target
                          /\ Stored(r)' => SealedRow(r)'
      <4> TAKE r \in Rows
      <4>1. CASE Stored(r)
        <5>1. value'[r] = [kind |-> "sealed", key |-> target, row |-> r]
          BY <3>1, <4>1, Zenon DEF Encrypt
        <5> QED
          BY <5>1 DEF Stored, SealedRow
      <4>2. CASE ~Stored(r)
        BY <3>1, <4>2, Zenon DEF Stored, SealedRow
      <4> QED
        BY <4>1, <4>2, Zenon
    <3>5. value'[CA].kind \in {"empty", "sealed"}
      <4>1. Stored(CA)' => SealedRow(CA)'
        BY <1>0, <3>4, Zenon
      <4> QED
        BY <4>1, Zenon DEF Stored, SealedRow
    <3> QED
      BY <2>1, <2>2, <3>2, <3>3, <3>4, <3>5, ZenonT(60)
         DEF RowsBound, OneKeyAtATime, KeyKnown, NothingPlain, SealedRow
  <2>3. CASE pc' = "none" /\ UNCHANGED value
    <3>1. lock' = "free"
      BY <1>9, <2>3, Zenon DEF RotateMasterKey
    <3> QED
      BY <1>1, <2>1, <2>3, <3>1, Zenon
  <2> QED
    BY <1>9, <2>2, <2>3, Zenon DEF RotateMasterKey
<1>10. CASE OperatorSetsNewKey
  <2>1. /\ pc = "rotated" /\ target \in Keys /\ env' = target /\ lock' = "free" /\ pc' = "none"
        /\ UNCHANGED <<value, sure, key>>
    BY <1>10, Zenon DEF OperatorSetsNewKey
  <2> QED
    BY <2>1, Zenon DEF RowsBound, OneKeyAtATime, KeyKnown, NothingPlain, SealedRow
<1>11. CASE RotationCrashes
  <2>1. lock' = "free" /\ pc' = "none" /\ sure' = FALSE /\ UNCHANGED <<value, env, key>>
    BY <1>11, Zenon DEF RotationCrashes
  <2> QED
    BY <2>1, Zenon DEF RowsBound, OneKeyAtATime, KeyKnown, NothingPlain, SealedRow
<1>12. CASE UNCHANGED secretVars
  BY <1>12, Zenon DEF secretVars, RowsBound, OneKeyAtATime, KeyKnown, NothingPlain, SealedRow, Stored
<1> QED
  BY <1>2, <1>3, <1>4, <1>5, <1>6, <1>7, <1>8, <1>9, <1>10, <1>11, <1>12, Zenon DEF SecretsNext

\* A serving master opens every secret it stores, whatever release the database
\* came from and however many rotations succeeded, were refused or died half
\* way: MigrateLegacySecrets precedes service (secret_migration.go) and
\* RotateMasterKey is one transaction under the same lock (key_rotation.go).
THEOREM ServingMasterAlwaysOpens ==
    ASSUME SecretsAssumption PROVE SecretsSpec => []ServingMasterOpensAll
<1>1. SecretsInit => SecretsInv
  BY SecretsStart, Zenon
<1>2. SecretsInv /\ [SecretsNext]_secretVars => SecretsInv'
  BY SecretsStep, Zenon
<1>3. SecretsInv => ServingMasterOpensAll
  <2> SUFFICES ASSUME SecretsInv, pc = "serve", NEW r \in Rows, Stored(r) PROVE Opens(key, r)
    BY Zenon DEF ServingMasterOpensAll
  <2>1. lock = "master"
    BY Zenon DEF SecretsInv, LockMatches
  <2>2. SealedRow(r) /\ sure /\ key = env /\ pc # "rotated"
    BY <2>1, Zenon DEF SecretsInv, LockMatches, NothingPlain
  <2> QED
    BY <2>2, Zenon DEF SecretsInv, RowsBound, KeyKnown, SealedRow, Opens
<1> QED
  BY <1>1, <1>2, <1>3, PTL DEF SecretsSpec

\* The database never holds secrets under two keys (rotateSealedColumn of every
\* column in one transaction, key_rotation.go).
THEOREM DatabaseHasOneKey ==
    ASSUME SecretsAssumption PROVE SecretsSpec => []OneKeyAtATime
<1>1. SecretsInit => SecretsInv
  BY SecretsStart, Zenon
<1>2. SecretsInv /\ [SecretsNext]_secretVars => SecretsInv'
  BY SecretsStep, Zenon
<1>3. SecretsInv => OneKeyAtATime
  BY Zenon DEF SecretsInv
<1> QED
  BY <1>1, <1>2, <1>3, PTL DEF SecretsSpec
=============================================================================
