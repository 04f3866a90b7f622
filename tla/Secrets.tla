-------------------------------- MODULE Secrets --------------------------------
(***************************************************************************)
(* Secrets at rest.  Every stored secret is sealed with the master key:    *)
(* connection secrets, server credentials, config versions, the            *)
(* registration settings of runs and registrations, and the worker CA key. *)
(* A starting master seals what older releases left in the clear           *)
(* (MigrateLegacySecrets), a serving master writes new values with the key *)
(* it was started with, `rotate-master-key` moves all of them to another   *)
(* key in one transaction and `check-db` tells the operator whether a key  *)
(* opens them.  Masters and the rotation exclude each other by the lock    *)
(* file; the operator's environment, which holds the key, is not part of   *)
(* the database and follows by hand.                                       *)
(*                                                                         *)
(* A value is one of: empty, plain (versioned or historical plaintext), or *)
(* sealed under a key with the additional data of its row; a value opens   *)
(* only with that key and in that row (AES-GCM).                           *)
(***************************************************************************)
EXTENDS Naturals, FiniteSets

CONSTANTS
    Keys,           \* master keys the operator has made
    Connections,    \* values of connections.secret_enc_blob
    Credentials,    \* values of the three columns of server_credentials
    Versions,       \* values of config_versions.content_enc
    Texts,          \* values of the TEXT columns of runs and iceberg_registrations
    CA,             \* the worker_ca row
    TLS,            \* whether the master serves gRPC over TLS
    NoKey,
    MaxCrashes

Blobs == Connections \cup Credentials \cup Versions
Rows == Blobs \cup Texts \cup {CA}

SecretsAssumption ==
    /\ NoKey \notin Keys /\ Keys # {} /\ TLS \in BOOLEAN /\ MaxCrashes \in Nat
    /\ Blobs \cap Texts = {} /\ CA \notin Blobs \cup Texts

VARIABLES
    value,      \* the stored value of each row
    env,        \* ORABBIT_MASTER_KEY as the operator has set it
    sure,       \* whether the operator knows that env is the key of the database
    lock,       \* holder of the singleton lock: "free", "master" or "rotation"
    pc,         \* what the holder is about to do
    key,        \* the key the running master was started with
    target,     \* ORABBIT_NEW_MASTER_KEY of the running rotation
    crashes

secretVars == <<value, env, sure, lock, pc, key, target, crashes>>

Empty == [kind |-> "empty", key |-> NoKey, row |-> CA]
Plain(kind) == [kind |-> kind, key |-> NoKey, row |-> CA]

\* Encrypt binds the value to the key and, by the additional data, to its row.
Encrypt(k, r) == [kind |-> "sealed", key |-> k, row |-> r]

\* Decrypt refuses plaintext, another key and another row.
Opens(k, r) == value[r].kind = "sealed" /\ value[r].key = k /\ value[r].row = r

Stored(r) == value[r].kind # "empty"

\* A database written by an older release, all of its sealed values under one
\* key, or a new one.
SecretsInit ==
    /\ \E k \in Keys :
         /\ value \in [Rows -> {Empty, Plain("v0"), Plain("unversioned")} \cup {Encrypt(k, r) : r \in Rows}]
         /\ \A r \in Rows : value[r].kind = "sealed" => value[r].row = r
         /\ \A r \in Texts : value[r].kind # "v0"
         /\ value[CA].kind \in {"empty", "sealed"}
         /\ env = k
    /\ sure = TRUE /\ lock = "free" /\ pc = "none" /\ key = NoKey /\ target = NoKey /\ crashes = 0

\* A master takes the lock with the key of its environment.
AcquireMasterProcessLock ==
    /\ lock = "free" /\ sure
    /\ lock' = "master" /\ pc' = "migrate" /\ key' = env
    /\ UNCHANGED <<value, env, sure, target, crashes>>

\* ReencryptLegacy: sealed values are left as they are, whatever their key;
\* both kinds of plaintext are sealed.
ReencryptLegacy(k, r) ==
    IF value[r].kind \in {"v0", "unversioned"} THEN Encrypt(k, r) ELSE value[r]

migrateLegacyConnectionSecrets(k) == [r \in Connections |-> ReencryptLegacy(k, r)]
migrateLegacyServerCredentials(k) == [r \in Credentials |-> ReencryptLegacy(k, r)]
migrateLegacyConfigVersions(k) == [r \in Versions |-> ReencryptLegacy(k, r)]

\* A TEXT value without the prefix of encryptStoredJSON is plaintext.
migrateLegacyEncryptedJSONColumn(k) ==
    [r \in Texts |-> IF Stored(r) /\ value[r].kind # "sealed" THEN Encrypt(k, r) ELSE value[r]]

Migrated(k, r) ==
    CASE r \in Connections -> migrateLegacyConnectionSecrets(k)[r]
      [] r \in Credentials -> migrateLegacyServerCredentials(k)[r]
      [] r \in Versions -> migrateLegacyConfigVersions(k)[r]
      [] r \in Texts -> migrateLegacyEncryptedJSONColumn(k)[r]
      [] r = CA -> value[r]

\* One transaction over all columns.
MigrateLegacySecrets ==
    /\ lock = "master" /\ pc = "migrate"
    /\ value' = [r \in Rows |-> Migrated(key, r)]
    /\ pc' = "ca"
    /\ UNCHANGED <<env, sure, lock, key, target, crashes>>

\* With TLS the master opens the CA key, making one on first use, and gives
\* up when it does not open.
LoadWorkerCA ==
    /\ lock = "master" /\ pc = "ca"
    /\ IF ~TLS THEN pc' = "serve" /\ UNCHANGED <<value, lock, key>>
       ELSE IF ~Stored(CA)
       THEN pc' = "serve" /\ value' = [value EXCEPT ![CA] = Encrypt(key, CA)] /\ UNCHANGED <<lock, key>>
       ELSE IF Opens(key, CA) THEN pc' = "serve" /\ UNCHANGED <<value, lock, key>>
       ELSE pc' = "none" /\ lock' = "free" /\ key' = NoKey /\ UNCHANGED value
    /\ UNCHANGED <<env, sure, target, crashes>>

\* A serving master stores or replaces a secret.
StoreSecret(r) ==
    /\ pc = "serve" /\ value' = [value EXCEPT ![r] = Encrypt(key, r)]
    /\ UNCHANGED <<env, sure, lock, pc, key, target, crashes>>

\* ... or deletes the row that holds it.
DeleteSecret(r) ==
    /\ pc = "serve" /\ Stored(r) /\ value' = [value EXCEPT ![r] = Empty]
    /\ UNCHANGED <<env, sure, lock, pc, key, target, crashes>>

MasterStops ==
    /\ lock = "master"
    /\ lock' = "free" /\ pc' = "none" /\ key' = NoKey
    /\ UNCHANGED <<value, env, sure, target, crashes>>

\* rotate-master-key needs two different keys and the lock.
RotateMasterKeyStarts(k) ==
    /\ lock = "free" /\ k # env
    /\ lock' = "rotation" /\ pc' = "rotate" /\ target' = k
    /\ UNCHANGED <<value, env, sure, key, crashes>>

\* Mutant: the TEXT columns keep the old key.
rotateBlobsOnly(r) == IF Stored(r) /\ r \notin Texts THEN Encrypt(target, r) ELSE value[r]

\* rotateSealedColumn re-encrypts each stored value of a column.
rotateSealedColumn(r) == IF Stored(r) THEN Encrypt(target, r) ELSE value[r]

\* All values move to the new key in one transaction, or none does when one
\* of them does not open with the current key.
RotateMasterKey ==
    /\ pc = "rotate"
    /\ IF \A r \in Rows : Stored(r) => Opens(env, r)
       THEN value' = [r \in Rows |-> rotateSealedColumn(r)] /\ pc' = "rotated"
       ELSE pc' = "none" /\ UNCHANGED value
    /\ lock' = IF pc' = "none" THEN "free" ELSE lock
    /\ target' = IF pc' = "none" THEN NoKey ELSE target
    /\ UNCHANGED <<env, sure, key, crashes>>

\* Told that the values were re-encrypted, the operator replaces the key.
OperatorSetsNewKey ==
    /\ pc = "rotated"
    /\ env' = target /\ lock' = "free" /\ pc' = "none" /\ target' = NoKey
    /\ UNCHANGED <<value, sure, key, crashes>>

\* The rotation dies before or after its transaction: the operator has no
\* report and does not know which key the database has.
RotationCrashes ==
    /\ lock = "rotation" /\ crashes < MaxCrashes
    /\ lock' = "free" /\ pc' = "none" /\ target' = NoKey /\ sure' = FALSE /\ crashes' = crashes + 1
    /\ UNCHANGED <<value, env, key>>

\* check-db counts the values that do not open with a key.
InspectDatabase(k) == {r \in Rows : Stored(r) /\ ~Opens(k, r)}

\* The operator runs check-db with a key and takes it when every stored value
\* opens; a legacy value that no master has sealed yet counts as unreadable.
OperatorChecks(k) ==
    /\ ~sure /\ lock = "free"
    /\ InspectDatabase(k) = {}
    /\ env' = k /\ sure' = TRUE
    /\ UNCHANGED <<value, lock, pc, key, target, crashes>>

SecretsNext ==
    \/ AcquireMasterProcessLock \/ MigrateLegacySecrets \/ LoadWorkerCA \/ MasterStops
    \/ \E r \in Rows \ {CA} : StoreSecret(r) \/ DeleteSecret(r)
    \/ \E k \in Keys : RotateMasterKeyStarts(k) \/ OperatorChecks(k)
    \/ RotateMasterKey \/ OperatorSetsNewKey \/ RotationCrashes

SecretsSpec == SecretsInit /\ [][SecretsNext]_secretVars

-----------------------------------------------------------------------------
\* The variables keep their types.
SecretsTypeOK ==
    /\ value \in [Rows -> [kind : {"empty", "v0", "unversioned", "sealed"}, key : Keys \cup {NoKey}, row : Rows]]
    /\ env \in Keys /\ sure \in BOOLEAN /\ lock \in {"free", "master", "rotation"}
    /\ pc \in {"none", "migrate", "ca", "serve", "rotate", "rotated"}
    /\ key \in Keys \cup {NoKey} /\ target \in Keys \cup {NoKey} /\ crashes \in 0..MaxCrashes

\* A serving master opens every secret it stores, across legacy releases,
\* rotations and rotations that die half way: no value is in the clear and
\* none is under another key than the one the master was started with.
ServingMasterOpensAll ==
    pc = "serve" => \A r \in Rows : Stored(r) => Opens(key, r)

\* The database never holds secrets under two keys, so one key always opens
\* what the previous one did (RotateMasterKey is all or nothing).
OneKeyAtATime ==
    \A r, q \in Rows : value[r].kind = "sealed" /\ value[q].kind = "sealed" => value[r].key = value[q].key
=============================================================================
