------------------------------ MODULE ApiRequests ------------------------------
(***************************************************************************)
(* The way of a request through the master: the per-client token buckets   *)
(* (internal/ratelimit), the resolution of the bearer token to a principal *)
(* (withAuthentication), the scope check of the route (authorized) and the *)
(* handlers that create and revoke scoped credentials, beside the          *)
(* `orabbit-master credentials` command that writes the same table without *)
(* the master.  Worker RPCs pass the same kind of limiter before the       *)
(* shared token and the enrollment token are looked at.                    *)
(*                                                                         *)
(* A client is the key its address resolves to.  A bucket holds whole      *)
(* tokens; Refill is the passing of the time that earns one.  Tokens,      *)
(* hashes and principals' names are abstracted to the credential's index.  *)
(***************************************************************************)
EXTENDS Naturals, Sequences, FiniteSets

CONSTANTS
    Clients,        \* client addresses, the keys of the buckets
    Callers,        \* the clients that call the HTTP API
    Limiters,       \* enabled limits, among AllLimiters
    Burst,          \* burst of every policy
    MaxKeys,        \* DefaultMaxKeys
    Scopes,         \* scopes in use, among AllScopes
    LegacyTokens,   \* configured shared tokens, among {"http", "remote"}
    MaxCreds,       \* bound on the credentials issued
    MaxRefills      \* bound on the refills

AllScopes == {"read", "jobs:write", "secrets:admin", "workers:admin", "remote_ops", "credentials:admin"}
DataAPIScopes == AllScopes \ {"remote_ops"}
AllLimiters == {"requests", "sensitive", "authFailures", "enroll", "workerFailures"}

ApiAssumption ==
    /\ Limiters \subseteq AllLimiters /\ Scopes \subseteq AllScopes
    /\ LegacyTokens \subseteq {"http", "remote"} /\ Callers \subseteq Clients
    /\ Burst \in Nat \ {0} /\ MaxKeys \in Nat \ {0} /\ MaxCreds \in Nat /\ MaxRefills \in Nat

VARIABLES
    bucket,     \* buckets of each limiter: tokens by tracked client
    cred,       \* the rows of api_credentials
    req,        \* the request each client has in progress
    refills

apiVars == <<bucket, cred, req, refills>>

Nobody == [who |-> "nobody", scopes |-> {}]
Idle == [pc |-> "idle", route |-> "none", by |-> Nobody]

ApiInit ==
    /\ bucket = [l \in Limiters |-> [k \in {} |-> Burst]]
    /\ cred = <<>> /\ refills = 0
    /\ req = [c \in Callers |-> Idle]

(* The token buckets. *)

Without(b, gone) == [k \in DOMAIN b \ gone |-> b[k]]
Full(b) == {k \in DOMAIN b : b[k] >= Burst}

\* Mutant: room is made by dropping any bucket.
evictAny(b) == {Without(b, {k}) : k \in DOMAIN b}

\* Full buckets go first; only when there is none does the fullest one go.
evict(b) ==
    IF Full(b) # {} THEN {Without(b, Full(b))}
    ELSE {Without(b, {k}) : k \in {f \in DOMAIN b : \A o \in DOMAIN b : b[o] <= b[f]}}

\* The maps bucket() may leave behind when it looks up, or makes, a bucket.
WithBucket(b, k) ==
    IF k \in DOMAIN b THEN {b}
    ELSE {[x \in DOMAIN r \cup {k} |-> IF x = k THEN Burst ELSE r[x]] :
            r \in IF Cardinality(DOMAIN b) >= MaxKeys THEN evict(b) ELSE {b}}

\* Exhausted consumes nothing and makes no bucket.
Exhausted(bs, l, k) == l \in Limiters /\ k \in DOMAIN bs[l] /\ bs[l][k] < 1

\* The outcomes of Allow: whether the event is allowed, and the buckets after it.
Allow(bs, l, k) ==
    IF l \notin Limiters THEN {[ok |-> TRUE, bs |-> bs]}
    ELSE {IF b[k] < 1 THEN [ok |-> FALSE, bs |-> [bs EXCEPT ![l] = b]]
          ELSE [ok |-> TRUE, bs |-> [bs EXCEPT ![l] = [b EXCEPT ![k] = @ - 1]]] : b \in WithBucket(bs[l], k)}

Refill ==
    /\ refills < MaxRefills /\ refills' = refills + 1
    /\ bucket' = [l \in Limiters |-> [k \in DOMAIN bucket[l] |->
                    IF bucket[l][k] < Burst THEN bucket[l][k] + 1 ELSE Burst]]
    /\ UNCHANGED <<cred, req>>

(* An HTTP request. *)

Routes == {"data", "workers", "remote", "credentials"}

\* The scope each route asks for: remote operations, worker identities and
\* credentials for every method, the data routes for a read.
Policy == [r \in Routes |-> CASE r = "data" -> "read" [] r = "workers" -> "workers:admin"
                              [] r = "remote" -> "remote_ops" [] OTHER -> "credentials:admin"]

\* Changes to remote operations and worker identities (isSensitiveRequest).
isSensitiveRequest(r) == r \in {"remote", "workers"}

\* withRateLimit: the failure budget, the request rate, the sensitive rate.
\* The outcomes are the buckets left and whether the request goes on.
RateLimited(bs, k, r) ==
    IF Exhausted(bs, "authFailures", k) THEN {[ok |-> FALSE, bs |-> bs]}
    ELSE UNION {IF ~a.ok \/ ~isSensitiveRequest(r) THEN {a} ELSE Allow(a.bs, "sensitive", k)
                  : a \in Allow(bs, "requests", k)}

Arrive(c, r) ==
    /\ req[c].pc = "idle"
    /\ \E a \in RateLimited(bucket, c, r) :
         /\ bucket' = a.bs
         /\ req' = [req EXCEPT ![c] = IF a.ok THEN [Idle EXCEPT !.pc = "authenticate", !.route = r] ELSE Idle]
    /\ UNCHANGED <<cred, refills>>

Active(x) == ~x.revoked /\ ~x.expired

\* Mutant: the API is open again once no credential is active.
NoneActive == ~ \E i \in DOMAIN cred : Active(cred[i])

\* Open access needs an empty table (HasAPICredentials).
NoCredentials == cred = <<>>

\* A presented credential is looked up by its ID and must still be active.
principalFromCredential(i) ==
    IF i \in DOMAIN cred /\ Active(cred[i]) THEN [who |-> "credential", scopes |-> cred[i].scopes] ELSE Nobody

legacyPrincipal(t) ==
    [who |-> "legacy", scopes |-> (IF t = "remote" THEN {"remote_ops"} ELSE DataAPIScopes) \cap Scopes]

\* Without a shared token the caller is anonymous while no row exists.
anonymousPrincipal ==
    IF NoCredentials THEN [who |-> "anonymous", scopes |-> DataAPIScopes \cap Scopes] ELSE Nobody

\* What a bearer resolves to: a credential's index, a shared token, or none.
resolvePrincipal(bearer, remote) ==
    IF bearer.kind = "credential" THEN principalFromCredential(bearer.id)
    ELSE IF remote
    THEN IF bearer.kind = "remote" /\ "remote" \in LegacyTokens THEN legacyPrincipal("remote") ELSE Nobody
    ELSE IF "http" \in LegacyTokens
    THEN IF bearer.kind = "http" THEN legacyPrincipal("http") ELSE Nobody
    ELSE anonymousPrincipal

Bearers == [kind : {"none", "http", "remote"}, id : {0}] \cup [kind : {"credential"}, id : 1..MaxCreds]

\* A request without a principal spends one unit of the failure budget.
Authenticate(c, bearer) ==
    LET p == resolvePrincipal(bearer, req[c].route = "remote") IN
    /\ req[c].pc = "authenticate"
    /\ bearer.kind = "credential" => bearer.id \in DOMAIN cred
    /\ IF p = Nobody
       THEN /\ req' = [req EXCEPT ![c] = Idle]
            /\ \E a \in Allow(bucket, "authFailures", c) : bucket' = a.bs
       ELSE /\ req' = [req EXCEPT ![c].pc = "authorize", ![c].by = p]
            /\ UNCHANGED bucket
    /\ UNCHANGED <<cred, refills>>

\* authorized: the route's policy, then the handler, which for every route
\* but /credentials is outside this module.
Authorize(c) ==
    /\ req[c].pc = "authorize"
    /\ req' = [req EXCEPT ![c] =
         IF Policy[@.route] \in @.by.scopes /\ @.route = "credentials" THEN [@ EXCEPT !.pc = "handle"] ELSE Idle]
    /\ UNCHANGED <<bucket, cred, refills>>

Row(scopes, by) == [scopes |-> scopes, by |-> by, revoked |-> FALSE, expired |-> FALSE]

\* Mutant: the scopes asked for are not compared with the caller's.
GrantAnything(caller, scopes) == TRUE

\* A caller can only grant scopes it holds.
MayGrant(caller, scopes) == scopes \subseteq caller.scopes

handleCreateCredential(c, scopes) ==
    /\ req[c].pc = "handle" /\ Len(cred) < MaxCreds /\ scopes # {}
    /\ req' = [req EXCEPT ![c] = Idle]
    /\ cred' = IF MayGrant(req[c].by, scopes) THEN Append(cred, Row(scopes, req[c].by.who)) ELSE cred
    /\ UNCHANGED <<bucket, refills>>

RevokeAPICredential(i) == cred' = [cred EXCEPT ![i].revoked = TRUE]

handleRevokeCredential(c, i) ==
    /\ req[c].pc = "handle" /\ RevokeAPICredential(i)
    /\ req' = [req EXCEPT ![c] = Idle]
    /\ UNCHANGED <<bucket, refills>>

(* The `credentials` command, beside a serving master. *)

credentialsCreate(scopes) ==
    /\ Len(cred) < MaxCreds /\ scopes # {}
    /\ cred' = Append(cred, Row(scopes, "cli"))
    /\ UNCHANGED <<bucket, req, refills>>

credentialsRevoke(i) ==
    /\ ~cred[i].revoked /\ RevokeAPICredential(i)
    /\ UNCHANGED <<bucket, req, refills>>

CredentialExpires(i) ==
    /\ ~cred[i].expired
    /\ cred' = [cred EXCEPT ![i].expired = TRUE]
    /\ UNCHANGED <<bucket, req, refills>>

(* A worker RPC: rateLimitedWorkerAuth. *)

\* A peer with a verified certificate is not held up by the failure budget;
\* a rejected shared or enrollment token spends it, a rejected certificate
\* does not.
WorkerRPC(k, enroll, verified, tokenAccepted, unauthenticated) ==
    /\ verified \/ ~Exhausted(bucket, "workerFailures", k)
    /\ \E a \in IF enroll THEN Allow(bucket, "enroll", k) ELSE {[ok |-> TRUE, bs |-> bucket]} :
         IF a.ok /\ unauthenticated /\ (~tokenAccepted \/ enroll)
         THEN \E f \in Allow(a.bs, "workerFailures", k) : bucket' = f.bs
         ELSE bucket' = a.bs
    /\ UNCHANGED <<cred, req, refills>>

ApiNext ==
    \/ Refill
    \/ \E c \in Clients, e, v, t, u \in BOOLEAN : WorkerRPC(c, e, v, t, u)
    \/ \E c \in Callers :
         \/ Authorize(c)
         \/ \E r \in Routes : Arrive(c, r)
         \/ \E b \in Bearers : Authenticate(c, b)
         \/ \E s \in SUBSET Scopes : handleCreateCredential(c, s)
         \/ \E i \in DOMAIN cred : handleRevokeCredential(c, i)
    \/ \E s \in SUBSET Scopes : credentialsCreate(s)
    \/ \E i \in DOMAIN cred : credentialsRevoke(i) \/ CredentialExpires(i)

ApiSpec == ApiInit /\ [][ApiNext]_apiVars

-----------------------------------------------------------------------------
\* The variables keep their types, and no limiter tracks more than MaxKeys
\* clients.
ApiTypeOK ==
    /\ \A l \in Limiters : /\ DOMAIN bucket[l] \subseteq Clients /\ Cardinality(DOMAIN bucket[l]) <= MaxKeys
                           /\ \A k \in DOMAIN bucket[l] : bucket[l][k] \in 0..Burst
    /\ Len(cred) <= MaxCreds
    /\ \A i \in DOMAIN cred : cred[i].scopes \subseteq Scopes
    /\ \A c \in Callers : req[c].pc \in {"idle", "authenticate", "authorize", "handle"}

\* A client that has drained its budget does not get it back while a fuller
\* bucket is kept: the bucket a limiter forgets to make room is at least as
\* full as every one it keeps (evict).
ForgetsTheFullest ==
    \A l \in Limiters : \A k \in DOMAIN bucket[l] \ DOMAIN bucket'[l] :
        bucket[l][k] < Burst =>
            \A o \in DOMAIN bucket[l] \cap DOMAIN bucket'[l] : bucket[l][o] <= bucket[l][k]

\* Data-API access never turns into remote operations, through however many
\* credentials one after the other: a credential carries remote_ops only if
\* the command line issued one that did (handleCreateCredential).
RemoteOpsFromCommandLine ==
    \A i \in DOMAIN cred : "remote_ops" \in cred[i].scopes =>
        \E j \in 1..i : cred[j].by = "cli" /\ "remote_ops" \in cred[j].scopes

\* Once a credential was ever issued nobody becomes anonymous again, also
\* when the last one is revoked or expires (anonymousPrincipal).
ApiNeverReopens ==
    \A c \in Callers : cred # <<>> /\ req'[c].by.who = "anonymous" => req[c].by.who = "anonymous"
=============================================================================
