----------------------------- MODULE WorkerIdentity -----------------------------
(***************************************************************************)
(* Master-issued worker identities.  An administrator creates enrollment   *)
(* tokens, a worker exchanges one for a certificate (EnrollWorker), keeps  *)
(* key and certificate in one file, renews the certificate while it runs   *)
(* (renewLoop) and loads it again when it restarts.  The master stores one *)
(* row per identity, authenticates every RPC from the certificate of the   *)
(* connection and can revoke an identity at any time, also between the     *)
(* authentication of a renewal and the row it writes.  Enrollment and      *)
(* renewal ask for the leadership first; it may be lost before the row is  *)
(* written, and worker_identities is not among the fenced tables.          *)
(*                                                                         *)
(* An identity is its index in ident, a certificate the record [id,        *)
(* serial]; serials are issued in order and, all having the same lifetime, *)
(* expire in order: the serials up to clock have expired.  Keys, CSRs and  *)
(* PEM are abstracted to the certificate they end up in.                   *)
(***************************************************************************)
EXTENDS Naturals, Sequences, FiniteSets

CONSTANTS
    Workers,        \* worker processes, each with its identity directory
    Tokens,         \* enrollment tokens an administrator may create
    MaxUses,        \* max_uses of every token
    MaxSerials,     \* bound on the certificates issued
    MaxFaults       \* bound on lost answers, lost leaderships and crashes

IdentityAssumption == MaxUses \in Nat \ {0} /\ MaxSerials \in Nat /\ MaxFaults \in Nat

VARIABLES
    ca,         \* whether the worker_ca row exists
    up,         \* "leader": a master serves; "lost": it serves, its lease gone; "down"
    token,      \* worker_enrollment_tokens
    ident,      \* worker_identities, in the order of their creation
    serials,    \* certificates issued so far
    clock,      \* the serials up to this one have expired
    disk,       \* worker-identity.pem of each worker
    proc,       \* each worker process
    faults

identityVars == <<ca, up, token, ident, serials, clock, disk, proc, faults>>

NoCert == [id |-> 0, serial |-> 0]
Off == [pc |-> "off", cert |-> NoCert, conn |-> NoCert, got |-> NoCert]

IdentityInit ==
    /\ ca = FALSE /\ up = "down"
    /\ token = [t \in Tokens |-> [made |-> FALSE, uses |-> 0, expired |-> FALSE]]
    /\ ident = <<>> /\ serials = 0 /\ clock = 0
    /\ disk = [w \in Workers |-> NoCert]
    /\ proc = [w \in Workers |-> Off]
    /\ faults = 0

Expired(cert) == cert.serial <= clock

(* The master. *)

Serving == up # "down"

requireLeadership == up = "leader"

\* The master, leader by now, loads the worker CA, generating and storing one
\* on first use.
LoadWorkerCA ==
    /\ ~Serving /\ up' = "leader" /\ ca' = TRUE
    /\ UNCHANGED <<token, ident, serials, clock, disk, proc, faults>>

\* The lease is not renewed in time.
LeadershipLost ==
    /\ requireLeadership /\ faults < MaxFaults
    /\ up' = "lost" /\ faults' = faults + 1
    /\ UNCHANGED <<ca, token, ident, serials, clock, disk, proc>>

\* A call the master had not answered fails at the worker, which sends it again.
Disconnected(p) ==
    [p EXCEPT !.pc = CASE @ = "enroll" -> "enrolling" [] @ = "renewing" -> "serving" [] OTHER -> @]

\* A master crashes, or shuts down once its leadership is lost.
MasterStops ==
    /\ \/ requireLeadership /\ faults < MaxFaults /\ faults' = faults + 1
       \/ up = "lost" /\ UNCHANGED faults
    /\ up' = "down"
    /\ proc' = [w \in Workers |-> Disconnected(proc[w])]
    /\ UNCHANGED <<ca, token, ident, serials, clock, disk>>

\* POST /workers/enrollment-tokens, behind withLeadership; the audit row of
\* the same transaction is fenced.
CreateEnrollmentToken(t) ==
    /\ requireLeadership /\ ~token[t].made
    /\ token' = [token EXCEPT ![t].made = TRUE]
    /\ UNCHANGED <<ca, up, ident, serials, clock, disk, proc, faults>>

TokenExpires(t) ==
    /\ token[t].made /\ ~token[t].expired
    /\ token' = [token EXCEPT ![t].expired = TRUE]
    /\ UNCHANGED <<ca, up, ident, serials, clock, disk, proc, faults>>

\* Time passes: the oldest certificate reaches its NotAfter.
CertificateExpires ==
    /\ clock < serials /\ clock' = clock + 1
    /\ UNCHANGED <<ca, up, token, ident, serials, disk, proc, faults>>

\* CA.Issue signs a certificate for the identity.
Issue(id) == [id |-> id, serial |-> serials + 1]

\* What authenticateWorker answers for the certificate of a connection.
authenticateWorker(cert) ==
    IF cert = NoCert \/ Expired(cert) THEN "unauthenticated"
    ELSE IF cert.id \notin DOMAIN ident \/ ident[cert.id].status # "ACTIVE" THEN "denied"
    ELSE "ok"

RevokeKeepingSerial(i) == [ident EXCEPT ![i].status = "REVOKED"]

\* Revoking is permanent; a second revocation writes nothing.  It is behind
\* withLeadership and its audit row is fenced.
RevokeWorkerIdentity(i) ==
    /\ requireLeadership /\ ident[i].status = "ACTIVE"
    /\ ident' = RevokeKeepingSerial(i)
    /\ UNCHANGED <<ca, up, token, serials, clock, disk, proc, faults>>

(* The worker. *)

\* A worker starts from its file, or enrolls when there is none or its
\* certificate has expired.
StartWorker(w) ==
    /\ proc[w].pc = "off"
    /\ proc' = [proc EXCEPT ![w] =
         IF disk[w] = NoCert \/ Expired(disk[w])
         THEN [Off EXCEPT !.pc = "enrolling"]
         ELSE [Off EXCEPT !.pc = "serving", !.cert = disk[w], !.conn = disk[w]]]
    /\ UNCHANGED <<ca, up, token, ident, serials, clock, disk, faults>>

WorkerStops(w) ==
    /\ proc[w].pc # "off" /\ faults < MaxFaults
    /\ proc' = [proc EXCEPT ![w] = Off] /\ faults' = faults + 1
    /\ UNCHANGED <<ca, up, token, ident, serials, clock, disk>>

TokenValid(t) == token[t].made /\ ~token[t].expired /\ token[t].uses < MaxUses

\* Mutant: a retried enrollment does not spend another use of the token.
SpendNothing(t) == token

\* The one transaction of EnrollWorkerIdentity spends a use of the token and
\* inserts the identity.
SpendUse(t) == [token EXCEPT ![t].uses = @ + 1]

EnrollWorkerIdentity(t, cert) ==
    /\ token' = SpendUse(t)
    /\ ident' = Append(ident, [status |-> "ACTIVE", token |-> t, serial |-> cert.serial])

\* The worker sends its token and CSR.  A master that is not the leader
\* answers Unavailable, and the worker sends the same request again.
EnrollWorker(w) ==
    /\ proc[w].pc = "enrolling" /\ requireLeadership
    /\ proc' = [proc EXCEPT ![w].pc = "enroll"]
    /\ UNCHANGED <<ca, up, token, ident, serials, clock, disk, faults>>

\* The rest of EnrollWorker at the master.  An invalid token ends the worker,
\* the loss of the answer makes it send the same request again.
EnrollAnswered(w, t) ==
    LET cert == Issue(Len(ident) + 1)
        lost == [proc EXCEPT ![w].pc = "enrolling"]
        won == [proc EXCEPT ![w].pc = "install", ![w].got = cert]
    IN /\ Serving /\ proc[w].pc = "enroll"
       /\ \/ /\ ~TokenValid(t)
             /\ proc' = [proc EXCEPT ![w] = Off]
             /\ UNCHANGED <<token, ident, serials, faults>>
          \/ /\ TokenValid(t) /\ serials < MaxSerials
             /\ serials' = serials + 1
             /\ EnrollWorkerIdentity(t, cert)
             /\ \/ proc' = won /\ UNCHANGED faults
                \/ faults < MaxFaults /\ faults' = faults + 1 /\ proc' = lost
       /\ UNCHANGED <<ca, up, clock, disk>>

\* install checks that a renewed certificate names the same worker, replaces
\* the file by a rename and presents the certificate on new connections.
Install(w) ==
    LET p == proc[w] IN
    /\ p.pc = "install"
    /\ IF p.cert # NoCert /\ p.got.id # p.cert.id
       THEN proc' = [proc EXCEPT ![w].pc = "serving", ![w].got = NoCert] /\ UNCHANGED disk
       ELSE /\ disk' = [disk EXCEPT ![w] = p.got]
            /\ proc' = [proc EXCEPT ![w] =
                 [pc |-> "serving", cert |-> p.got, got |-> NoCert,
                  conn |-> IF p.conn = NoCert THEN p.got ELSE p.conn]]
    /\ UNCHANGED <<ca, up, token, ident, serials, clock, faults>>

\* The master bounds the age of a connection; the next one presents the
\* certificate the worker holds by then.
Reconnect(w) ==
    /\ Serving /\ proc[w].pc = "serving" /\ proc[w].conn # proc[w].cert
    /\ proc' = [proc EXCEPT ![w].conn = proc[w].cert]
    /\ UNCHANGED <<ca, up, token, ident, serials, clock, disk, faults>>

\* RenewWorkerCertificate first authenticates the connection, then asks for
\* the leadership.  A refused identity ends the renewal loop for good, an
\* expired certificate and a master that is not the leader are retried.
RenewAuthenticated(w) ==
    LET answer == authenticateWorker(proc[w].conn) IN
    /\ Serving /\ proc[w].pc = "serving"
    /\ answer = "denied" \/ (answer = "ok" /\ requireLeadership)
    /\ proc' = [proc EXCEPT ![w].pc = IF answer = "ok" THEN "renewing" ELSE "norenewal"]
    /\ UNCHANGED <<ca, up, token, ident, serials, clock, disk, faults>>

\* Mutant: the serial is recorded whatever the status of the identity.
RecordAnyStatus(id) == TRUE

\* RecordWorkerCertificate updates the row only while it is ACTIVE.
StillActive(id) == ident[id].status = "ACTIVE"

RecordWorkerCertificate(w) ==
    LET id == proc[w].conn.id
        cert == Issue(id)
    IN /\ Serving /\ proc[w].pc = "renewing"
       /\ \/ /\ ~StillActive(id)
             /\ proc' = [proc EXCEPT ![w].pc = "norenewal"]
             /\ UNCHANGED <<ident, serials, faults>>
          \/ /\ StillActive(id) /\ serials < MaxSerials
             /\ serials' = serials + 1
             /\ ident' = [ident EXCEPT ![id].serial = cert.serial]
             /\ \/ /\ proc' = [proc EXCEPT ![w].pc = "install", ![w].got = cert]
                   /\ UNCHANGED faults
                \/ /\ faults < MaxFaults /\ faults' = faults + 1
                   /\ proc' = [proc EXCEPT ![w].pc = "serving"]
       /\ UNCHANGED <<ca, up, token, clock, disk>>

IdentityNext ==
    \/ LoadWorkerCA \/ LeadershipLost \/ MasterStops \/ CertificateExpires
    \/ \E t \in Tokens : CreateEnrollmentToken(t) \/ TokenExpires(t)
    \/ \E i \in DOMAIN ident : RevokeWorkerIdentity(i)
    \/ \E w \in Workers :
         \/ StartWorker(w) \/ WorkerStops(w) \/ Install(w) \/ Reconnect(w)
         \/ EnrollWorker(w) \/ RenewAuthenticated(w) \/ RecordWorkerCertificate(w)
         \/ \E t \in Tokens : EnrollAnswered(w, t)

IdentitySpec == IdentityInit /\ [][IdentityNext]_identityVars

-----------------------------------------------------------------------------
Certs == [id : 0..MaxSerials, serial : 0..MaxSerials]

\* The variables keep their types.
IdentityTypeOK ==
    /\ ca \in BOOLEAN /\ up \in {"down", "leader", "lost"} /\ serials \in 0..MaxSerials /\ clock \in 0..serials
    /\ token \in [Tokens -> [made : BOOLEAN, uses : 0..MaxUses, expired : BOOLEAN]]
    /\ ident \in Seq([status : {"ACTIVE", "REVOKED"}, token : Tokens, serial : 1..MaxSerials])
    /\ disk \in [Workers -> Certs]
    /\ proc \in [Workers -> [pc : {"off", "enrolling", "enroll", "install", "serving", "renewing",
                                   "norenewal"},
                             cert : Certs, conn : Certs, got : Certs]]
    /\ faults \in 0..MaxFaults

\* A token enrolls exactly as many workers as uses were spent on it, never
\* more than it allows, whatever answers are lost and retried: one use per
\* identity (EnrollWorkerIdentity).
TokenUsesCounted ==
    \A t \in Tokens :
        /\ Cardinality({i \in DOMAIN ident : ident[i].token = t}) = token[t].uses
        /\ token[t].uses <= MaxUses

\* Revocation is permanent: no step, not even the second half of a renewal
\* that was authenticated before the revocation, changes the row of a
\* revoked identity (RevokeWorkerIdentityAudited, RecordWorkerCertificate).
RevokedIsPermanent ==
    \A i \in DOMAIN ident :
        ident[i].status = "REVOKED" => i \in DOMAIN ident' /\ ident'[i] = ident[i]

\* A worker never mixes identities: what it presents, what it holds in memory
\* and what its file holds name one worker, and no two workers share one.
OneIdentityPerWorker ==
    /\ \A w \in Workers :
         LET p == proc[w] IN
         p.cert # NoCert => p.conn.id = p.cert.id /\ disk[w] = p.cert
    /\ \A v, w \in Workers : v # w /\ disk[v] # NoCert => disk[v].id # disk[w].id
=============================================================================
