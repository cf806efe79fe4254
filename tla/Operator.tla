----------------------------- MODULE Operator -----------------------------
(***************************************************************************)
(* The Kubernetes operator (internal/operator): the controllers that keep  *)
(* certificates, certificate requests, authorities and issuers in line     *)
(* with their resources.  A controller reconciles one key at a time from a *)
(* work queue; between its reads and its writes users edit resources, the  *)
(* vault and the API server fail, and the operator may be restarted.       *)
(*                                                                         *)
(* The queue of a key is [now: to be reconciled, later: a delayed          *)
(* reconcile is pending]; delays themselves are not modelled.  An update   *)
(* of a resource that changed since it was read is refused (stale).        *)
(* A certificate is the names it is for and the days it has left; the      *)
(* resource's status, the Secret and the reconcile in progress hold one    *)
(* each, as serial and end do in the code.                                 *)
(***************************************************************************)
EXTENDS Integers

CONSTANTS
  Hosts,        \* what the Ingress may name
  Issuers,      \* issuer resources: [legacy: names a CA the old way, modes: what it sets]
  Duration,     \* days a certificate lives
  RenewBeforeDays,
  MaxFaults     \* bound of the model: failures and restarts

ASSUME OperatorAssumption ==
  /\ {Duration, RenewBeforeDays, MaxFaults} \subseteq Nat /\ RenewBeforeDays < Duration
  /\ Issuers \subseteq [legacy : BOOLEAN, modes : SUBSET {"vault", "selfsigned", "acme"}]

VARIABLES
  hosts,    \* of the Ingress (or Gateway) the certificate is made for
  cert,     \* KNXVaultCertificate: [names, issuer, crt, ready]
  secret,   \* its Secret: [owner: "none", "cert", "other"; crt]
  work,     \* the certificate controller's reconcile in progress
  queue,    \* of the certificate's key
  request,  \* KNXVaultCertificateRequest: [done, secret, pc, queue]
  chain,    \* authorities and issuer: [name -> [known, ready, vault, pc, queue]]
  faults

operatorVars == <<hosts, cert, secret, work, queue, request, chain, faults>>

NoCrt == [names |-> "none", left |-> 0]
NoWork == [pc |-> "idle", names |-> "none", crt |-> NoCrt, prior |-> NoCrt, stale |-> FALSE]
Fault == faults < MaxFaults /\ faults' = faults + 1

----------------------------------------------------------------------------
(* Certificates *)

DueOnce(crt) == crt = NoCrt
(* renew.NeedsRenew *)
Due(crt) == crt.left <= RenewBeforeDays

(* certlogic.ValidateAndDecide: the end recorded in the status and whether *)
(* a Secret of that name exists, whoever owns it.                          *)
ValidateAndDecide == Due(cert.crt) \/ secret.owner = "none"

Retry == [now |-> TRUE, later |-> queue.later]
Delayed == [now |-> queue.now, later |-> TRUE]

NotDue == queue' = [now |-> FALSE, later |-> TRUE]

(* A reconcile starts.  Nothing to do: look again later.  Otherwise the    *)
(* Issuing condition is written, which is an event of its own.             *)
Reconcile ==
  /\ queue.now /\ work.pc = "idle"
  /\ IF ~ValidateAndDecide
     THEN NotDue /\ UNCHANGED work
     ELSE /\ work' = [NoWork EXCEPT !.pc = "issue", !.names = cert.names, !.prior = cert.crt]
          /\ queue' = Retry
  /\ UNCHANGED <<hosts, cert, secret, request, chain, faults>>

(* resolveMulti: exactly one mode, or the legacy name of a vault CA. *)
resolveMulti(i) ==
  IF i.modes = {} /\ i.legacy THEN "vault"
  ELSE IF \E m \in i.modes : i.modes = {m} THEN CHOOSE m \in i.modes : TRUE
  ELSE "error"

Mode == resolveMulti(cert.issuer)

(* failCert: the failure is recorded unless the resource moved on, and the *)
(* key comes back after a back-off.                                        *)
failCert ==
  /\ work.pc = "issue"
  /\ IF Mode = "error" THEN UNCHANGED faults ELSE Fault
  /\ IF work.stale THEN UNCHANGED cert ELSE cert' = [cert EXCEPT !.ready = FALSE]
  /\ work' = NoWork /\ queue' = Delayed
  /\ UNCHANGED <<hosts, secret, request, chain>>

PreferRenew == work.prior # NoCrt

(* The issuers.  The vault renews from its own record of the certificate,  *)
(* everything else starts from the names it is given.                      *)
VaultRenew(crt) == [names |-> crt.names, left |-> Duration]
VaultIssue(names) == [names |-> names, left |-> Duration]
SelfSignedIssue(names) == [names |-> names, left |-> Duration]
issueACME(names) == [names |-> names, left |-> Duration]

IssueFromResolved ==
  CASE Mode = "vault" -> VaultIssue(work.names)
    [] Mode = "selfsigned" -> SelfSignedIssue(work.names)
    [] Mode = "acme" -> issueACME(work.names)

(* A vault certificate is renewed; where that fails, and everywhere else,  *)
(* one is issued for the resource as it was read.                          *)
issueOrRenewMulti ==
  /\ work.pc = "issue" /\ Mode # "error"
  /\ \E renew \in BOOLEAN :
       /\ renew => Mode = "vault" /\ PreferRenew
       /\ IF ~renew /\ Mode = "vault" /\ PreferRenew THEN Fault ELSE UNCHANGED faults
       /\ work' = [work EXCEPT !.pc = "secret", !.crt = IF renew THEN VaultRenew(work.prior) ELSE IssueFromResolved]
  /\ UNCHANGED <<hosts, cert, secret, queue, request, chain>>

ApplyOnce ==
  /\ secret.owner # "other"
  /\ secret' = IF secret.owner = "cert" THEN secret ELSE [owner |-> "cert", crt |-> work.crt]
ApplySecret == secret.owner # "other" /\ secret' = [owner |-> "cert", crt |-> work.crt]

(* The Secret is created or replaced; if it is somebody else's, or the     *)
(* write fails, the new certificate is dropped and the key tried again.    *)
applyTLSSecret ==
  /\ work.pc = "secret"
  /\ \/ /\ ApplySecret
        /\ work' = [work EXCEPT !.pc = "status"] /\ queue' = Retry /\ UNCHANGED faults
     \/ /\ IF secret.owner = "other" THEN UNCHANGED faults ELSE Fault
        /\ work' = NoWork /\ queue' = Retry /\ UNCHANGED secret
  /\ UNCHANGED <<hosts, cert, request, chain>>

(* The status follows the Secret.  After a conflict the error brings the   *)
(* key back, and the certificate is obtained once more.                    *)
UpdateStatus ==
  /\ work.pc = "status"
  /\ IF work.stale
     THEN UNCHANGED cert /\ queue' = Retry
     ELSE /\ cert' = [cert EXCEPT !.crt = work.crt, !.ready = TRUE]
          /\ queue' = [now |-> TRUE, later |-> TRUE]
  /\ work' = NoWork
  /\ UNCHANGED <<hosts, secret, request, chain, faults>>

TimerFires ==
  /\ queue.later /\ queue' = [now |-> TRUE, later |-> FALSE]
  /\ UNCHANGED <<hosts, cert, secret, work, request, chain, faults>>

(* The Ingress names other hosts; its controller copies them to the        *)
(* certificate, whose update any reconcile in progress will run into.      *)
EditIngress ==
  /\ \E h \in Hosts \ {hosts} : hosts' = h
  /\ UNCHANGED <<cert, secret, work, queue, request, chain, faults>>

IngressReconcile ==
  /\ cert.names # hosts
  /\ cert' = [cert EXCEPT !.names = hosts]
  /\ work' = IF work.pc = "idle" THEN work ELSE [work EXCEPT !.stale = TRUE]
  /\ queue' = Retry
  /\ UNCHANGED <<hosts, secret, request, chain, faults>>

(* Deleting the certificate's own Secret is an event, anything done to     *)
(* another's is not.                                                       *)
DeleteSecret ==
  /\ secret.owner # "none" /\ Fault
  /\ secret' = [owner |-> "none", crt |-> NoCrt]
  /\ queue' = IF secret.owner = "cert" THEN Retry ELSE queue
  /\ UNCHANGED <<hosts, cert, work, request, chain>>

ForeignSecret ==
  /\ secret.owner = "none" /\ Fault
  /\ secret' = [owner |-> "other", crt |-> NoCrt]
  /\ UNCHANGED <<hosts, cert, work, queue, request, chain>>

Older(crt) == [crt EXCEPT !.left = IF @ = 0 THEN 0 ELSE @ - 1]

(* A day is long: what is queued is done before it passes. *)
NextDay ==
  /\ work.pc = "idle" /\ ~queue.now
  /\ cert' = [cert EXCEPT !.crt = Older(@)]
  /\ secret' = [secret EXCEPT !.crt = Older(@)]
  /\ UNCHANGED <<hosts, work, queue, request, chain, faults>>

(* Every resource is reconciled when the operator starts. *)
Restart ==
  /\ work.pc # "idle" \/ queue.later
  /\ Fault
  /\ work' = NoWork /\ queue' = [now |-> TRUE, later |-> FALSE]
  /\ UNCHANGED <<hosts, cert, secret, request, chain>>

Controller == Reconcile \/ issueOrRenewMulti \/ applyTLSSecret \/ UpdateStatus
CertNext ==
  \/ Controller \/ failCert \/ TimerFires \/ IngressReconcile \/ EditIngress
  \/ DeleteSecret \/ ForeignSecret \/ NextDay \/ Restart

----------------------------------------------------------------------------
(* Certificate requests *)

SetRequest(r) == request' = r /\ UNCHANGED <<hosts, cert, secret, work, queue, chain>>
Requeued == [request EXCEPT !.pc = "idle", !.queued = TRUE]

SignRequest ==
  /\ request.queued /\ request.pc = "idle"
  /\ \/ request.done /\ SetRequest([request EXCEPT !.queued = FALSE]) /\ UNCHANGED faults
     \/ ~request.done /\ SetRequest([request EXCEPT !.pc = "status", !.queued = FALSE]) /\ UNCHANGED faults
     \/ ~request.done /\ Fault /\ SetRequest(Requeued)

(* The status is written first: from then on the request is done. *)
RecordRequest ==
  /\ request.pc = "status"
  /\ \/ SetRequest([request EXCEPT !.done = TRUE, !.pc = "secret", !.queued = TRUE]) /\ UNCHANGED faults
     \/ Fault /\ SetRequest(Requeued)

(* If the Secret's write fails, the next reconcile finds nothing to do. *)
WriteRequestSecret ==
  /\ request.pc = "secret"
  /\ \/ SetRequest([request EXCEPT !.secret = TRUE, !.pc = "idle"]) /\ UNCHANGED faults
     \/ Fault /\ SetRequest([Requeued EXCEPT !.lost = TRUE])

RestartRequest ==
  /\ request.pc # "idle" /\ Fault
  /\ SetRequest([Requeued EXCEPT !.lost = request.lost \/ request.pc = "secret"])

RequestNext == SignRequest \/ RecordRequest \/ WriteRequestSecret \/ RestartRequest

----------------------------------------------------------------------------
(* Authorities and the issuer that names one *)

Parent(n) == IF n = "inter" THEN {"root"} ELSE {}
SetChain(n, c) == chain' = [chain EXCEPT ![n] = c] /\ UNCHANGED <<hosts, cert, secret, work, queue, request>>
Again(c) == [c EXCEPT !.pc = "idle", !.queued = TRUE]

(* CAReconciler: an authority of that name in the vault is adopted; once   *)
(* the status names one nothing is created any more, found or not.         *)
Adopted(c) == [c EXCEPT !.known = TRUE, !.ready = TRUE, !.pc = "idle", !.queued = FALSE]

ReconcileCA(n) ==
  LET c == chain[n] IN
  /\ n # "issuer" /\ c.queued /\ c.pc = "idle"
  /\ \/ c.vault /\ SetChain(n, Adopted(c)) /\ UNCHANGED faults
     \/ /\ IF c.vault THEN Fault ELSE UNCHANGED faults
        /\ SetChain(n, IF c.known THEN [c EXCEPT !.queued = FALSE] ELSE [c EXCEPT !.pc = "create"])

(* Without its parent an intermediate is refused.  An answer that is lost  *)
(* after the authority was made is made good by adopting it.               *)
CreateCA(n) ==
  LET c == chain[n]
      made == \A p \in Parent(n) : chain[p].vault
  IN
  /\ c.pc = "create"
  /\ \/ made /\ SetChain(n, [c EXCEPT !.vault = TRUE, !.pc = "status"]) /\ UNCHANGED faults
     \/ ~made /\ SetChain(n, Again([c EXCEPT !.ready = FALSE])) /\ UNCHANGED faults
     \/ made /\ Fault /\ \E v \in {c.vault, TRUE} : SetChain(n, Again([c EXCEPT !.vault = v, !.ready = FALSE]))

RecordCA(n) ==
  /\ chain[n].pc = "status"
  /\ \/ SetChain(n, Adopted(chain[n])) /\ UNCHANGED faults
     \/ Fault /\ SetChain(n, Again(chain[n]))

(* IssuerReconciler: ready when its authority is in the vault, or its      *)
(* resource says so; otherwise it is looked at again.                      *)
ensureVaultCA == chain["inter"].vault \/ chain["inter"].ready

ReconcileIssuer ==
  LET c == chain["issuer"] IN
  /\ c.queued
  /\ IF ensureVaultCA
     THEN SetChain("issuer", Adopted(c))
     ELSE SetChain("issuer", Again([c EXCEPT !.ready = FALSE]))
  /\ UNCHANGED faults

RestartCA(n) ==
  /\ chain[n].pc # "idle" /\ Fault
  /\ SetChain(n, Again(chain[n]))

ChainStep(n) == ReconcileCA(n) \/ CreateCA(n) \/ RecordCA(n)
ChainNext == ReconcileIssuer \/ \E n \in {"root", "inter"} : ChainStep(n) \/ RestartCA(n)

----------------------------------------------------------------------------
NewCA == [known |-> FALSE, ready |-> FALSE, vault |-> FALSE, pc |-> "idle", queued |-> TRUE]

OperatorInit ==
  /\ hosts \in Hosts
  /\ cert \in [names : {hosts}, issuer : Issuers, crt : {NoCrt}, ready : {FALSE}]
  /\ secret = [owner |-> "none", crt |-> NoCrt]
  /\ work = NoWork /\ queue = [now |-> TRUE, later |-> FALSE]
  /\ request = [done |-> FALSE, secret |-> FALSE, lost |-> FALSE, pc |-> "idle", queued |-> TRUE]
  /\ chain = [n \in {"root", "inter", "issuer"} |-> NewCA]
  /\ faults = 0

OperatorSpec == OperatorInit /\ [][CertNext \/ RequestNext \/ ChainNext]_operatorVars

(* Renewal is decided by the end the status records, so the certificate in *)
(* the Secret must never end earlier: it may be newer than the status says *)
(* (the operator died, or the resource changed, between the two writes),   *)
(* never older (Reconcile writes the Secret first).                        *)
SecretOutlastsStatus == secret.owner = "cert" => secret.crt.left >= cert.crt.left

(* A missing Secret or an expired certificate in it is replaced, unless    *)
(* somebody else takes the name or the issuer resource is invalid.         *)
Delivered ==
  Mode # "error" /\ (secret.owner = "none" \/ (secret.owner = "cert" /\ secret.crt.left = 0))
    ~> (secret.owner = "other" \/ (secret.owner = "cert" /\ secret.crt.left > 0))

(* A request is signed and recorded in the end, and its Secret written     *)
(* unless that write itself was lost.                                      *)
RequestAnswered == <>(request.done /\ (request.secret \/ request.lost))

(* Root, intermediate and issuer become ready in whatever order they are   *)
(* created, lost answers and restarts included.                            *)
ChainReady == <>[](\A n \in DOMAIN chain : chain[n].ready)

(* The certificate in the Secret follows the hosts once they no longer     *)
(* change.                                                                 *)
NamesFollow == \A h \in Hosts :
  <>[](hosts = h) => <>[](secret.owner = "cert" => secret.crt.names = h)
=============================================================================
