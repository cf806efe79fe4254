-------------------------------- MODULE PKI --------------------------------
(***************************************************************************)
(* Certificate authorities, issuance roles, leaf certificates, revocation  *)
(* and the two leader jobs that work on them.  internal/engine/pki holds   *)
(* the operations, internal/api/handlers/pki.go the requests that reach    *)
(* them, internal/repository/memory the tables and internal/app/jobs.go    *)
(* the jobs.                                                               *)
(*                                                                         *)
(* A name is a sequence of labels, most specific first.  A CA is the       *)
(* position of its record in cas and a serial the position of the          *)
(* certificate in certs: serials are 128 random bits and do not collide.   *)
(* The serial 0 stands for text that is not a hexadecimal number.          *)
(* Refused requests change nothing and are not steps.                      *)
(***************************************************************************)
EXTENDS Integers, FiniteSets, Sequences

CONSTANTS
  Roots,          \* what may be asked of POST /pki/root
  Intermediates,  \* of POST /pki/intermediate
  Imports,        \* of POST /pki/ca/import
  RolePuts,       \* of PUT /pki/roles/:name
  Requests,       \* of POST /pki/issue and /pki/issue-client-cert
  CSRs,           \* of POST /pki/sign
  Founded,        \* the CA records and roles the leaves part starts with
  RenewTTLs,      \* lifetimes asked of POST /pki/renew, 0 for none
  LeafTTL,        \* defaultLeafTTL
  MaxLeafTTL,     \* defaultMaxLeafTTL
  CRLTTL,         \* the lifetime of a CRL
  Grace,          \* RenewGrace
  Limit,          \* certificates in one run of the renewal job
  MaxCAs, MaxAsked, MaxCerts, MaxRevoked, MaxClock, MaxFailures   \* bounds of the model

ASSUME PKIAssumption ==
  /\ {LeafTTL, MaxLeafTTL, CRLTTL, Limit} \subseteq Nat \ {0}
  /\ {Grace, MaxCAs, MaxAsked, MaxCerts, MaxRevoked, MaxClock, MaxFailures} \subseteq Nat
  /\ RenewTTLs \subseteq Nat /\ \A req \in Requests \cup CSRs : req.ttl \in Nat
  /\ \A name \in DOMAIN RolePuts : \A role \in RolePuts[name] : {"max", "usage"} \subseteq DOMAIN role /\ role.max \in Int
  /\ \A name \in DOMAIN Founded.roles : Founded.roles[name].max \in Int

VARIABLES
  cas,      \* CARepository: the CA records in order of creation
  roles,    \* PKIRoleRepository
  certs,    \* the leaf certificates signed so far
  issued,   \* IssuedCertRepository, by serial
  revoked,  \* RevocationRepository: serial -> the CA it was revoked under
  job,      \* the leader's job goroutine: what it runs and what is left
  now,
  failures, \* writes that failed so far
  scope     \* which requests this behaviour is about

stores == <<cas, roles, certs, issued, revoked>>
pkiVars == <<stores, job, now, failures, scope>>

AnyName == <<"*">>
Unconfigured == <<"_unconfigured", "invalid">>
NoJob == [kind |-> "none", todo |-> <<>>]
AsksLeft == Len(certs) < MaxAsked

(* Two kinds of behaviours: CAs are founded, rotated and publish CRLs, or  *)
(* leaves of two founded CAs are issued and renewed.                       *)
PKIInit ==
  /\ scope \in {"authorities", "leaves"}
  /\ cas = IF scope = "leaves" THEN Founded.cas ELSE <<>>
  /\ roles = IF scope = "leaves" THEN Founded.roles ELSE <<>>
  /\ certs = <<>> /\ issued = <<>> /\ revoked = <<>>
  /\ job = NoJob /\ now = 0 /\ failures = 0

(* A table with one row more or one row replaced. *)
With(table, key, row) ==
  [k \in DOMAIN table \cup {key} |-> IF k = key THEN row ELSE table[k]]

(* A write reaches the store, or it fails and the caller sees an error. *)
Write(ok) == IF ok THEN UNCHANGED failures ELSE failures < MaxFailures /\ failures' = failures + 1

----------------------------------------------------------------------------
(* Domain rules *)

AllowsAnyDomain(role) == AnyName \in role.domains

(* The name ends in a dot and the domain. *)
HasSuffix(name, d) ==
  Len(d) < Len(name) /\ SubSeq(name, Len(name) - Len(d) + 1, Len(name)) = d

AllowedDomain(role, name) ==
  \/ AllowsAnyDomain(role)
  \/ \E d \in role.domains : d = name \/ (role.subdomains /\ HasSuffix(name, d))

(* Role.Validate: the usage defaults to server, no domain is an error. *)
RoleValid(role) == role.domains # {}
Normalized(role) == [role EXCEPT !.usage = IF @ = "" THEN "server" ELSE @]

GetByName(name) == {i \in DOMAIN cas : cas[i].name = name}

(* CARepository.Save of a new record. *)
Save(ca) == GetByName(ca.name) = {} /\ cas' = Append(cas, ca)

(* ensureDefaultRole: a role of the CA's name, unless there is one. *)
EnsureDefaultRole(name, domains, subdomains, ok) ==
  roles' = IF name \in DOMAIN roles \/ ~ok THEN roles
           ELSE With(roles, name, Normalized(
                  [ca |-> name, domains |-> IF domains = {} THEN {Unconfigured} ELSE domains,
                   subdomains |-> subdomains, max |-> MaxLeafTTL, usage |-> ""]))

----------------------------------------------------------------------------
(* Certificate authorities *)

NewAuthority(name, parent, ttl) ==
  [name |-> name, parent |-> parent, expires |-> now + ttl, crlNext |-> -1]

EngineCreateRoot(req, ok) ==
  /\ Len(cas) < MaxCAs
  /\ Save(NewAuthority(req.name, 0, req.ttl))
  /\ EnsureDefaultRole(req.name, req.domains, req.subdomains, ok)
  /\ Write(ok)
  /\ UNCHANGED <<certs, issued, revoked, job, now>>

(* The parent is looked up by name; neither its age nor its kind matters. *)
EngineCreateIntermediate(req, ok) ==
  /\ Len(cas) < MaxCAs
  /\ \E p \in GetByName(req.parent) : Save(NewAuthority(req.name, p, req.ttl))
  /\ EnsureDefaultRole(req.name, req.domains, req.subdomains, ok)
  /\ Write(ok)
  /\ UNCHANGED <<certs, issued, revoked, job, now>>

CreateRoot == \E req \in Roots, ok \in BOOLEAN : EngineCreateRoot(req, ok)

CreateIntermediate ==
  \E req \in Intermediates, ok \in BOOLEAN : EngineCreateIntermediate(req, ok)

(* An imported pair must match and be RSA of 2048 bits; it gets no role. *)
verifyCertKeyMatch(req) == req.pair = "same"
validateImportedKeyStrength(req) == req.key = "rsa2048"

EngineImportCA(req) ==
  /\ Len(cas) < MaxCAs
  /\ verifyCertKeyMatch(req) /\ validateImportedKeyStrength(req)
  /\ \/ req.parent = <<>> /\ Save(NewAuthority(req.name, 0, req.ttl))
     \/ \E p \in GetByName(req.parent) : Save(NewAuthority(req.name, p, req.ttl))
  /\ UNCHANGED <<roles, certs, issued, revoked, job, now, failures>>

ImportCA == \E req \in Imports : EngineImportCA(req)

(* RotateCA creates a successor named after the second it is made in; the *)
(* old CA and the roles that name it stay as they are.                    *)
Successor(name) == Append(name, now)

EngineRotateCA(i, ok) ==
  LET root == cas[i].parent = 0
      req == [name |-> Successor(cas[i].name), domains |-> {}, subdomains |-> FALSE,
              ttl |-> MaxLeafTTL, parent |-> IF root THEN <<>> ELSE cas[cas[i].parent].name]
  IN IF root THEN EngineCreateRoot(req, ok) ELSE EngineCreateIntermediate(req, ok)

RotateCA == \E i \in DOMAIN cas, ok \in BOOLEAN : EngineRotateCA(i, ok)

(* ExportCA: the CA's certificate and its parent's, not the whole chain. *)
ChainPEM(i) == IF cas[i].parent = 0 THEN <<i>> ELSE <<i, cas[i].parent>>

SaveRole(name, role) == RoleValid(role) /\ roles' = With(roles, name, Normalized(role))

PutRole == \E name \in DOMAIN RolePuts : \E role \in RolePuts[name] :
  /\ SaveRole(name, role)
  /\ UNCHANGED <<cas, certs, issued, revoked, job, now, failures>>

----------------------------------------------------------------------------
(* Leaf certificates *)

(* The ttl 0 stands for a request without one. *)
MaxTTL(role) == IF role.max > 0 THEN role.max ELSE MaxLeafTTL

validateIssueAgainstRole(role, req) ==
  /\ \A n \in req.names : AllowedDomain(role, n)
  /\ req.ip => AllowsAnyDomain(role)
  /\ req.ttl <= MaxTTL(role)

validateCSRAgainstRole(role, req) ==
  /\ req.ip \/ req.mail \/ req.names = {} => AllowsAnyDomain(role)
  /\ \A n \in req.names : AllowedDomain(role, n)
  /\ req.ttl <= MaxTTL(role)

(* Without a ttl Issue takes the default or the role's maximum. *)
IssueTTL(role, req) ==
  CASE req.ttl > 0 -> req.ttl
    [] req.ttl = 0 /\ LeafTTL > MaxTTL(role) -> MaxTTL(role)
    [] OTHER -> LeafTTL

(* A forced usage gives way to no role but an explicit server role. *)
UsageAllowed(role, req) == req.force # "" => role.usage # "server" \/ req.force = "server"
Usage(role, req) == IF req.force # "" THEN req.force ELSE role.usage

keyUsageForRole(usage) ==
  CASE usage = "client" -> {"clientAuth"}
    [] usage = "code_signing" -> {"codeSigning"}
    [] OTHER -> {"serverAuth"}

Leaf(ca, req, ttl, usage) ==
  [ca |-> ca, names |-> req.names, ip |-> req.ip, eku |-> keyUsageForRole(usage),
   expires |-> now + ttl]

SignersUnchecked(req) ==
  {i \in DOMAIN cas : req.role \in DOMAIN roles /\ cas[i].name = roles[req.role].ca}

(* What may be signed for a request: the CAs of its role, if all checks pass. *)
Signers(req) ==
  {i \in DOMAIN cas : /\ req.role \in DOMAIN roles
                      /\ cas[i].name = roles[req.role].ca
                      /\ validateIssueAgainstRole(roles[req.role], req)
                      /\ UsageAllowed(roles[req.role], req)}

(* The record of an issued certificate: no addresses and no usage in it. *)
IssuedRecord(ca, req, from) ==
  [ca |-> ca, role |-> req.role, names |-> req.names,
   ttl |-> IssueTTL(roles[req.role], req),
   expires |-> now + IssueTTL(roles[req.role], req), auto |-> req.auto, from |-> from]

(* Signs for req with ca and records it as the renewal of from, 0 for none. *)
IssueCertificate(ca, req, from) ==
  LET role == roles[req.role]
  IN /\ certs' = Append(certs, Leaf(ca, req, IssueTTL(role, req), Usage(role, req)))
     /\ issued' = With(issued, Len(certs) + 1, IssuedRecord(ca, req, from))

(* When the record cannot be saved the certificate is given to nobody. *)
Issue == \E req \in Requests :
  /\ AsksLeft /\ req.force = ""
  /\ \E ca \in Signers(req) : IssueCertificate(ca, req, 0)
  /\ UNCHANGED <<cas, roles, revoked, job, now, failures>>

(* issue-client-cert: one name, the client usage, no renewal. *)
IssueClientCert == \E req \in Requests :
  /\ AsksLeft /\ req.force = "client" /\ Cardinality(req.names) = 1 /\ ~req.auto /\ ~req.ip
  /\ \E ca \in Signers(req) : IssueCertificate(ca, req, 0)
  /\ UNCHANGED <<cas, roles, revoked, job, now, failures>>

(* A signed CSR is not recorded, and its default ttl is not cut short. *)
CSRAllowed(role, req) ==
  /\ validateCSRAgainstRole(role, req)
  /\ (req.ttl = 0 => LeafTTL <= MaxTTL(role))

CSRLeaf(ca, req) ==
  Leaf(ca, req, IF req.ttl = 0 THEN LeafTTL ELSE req.ttl, roles[req.role].usage)

EngineSignCSR(req) ==
  /\ req.role \in DOMAIN roles /\ CSRAllowed(roles[req.role], req)
  /\ \E ca \in GetByName(roles[req.role].ca) : certs' = Append(certs, CSRLeaf(ca, req))

SignCSR == \E req \in CSRs :
  /\ AsksLeft /\ EngineSignCSR(req)
  /\ UNCHANGED <<cas, roles, issued, revoked, job, now, failures>>

----------------------------------------------------------------------------
(* Renewal *)

(* The request a renewal makes of a record. *)
RenewalOf(record, ttl) ==
  [role |-> record.role, names |-> record.names, ip |-> FALSE,
   ttl |-> IF ttl > 0 THEN ttl ELSE record.ttl, auto |-> record.auto, force |-> ""]

(* The new record is looked up under the old one's CA: when the role names *)
(* another CA by now, the certificate exists and the renewal has failed.   *)
LinkAlways(s, ca, ok) == IF ok THEN s ELSE 0
Link(s, ca, ok) == IF ok /\ ca = issued[s].ca THEN s ELSE 0

RenewCertificate(s, ttl, ok) ==
  /\ Len(certs) < MaxCerts
  /\ \E ca \in Signers(RenewalOf(issued[s], ttl)) :
       IssueCertificate(ca, RenewalOf(issued[s], ttl), Link(s, ca, ok))
  /\ Write(ok)

Renew == \E s \in DOMAIN issued, ttl \in RenewTTLs, ok \in BOOLEAN :
  /\ AsksLeft /\ RenewCertificate(s, ttl, ok)
  /\ UNCHANGED <<cas, roles, revoked, job, now>>

(* ListExpiring: the auto-renewed records that expire before the deadline, *)
(* past ones and renewed ones included, the earliest first, Limit at most. *)
ExpiringUnexpired(before) ==
  {s \in DOMAIN issued : issued[s].auto /\ issued[s].expires \in (now + 1)..before}
Expiring(before) == {s \in DOMAIN issued : issued[s].auto /\ issued[s].expires <= before}

ListExpiring(before) ==
  LET all == Expiring(before)
  IN {q \in UNION {[1..k -> all] : k \in 0..Limit} :
        LET listed == {q[i] : i \in DOMAIN q}
        IN  /\ Len(q) < Limit => listed = all
            /\ \A i \in DOMAIN q :
                 /\ \A j \in i + 1..Len(q) : q[i] # q[j] /\ issued[q[i]].expires <= issued[q[j]].expires
                 /\ \A s \in all \ listed : issued[q[i]].expires <= issued[s].expires}

StartRenewal ==
  /\ job = NoJob
  /\ \E q \in ListExpiring(now + Grace) :
       q # <<>> /\ job' = [kind |-> "renew", todo |-> q]
  /\ UNCHANGED <<cas, roles, certs, issued, revoked, now, failures>>

EndsAfter(todo) == IF Len(todo) = 1 THEN NoJob ELSE [job EXCEPT !.todo = Tail(todo)]

(* The first error ends the run: the records behind it wait for the next. *)
RenewNext ==
  /\ job.kind = "renew"
  /\ LET s == Head(job.todo)
         can == Len(certs) < MaxCerts /\ Signers(RenewalOf(issued[s], 0)) # {}
     IN \/ /\ can
           /\ \E ok \in BOOLEAN :
                /\ RenewCertificate(s, 0, ok)
                /\ job' = IF issued'[Len(certs) + 1].from = s THEN EndsAfter(job.todo)
                          ELSE NoJob
        \/ ~can /\ job' = NoJob /\ UNCHANGED <<certs, issued, failures>>
  /\ UNCHANGED <<cas, roles, revoked, now>>

----------------------------------------------------------------------------
(* Revocation *)

(* The first revocation of a serial stays, under the CA it was sent with.  *)
RevokeFirst(s, ca) == s \notin DOMAIN revoked /\ revoked' = With(revoked, s, ca)

Revoke == \E s \in 0..Len(certs), ca \in DOMAIN cas :
  /\ Cardinality(DOMAIN revoked \cup {s}) <= MaxRevoked
  /\ RevokeFirst(s, ca)
  /\ UNCHANGED <<cas, roles, certs, issued, job, now, failures>>

ListByCA(ca) == {s \in DOMAIN revoked : revoked[s] = ca}

(* GenerateCRL lists every entry of the CA, and fails if one is no number. *)
GenerateCRL(ca) == IF 0 \in ListByCA(ca) THEN {} ELSE {ListByCA(ca)}

(* OCSP answers by the serial alone, for a serial it never saw as well. *)
HandleOCSP(s) == IF s \in DOMAIN revoked THEN "revoked" ELSE "good"

CRLSaved(ca) == [ca EXCEPT !.crlNext = now + CRLTTL]

(* runCRLRefresh lists the CAs, and writes each due one back as listed, *)
(* its CRL made and the time of the next one set.                       *)
StartCRLRefresh ==
  /\ job = NoJob
  /\ LET due == SelectSeq([i \in DOMAIN cas |-> i], LAMBDA i : cas[i].crlNext <= now)
     IN due # <<>> /\ job' = [kind |-> "crl", todo |-> [k \in DOMAIN due |-> <<due[k], CRLSaved(cas[due[k]])>>]]
  /\ UNCHANGED <<cas, roles, certs, issued, revoked, now, failures>>

RefreshNext ==
  /\ job.kind = "crl"
  /\ \E ok \in BOOLEAN :
       /\ Write(ok)
       /\ cas' = IF GenerateCRL(Head(job.todo)[1]) # {} /\ ok
                 THEN [cas EXCEPT ![Head(job.todo)[1]] = Head(job.todo)[2]]
                 ELSE cas
  /\ job' = EndsAfter(job.todo)
  /\ UNCHANGED <<roles, certs, issued, revoked, now>>

Tick ==
  /\ now < MaxClock /\ now' = now + 1
  /\ UNCHANGED <<cas, roles, certs, issued, revoked, job, failures>>

Authorities ==
  /\ scope = "authorities"
  /\ \/ CreateRoot \/ CreateIntermediate \/ ImportCA \/ RotateCA
     \/ Issue \/ Revoke \/ StartCRLRefresh \/ RefreshNext \/ Tick
  /\ UNCHANGED scope

Leaves ==
  /\ scope = "leaves"
  /\ \/ PutRole \/ Issue \/ IssueClientCert \/ SignCSR \/ Renew
     \/ StartRenewal \/ RenewNext \/ Tick
  /\ UNCHANGED scope

PKINext == Authorities \/ Leaves

(* The jobs' goroutine selects at random among the tickers that fired, so  *)
(* the renewal ticker is served again and again while others fire.         *)
Renews(step) == scope = "leaves" /\ step /\ UNCHANGED scope
Fairness == SF_pkiVars(Renews(StartRenewal)) /\ WF_pkiVars(Renews(RenewNext))

PKISpec == PKIInit /\ [][PKINext]_pkiVars /\ Fairness

----------------------------------------------------------------------------


(* RenewCertificate links a certificate to the one it renews only within   *)
(* one CA, under the same role and for the same names, and only forward.   *)
LineageHolds == \A s \in DOMAIN issued : issued[s].from # 0 =>
  LET old == issued[issued[s].from]
  IN /\ issued[s].from < s /\ old.ca = issued[s].ca
     /\ old.role = issued[s].role /\ old.names = issued[s].names /\ old.auto = issued[s].auto

(* A record of IssueCertificate tells of the certificate what renewal and  *)
(* the expiry scan go by: its CA, its names, when it ends, how long it was *)
(* given, also where the role's maximum cut the default short; and which   *)
(* one it renews, even when the role was given another CA between the two. *)
RecordsTrue ==
  /\ \A s \in DOMAIN issued :
       /\ issued[s].ca = certs[s].ca /\ issued[s].names = certs[s].names
       /\ issued[s].expires = certs[s].expires
       /\ issued[s].expires - issued[s].ttl \in 0..now
  /\ LineageHolds

(* Whatever is signed, by Issue, by SignCSR, by hand or by the renewal job *)
(* for a certificate from before a change of the role, obeys the role as   *)
(* it is at that moment: its names, its CA and its maximum lifetime.       *)
PolicyHolds ==
  [][Len(certs') > Len(certs) =>
       LET new == certs'[Len(certs')]
       IN \E n \in DOMAIN roles :
            /\ cas[new.ca].name = roles[n].ca
            /\ \A d \in new.names : AllowedDomain(roles[n], d)
            /\ new.ip => AllowsAnyDomain(roles[n])
            /\ new.expires <= now + MaxTTL(roles[n])]_pkiVars

(* A due certificate among the Limit earliest, all of which, itself        *)
(* included, can be renewed.                                               *)
Reachable(s) ==
  LET ahead == {t \in DOMAIN issued : issued[t].auto /\ issued[t].expires <= issued[s].expires}
  IN /\ s \in DOMAIN issued /\ issued[s].auto /\ issued[s].expires <= now + Grace
     /\ Cardinality(ahead) <= Limit
     /\ \A t \in ahead : issued[t].ca \in Signers(RenewalOf(issued[t], 0))

(* The renewal job comes to every certificate that stays reachable: no run *)
(* may pass it over for ever, as one failing ahead of it does              *)
(* (RenewExpiring).                                                        *)
AutoRenewed == \A s \in 1..MaxCerts :
  <>[](scope = "leaves" /\ Reachable(s)) =>
    <>(Len(certs) = MaxCerts \/ \E t \in DOMAIN issued : issued[t].from = s)

(* "Revocation: POST /pki/revoke -> CRL updated": a leaf that is revoked   *)
(* under its own CA is on the CRL that CA then generates, whatever else    *)
(* was revoked under it before.                                            *)
RevokedIsListed ==
  [][\A s \in DOMAIN certs : s \in DOMAIN revoked' \ DOMAIN revoked /\ revoked'[s] = certs[s].ca
       => \E list \in GenerateCRL(certs[s].ca)' : s \in list]_pkiVars
=============================================================================
