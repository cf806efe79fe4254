----------------------------- MODULE Tenancy -----------------------------
(***************************************************************************)
(* Tenant mode: the namespace of a request becomes a prefix of the paths,  *)
(* role names and lease IDs it touches (internal/tenant and its callers in *)
(* internal/service and the secret, database and SSH handlers).  All       *)
(* tenants share the same repositories.                                    *)
(*                                                                         *)
(* Names are sequences of characters, because the question is which of     *)
(* them start with which.  An object remembers who made it; a use          *)
(* remembers who made it and the object reached.                           *)
(***************************************************************************)
EXTENDS Naturals, FiniteSets, Sequences, SequencesExt

CONSTANTS Tenants,    \* namespaces, as sequences of characters
          PathNames,  \* what a request may name, as sequences of characters
          MaxThings,  \* objects made
          MaxLeaseNo  \* leases issued

VARIABLES things,   \* stored objects: [kind, key, owner]
          leaseNo,  \* leases issued so far
          reach     \* the last object a request reached, and for whom

tenancyVars == <<things, leaseNo, reach>>

\* Kubernetes namespaces hold neither separator.
ASSUME TenantNames ==
  \A t \in Tenants : t # <<>> /\ "/" \notin ToSet(t) /\ "." \notin ToSet(t)

Slash == <<"/">>
Dot == <<".">>
Nothing == [by |-> <<>>, thing |-> [kind |-> "none", key |-> <<>>, owner |-> <<>>]]

TrimSlash(path) == IF IsPrefix(Slash, path) THEN Tail(path) ELSE path

\* ScopePath with tenant mode on
ScopePath(t, path) ==
  IF IsPrefix(t \o Slash, TrimSlash(path)) THEN TrimSlash(path)
  ELSE t \o Slash \o TrimSlash(path)

\* ValidateAccess
ValidateAccess(t, path) ==
  IsPrefix(t \o Slash, TrimSlash(path)) \/ TrimSlash(path) = t

\* ScopeLeaseID: the dot form, or the older slash form left as it is.
ScopeLeaseID(t, id) ==
  IF id = <<>> \/ IsPrefix(t \o Dot, id) \/ IsPrefix(t \o Slash, id) THEN id
  ELSE t \o Dot \o id

\* ValidateLeaseIDAccess
LeaseLoose(t, id) == IsPrefix(t, id)
ValidateLeaseIDAccess(t, id) == IsPrefix(t \o Dot, id) \/ IsPrefix(t \o Slash, id)

\* The key that a request's name stands for; in the secrets service a path
\* that is not the tenant's after scoping is not found.
scopeResourceName(t, name) == ScopePath(t, name)
assertTenantAccess(t, key) == ValidateAccess(t, key)
assertTenantLeaseAccess(t, id) == ValidateLeaseIDAccess(t, id)

\* cleanSecretPath: no empty segment and no dot; <<>> when refused.
cleanSecretPath(raw) ==
  LET cut(acc, c) == IF c = "/" THEN Append(acc, <<>>) ELSE [acc EXCEPT ![Len(acc)] = Append(@, c)]
      segments == SelectSeq(FoldLeft(cut, <<<<>>>>, raw), LAMBDA s : s \notin {<<>>, Dot})
      join(acc, s) == IF acc = <<>> THEN s ELSE acc \o Slash \o s
  IN IF \E i \in 1..(Len(raw) - 1) : raw[i] = "." /\ raw[i + 1] = "." THEN <<>>
     ELSE FoldLeft(join, <<>>, segments)

Found(kind, key) == {o \in things : o.kind = kind /\ o.key = key}

TenancyInit == things = {} /\ leaseNo = 0 /\ reach = Nothing

\* Put and SaveRole: the object is stored under the scoped name; what was
\* there is overwritten, and so reached.
SaveUnder(t, kind, name) ==
  LET key == scopeResourceName(t, name)
      old == Found(kind, key)
  IN /\ Cardinality(things) < MaxThings \/ old # {}
     /\ IF old = {}
        THEN /\ things' = things \cup {[kind |-> kind, key |-> key, owner |-> t]}
             /\ reach' = Nothing
        ELSE /\ UNCHANGED things
             /\ \E o \in old : reach' = [by |-> t, thing |-> o]
     /\ UNCHANGED leaseNo

\* Get and GetRole
FetchUnder(t, kind, name) ==
  LET key == scopeResourceName(t, name)
  IN /\ assertTenantAccess(t, key)
     /\ \E o \in Found(kind, key) : reach' = [by |-> t, thing |-> o]
     /\ UNCHANGED <<things, leaseNo>>

\* Delete of a secret
RemoveUnder(t, name) ==
  LET key == scopeResourceName(t, name)
  IN /\ assertTenantAccess(t, key)
     /\ \E o \in Found("kv", key) : reach' = [by |-> t, thing |-> o] /\ things' = things \ {o}
     /\ UNCHANGED leaseNo

\* ListPaths: every key below the scoped prefix
ListUnder(t, name) ==
  /\ assertTenantAccess(t, scopeResourceName(t, name))
  /\ \E o \in things : /\ o.kind = "kv" /\ IsPrefix(scopeResourceName(t, name), o.key)
                       /\ reach' = [by |-> t, thing |-> o]
  /\ UNCHANGED <<things, leaseNo>>

\* GenerateCredentials of the database and SSH engines: the role is looked
\* up under the scoped name and the lease gets a scoped ID.
GenerateUnder(t, kind, name) ==
  /\ leaseNo < MaxLeaseNo /\ Cardinality(things) < MaxThings
  /\ \E o \in Found(kind, scopeResourceName(t, name)) : reach' = [by |-> t, thing |-> o]
  /\ things' = things \cup {[kind |-> "lease", key |-> ScopeLeaseID(t, <<ToString(leaseNo + 1)>>),
                             owner |-> t]}
  /\ leaseNo' = leaseNo + 1

\* Renew and Revoke of a lease by its ID
UseLease(t) ==
  /\ \E o \in things : /\ o.kind = "lease" /\ assertTenantLeaseAccess(t, o.key)
                       /\ reach' = [by |-> t, thing |-> o]
                       /\ things' \in {things, things \ {o}}
  /\ UNCHANGED leaseNo

\* List of the lease service: filters, offset and limit only leave out more.
ListLeases(t) ==
  LET shown == {o \in things : o.kind = "lease" /\ ValidateLeaseIDAccess(t, o.key)}
  IN \E o \in shown : reach' = [by |-> t, thing |-> o] /\ UNCHANGED <<things, leaseNo>>

\* A role's name is one segment of the URL.
RoleNames == {n \in PathNames : n # <<>> /\ "/" \notin ToSet(n)}

SecretRequest(t) ==
  \E raw \in PathNames :
    LET path == cleanSecretPath(raw)
    IN path # <<>> /\ (SaveUnder(t, "kv", path) \/ FetchUnder(t, "kv", path)
                         \/ RemoveUnder(t, path) \/ ListUnder(t, path))

CredentialRequest(t, kind) ==
  \/ \E name \in RoleNames : SaveUnder(t, kind, name) \/ FetchUnder(t, kind, name) \/ GenerateUnder(t, kind, name)
  \/ UseLease(t)

DatabaseRequest(t) == CredentialRequest(t, "database")
SSHRequest(t) == CredentialRequest(t, "ssh")

TenancyNext == \E t \in Tenants : SecretRequest(t) \/ DatabaseRequest(t) \/ SSHRequest(t) \/ ListLeases(t)

-----------------------------------------------------------------------------
\* No request reaches an object that another tenant made, even when one
\* namespace is the beginning of another and names repeat the prefixes
\* (tenant/context.go: the separator is part of every prefix compared).
TenantsApart == reach.by = reach.thing.owner

\* A tenant reaches what it made under the full name the vault shows it,
\* so scoping a name twice and cleaning it twice do no harm (ScopePath,
\* ScopeLeaseID and cleanSecretPath leave such a name alone; listings, audit
\* records and lease responses show scoped names).
OwnNamesWork ==
  \A o \in things :
    IF o.kind = "lease"
    THEN ValidateLeaseIDAccess(o.owner, o.key) /\ ScopeLeaseID(o.owner, o.key) = o.key
    ELSE /\ ValidateAccess(o.owner, o.key) /\ scopeResourceName(o.owner, o.key) = o.key
         /\ o.kind = "kv" => cleanSecretPath(o.key) = o.key

\* A tenant reaches what it made, and nothing else (tenant/context.go).
TenancyExact == TenantsApart /\ OwnNamesWork
============================================================================
