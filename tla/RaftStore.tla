----------------------------- MODULE RaftStore ------------------------------
(***************************************************************************)
(* The replicated vault store: raft/store.go and raft/handlers.go (what a  *)
(* committed command does), raft/statemachine.go (Update, SaveSnapshot,    *)
(* RecoverFromSnapshot) and backup/ (what a snapshot carries and which     *)
(* snapshots are accepted).                                                *)
(*                                                                         *)
(* Dragonboat is external: it is a log of committed commands that every    *)
(* replica applies in order, local snapshots, log replay after a restart,  *)
(* and snapshot transfer to a replica that lags.  What is checked is the   *)
(* state machine under it: the memory of a replica that took the short cut *)
(* through a snapshot against one that applied every command.              *)
(*                                                                         *)
(* A store keeps, of the fourteen tables, what the checks tell apart: CA   *)
(* names, the CA of every PKI role, the CAs that an issued certificate or  *)
(* a child CA refers to ("cert"), policies, the policies of every role,    *)
(* the versions of one secret,                                             *)
(* leases (they stand for the tables keyed by an id: tokens, revocations,  *)
(* database and SSH roles), machine identities (with rotation policies the *)
(* tables Repos leaves out) and the audit log.  The field "label" of a     *)
(* secret version and "token" of a lease stand for the fields the records  *)
(* of backup/convert.go do not have.                                       *)
(***************************************************************************)
EXTENDS SecretVersions, Sequences

CONSTANTS
  Nodes,       \* replicas
  CAs, PKIRoles, Policies, Roles, Leases, Identities,   \* names
  NoCA,        \* no CA (a model value)
  Cmds,        \* the ordinary commands that may be proposed
  MaxLog,      \* bound on the length of the log
  MaxCrashes,  \* bound on the crashes
  MaxBackups,  \* bound on the backups that are taken
  AuditLimit   \* how many audit entries a snapshot carries (10000)

Times == Nat    \* clock readings

\* Payloads of the commands, raft/commands.go.
Command ==
  [op : {"ca.save", "issued.save"}, ca : CAs]
    \cup [op : {"pki_role.save"}, role : PKIRoles, ca : CAs]
    \cup [op : {"policy.save", "policy.delete"}, policy : Policies]
    \cup [op : {"role.save"}, role : Roles, policies : (SUBSET Policies) \ {{}}]
    \cup [op : {"role.delete"}, role : Roles]
    \cup [op : {"secret.put"}, cas : Nat \cup {NoCas}, keep : Nat]
    \cup [op : {"secret.destroy_version"}, version : Nat]
    \cup [op : {"lease.save"}, lease : Leases, token : BOOLEAN]
    \cup [op : {"lease.revoke"}, lease : Leases]
    \cup [op : {"machine_identity.save", "machine_identity.revoke"},
          identity : Identities]
    \cup [op : {"audit.append"}, at : Times]

ASSUME RaftStoreAssumption ==
  /\ NoCA \notin CAs
  /\ Cmds \subseteq Command
  /\ MaxLog \in Nat /\ MaxCrashes \in Nat /\ MaxBackups \in Nat
  /\ AuditLimit \in Nat \ {0}

VARIABLES
  log,      \* committed commands
  ref,      \* history: the store after 0, 1, 2, ... commands
  store,    \* the store in the memory of every replica
  applied,  \* how many commands a replica has applied
  snap,     \* the snapshot on the disk of every replica
  up,       \* "up", "down", or "failed": RecoverFromSnapshot refused
  backups,  \* portable backups that were exported
  crashes   \* how many crashes there were

vars == <<log, ref, store, applied, snap, up, backups, crashes>>
-----------------------------------------------------------------------------
(* The store and its handlers.                                             *)

NoLease == [there |-> FALSE, revoked |-> FALSE, token |-> FALSE]

NewStore ==
  [ca |-> {}, pki |-> [r \in PKIRoles |-> NoCA], cert |-> {},
   policy |-> {}, role |-> [r \in Roles |-> {}], secret |-> NoRows,
   lease |-> [l \in Leases |-> NoLease], identity |-> [i \in Identities |-> "none"],
   audit |-> <<>>]

SaveCA(s, c) == [s EXCEPT !.ca = @ \cup {c}]
SaveIssued(s, c) == [s EXCEPT !.cert = @ \cup {c}]
SavePolicy(s, p) == [s EXCEPT !.policy = @ \cup {p}]
DeletePolicy(s, p) == [s EXCEPT !.policy = @ \ {p}]
\* The policies of a role are not looked up.
SaveRole(s, r, policies) == [s EXCEPT !.role[r] = policies]
DeleteRole(s, r) == [s EXCEPT !.role[r] = {}]

\* A PKI role is refused when its CA does not exist.
SavePKIRole(s, r, c) == IF c \in s.ca THEN [s EXCEPT !.pki[r] = c] ELSE s

PutSecret(s, cas, keep) ==
  IF CasHolds(s.secret, cas)
  THEN [s EXCEPT !.secret = PutAtomic(@, [label |-> TRUE, destroyed |-> FALSE], keep)]
  ELSE s

DestroySecret(s, v) ==
  IF CanDestroy(s.secret, v) THEN [s EXCEPT !.secret = Destroy(@, v)] ELSE s

\* Save overwrites the whole record.
SaveLease(s, l, token) ==
  [s EXCEPT !.lease[l] = [there |-> TRUE, revoked |-> FALSE, token |-> token]]
RevokeLease(s, l) ==
  IF s.lease[l].there THEN [s EXCEPT !.lease[l].revoked = TRUE] ELSE s

SaveIdentity(s, i) == [s EXCEPT !.identity[i] = "active"]
RevokeIdentity(s, i) ==
  IF s.identity[i] = "none" THEN s ELSE [s EXCEPT !.identity[i] = "revoked"]

\* The hash of an entry covers the entry and the hash before it, so a hash
\* is the sequence of entries it covers.  The state machine chains on the
\* last entry in append order; the time of the entry is the proposer's.
LatestHash(audit) == IF audit = <<>> THEN <<>> ELSE audit[Len(audit)].hash
AppendAudit(s, at) ==
  [s EXCEPT !.audit =
     Append(@, [at |-> at, hash |-> Append(LatestHash(@), at)])]
-----------------------------------------------------------------------------
(* Snapshots.                                                              *)

\* audit List with OrderAsc: by time, then by ID; ListPosition is the place
\* of the k-th entry of that order in append order.
Before(audit, i, j) ==
  audit[i].at < audit[j].at \/ (audit[i].at = audit[j].at /\ i < j)
ListPosition(audit, k) ==
  CHOOSE i \in DOMAIN audit :
    Cardinality({j \in DOMAIN audit : Before(audit, j, i)}) = k - 1
ListAudit(audit, limit) ==
  [k \in 1 .. (IF Len(audit) < limit THEN Len(audit) ELSE limit) |->
     audit[ListPosition(audit, k)]]

\* Faulty variant: destroyed versions are left out.
ExportLive(s, includeAudit) ==
  [s EXCEPT
     !.secret = [v \in Live(s.secret) |-> [label |-> FALSE, destroyed |-> FALSE]],
     !.lease = [l \in Leases |-> [s.lease[l] EXCEPT !.token = FALSE]],
     !.identity = [i \in Identities |-> "none"],
     !.audit = IF includeAudit THEN ListAudit(s.audit, AuditLimit) ELSE <<>>]

\* The records of a snapshot: a version loses its labels, a lease its token.
secretFromDomain(row) == [label |-> FALSE, destroyed |-> row.destroyed]
leaseFromDomain(row) == [row EXCEPT !.token = FALSE]

\* Export: Repos names no machine identities, the records have no label and
\* no token id, and at most AuditLimit audit entries go in.
Export(s, includeAudit) ==
  [s EXCEPT
     !.secret = [v \in DOMAIN s.secret |-> secretFromDomain(s.secret[v])],
     !.lease = [l \in Leases |-> leaseFromDomain(s.lease[l])],
     !.identity = [i \in Identities |-> "none"],
     !.audit = IF includeAudit THEN ListAudit(s.audit, AuditLimit) ELSE <<>>]

\* ValidateRecordChain: every hash covers exactly the entries before it.
ValidChain(audit) ==
  \A k \in DOMAIN audit : audit[k].hash = [i \in 1 .. k |-> audit[i].at]

\* ValidateSnapshot.
Valid(b) ==
  /\ \A r \in Roles : b.role[r] \subseteq b.policy
  /\ \A r \in PKIRoles : b.pki[r] # NoCA => b.pki[r] \in b.ca
  /\ b.cert \subseteq b.ca
  /\ ValidChain(b.audit)

\* ImportSnapshot: validated, restored into a fresh store, swapped in.
ImportSnapshot(s, b) == IF Valid(b) THEN b ELSE s

\* Store.Handle.
Apply(s, c) ==
  CASE c.op = "ca.save" -> SaveCA(s, c.ca)
    [] c.op = "issued.save" -> SaveIssued(s, c.ca)
    [] c.op = "pki_role.save" -> SavePKIRole(s, c.role, c.ca)
    [] c.op = "policy.save" -> SavePolicy(s, c.policy)
    [] c.op = "policy.delete" -> DeletePolicy(s, c.policy)
    [] c.op = "role.save" -> SaveRole(s, c.role, c.policies)
    [] c.op = "role.delete" -> DeleteRole(s, c.role)
    [] c.op = "secret.put" -> PutSecret(s, c.cas, c.keep)
    [] c.op = "secret.destroy_version" -> DestroySecret(s, c.version)
    [] c.op = "lease.save" -> SaveLease(s, c.lease, c.token)
    [] c.op = "lease.revoke" -> RevokeLease(s, c.lease)
    [] c.op = "machine_identity.save" -> SaveIdentity(s, c.identity)
    [] c.op = "machine_identity.revoke" -> RevokeIdentity(s, c.identity)
    [] c.op = "audit.append" -> AppendAudit(s, c.at)
    [] c.op = "snapshot.import" -> ImportSnapshot(s, c.snapshot)
-----------------------------------------------------------------------------
NoSnap == [index |-> 0, data |-> NewStore]

Init ==
  /\ log = <<>>
  /\ ref = <<NewStore>>
  /\ store = [n \in Nodes |-> NewStore]
  /\ applied = [n \in Nodes |-> 0]
  /\ snap = [n \in Nodes |-> NoSnap]
  /\ up = [n \in Nodes |-> "up"]
  /\ backups = {}
  /\ crashes = 0

\* The cluster's current state: what a replica has that applied everything.
Current == ref[Len(ref)]

Commit(c) ==
  /\ Len(log) < MaxLog
  /\ log' = Append(log, c)
  /\ ref' = Append(ref, Apply(Current, c))
  /\ UNCHANGED <<store, applied, snap, up, backups, crashes>>

\* A service proposes a command.  A certificate is issued under a CA that
\* the PKI engine read before.
Propose(c) ==
  /\ c.op = "issued.save" => \E i \in DOMAIN ref : c.ca \in ref[i].ca
  /\ Commit(c)

\* Restore through Raft: snapshot.import with a backup.
ProposeImport(b) == Commit([op |-> "snapshot.import", snapshot |-> b])

\* Update.
Update(n) ==
  /\ up[n] = "up" /\ applied[n] < Len(log)
  /\ store' = [store EXCEPT ![n] = Apply(@, log[applied[n] + 1])]
  /\ applied' = [applied EXCEPT ![n] = @ + 1]
  /\ UNCHANGED <<log, ref, snap, up, backups, crashes>>

SaveSnapshot(n) ==
  /\ up[n] = "up" /\ applied[n] > snap[n].index
  /\ snap' = [snap EXCEPT ![n] = [index |-> applied[n], data |-> Export(store[n], TRUE)]]
  /\ UNCHANGED <<log, ref, store, applied, up, backups, crashes>>

\* A linearizable snapshot.export on a replica that has caught up.
ExportBackup(n, includeAudit) ==
  /\ up[n] = "up" /\ applied[n] = Len(log)
  /\ Cardinality(backups) < MaxBackups
  /\ backups' = backups \cup {Export(store[n], includeAudit)}
  /\ UNCHANGED <<log, ref, store, applied, snap, up, crashes>>

\* The memory of n is lost: the store is empty and nothing is applied.
Stop(n, how) ==
  /\ up' = [up EXCEPT ![n] = how]
  /\ store' = [store EXCEPT ![n] = NewStore]
  /\ applied' = [applied EXCEPT ![n] = 0]

Crash(n) ==
  /\ up[n] = "up" /\ crashes < MaxCrashes
  /\ Stop(n, "down")
  /\ crashes' = crashes + 1
  /\ UNCHANGED <<log, ref, snap, backups>>

\* RecoverFromSnapshot into the memory of n: a snapshot that does not
\* validate leaves the replica unable to run.
RecoverFromSnapshot(n, s) ==
  IF Valid(s.data)
  THEN /\ store' = [store EXCEPT ![n] = ImportSnapshot(@, s.data)]
       /\ applied' = [applied EXCEPT ![n] = s.index]
       /\ up' = [up EXCEPT ![n] = "up"]
  ELSE Stop(n, "failed")

\* A restart: an empty store, the snapshot on disk if there is one; the
\* commands after it are applied again by Update.
Restart(n) ==
  /\ up[n] = "down"
  /\ RecoverFromSnapshot(n, snap[n])
  /\ UNCHANGED <<log, ref, snap, backups, crashes>>

\* A replica that lags behind the compacted log gets the snapshot of m.
InstallSnapshot(n, m) ==
  /\ up[n] = "up" /\ snap[m].index > applied[n]
  /\ RecoverFromSnapshot(n, snap[m])
  /\ snap' = [snap EXCEPT ![n] = snap[m]]
  /\ UNCHANGED <<log, ref, backups, crashes>>

\* The backup service.  Create exports from a replica (the snapshot it asks
\* Dragonboat for is SaveSnapshot, at some time); Restore validates what it
\* decrypted before it proposes.
CreateBackup == \E n \in Nodes, a \in BOOLEAN : ExportBackup(n, a)
RestoreBackup == \E b \in backups : Valid(b) /\ ProposeImport(b)

Next ==
  \/ \E c \in Cmds : Propose(c)
  \/ CreateBackup \/ RestoreBackup
  \/ \E n \in Nodes : Update(n) \/ SaveSnapshot(n) \/ Crash(n) \/ Restart(n)
  \/ \E n, m \in Nodes : InstallSnapshot(n, m)

Spec == Init /\ [][Next]_vars
-----------------------------------------------------------------------------
(* Properties.                                                             *)

\* What a snapshot carries of a store, the audit log aside.
Tables(s) == Export(s, FALSE)

\* A replica that restarted, replayed, or was sent a snapshot holds what a
\* replica holds that applied every command from the first: in everything a
\* snapshot carries, and in the audit log as long as the log fits into a
\* snapshot.
ReplayEquivalence ==
  \A n \in Nodes :
    LET r == ref[applied[n] + 1]
    IN  /\ Tables(store[n]) = Tables(r)
        /\ Len(r.audit) <= AuditLimit => store[n].audit = r.audit

\* docs/storage/raft-ha-and-recovery.md: "On recovery, a follower or
\* restarted node can catch up from a snapshot plus subsequent log entries
\* instead of replaying the full history."  A replica that did has what the
\* full history gives.
CatchUpEqualsReplay == \A n \in Nodes : store[n] = ref[applied[n] + 1]

\* docs/storage/raft-ha-and-recovery.md: "Restore failed nodes with intact
\* PVCs - they replay Raft log / snapshot and rejoin."
NodesRejoin == \A n \in Nodes : up[n] # "failed"
=============================================================================
