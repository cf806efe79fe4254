---------------------------- MODULE MCRaftStore -----------------------------
(* Sets of commands for a cluster of two.                                  *)
EXTENDS RaftStore, TLC
CONSTANTS n1, n2, c1, r1, p1, l1, i1

Symmetric == Permutations(Nodes)

AuditCmds == {[op |-> "audit.append", at |-> t] : t \in 1 .. 2}

MainCmds ==
  {[op |-> "ca.save", ca |-> c1],
   [op |-> "pki_role.save", role |-> r1, ca |-> c1],
   [op |-> "policy.save", policy |-> p1],
   [op |-> "role.save", role |-> r1, policies |-> {p1}],
   [op |-> "secret.put", cas |-> NoCas, keep |-> 1],
   [op |-> "secret.destroy_version", version |-> 1],
   [op |-> "lease.save", lease |-> l1, token |-> TRUE],
   [op |-> "machine_identity.save", identity |-> i1]}
     \cup AuditCmds

AllCmds ==
  MainCmds \cup
  {[op |-> "issued.save", ca |-> c1], [op |-> "lease.revoke", lease |-> l1],
   [op |-> "policy.delete", policy |-> p1], [op |-> "role.delete", role |-> r1],
   [op |-> "machine_identity.revoke", identity |-> i1]}
=============================================================================
