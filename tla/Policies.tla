------------------------------ MODULE Policies ------------------------------
(***************************************************************************)
(* RBAC policies on several nodes.  The policies are in the replicated     *)
(* store; every node decides from a copy of them on top of the built-in    *)
(* ones, and before each decision reloads the copy if the hash of the      *)
(* stored policies is not the hash of what it loaded last.  A change made  *)
(* on a node is stored first and then put into that node's own copy.       *)
(***************************************************************************)
EXTENDS Integers

CONSTANTS Names, Builtin, Values, Absent, Replicas, Clients, MaxEdits, MaxMisses

VARIABLES
  saved,    \* name -> the stored policy, or Absent
  rbac,     \* per node: name -> the policy it decides from, or Absent
  hash,     \* per node: what policyHash is the hash of; the empty hash is Unknown
  change,   \* per client: the change it has stored and not yet put into its node's copy
  asking,   \* per client: the check it has synchronised for, the stored policies since, and an excuse
  edits, misses

policyVars == <<saved, rbac, hash, change, asking, edits, misses>>

Unknown == [n \in Names |-> Absent]  \* no policies hash to ""
NoCheck == [at |-> "none", fates |-> {}, excused |-> FALSE]
NoChange == [name |-> "none", value |-> Absent, at |-> "none"]

(* NewRBAC's defaults, under the stored policies.                          *)
Overlay(stored) ==
  [n \in Names |-> IF stored[n] # Absent THEN stored[n] ELSE IF n \in Builtin THEN 0 ELSE Absent]

PoliciesInit ==
  /\ saved = Unknown
  /\ rbac = [r \in Replicas |-> Overlay(Unknown)] /\ hash = [r \in Replicas |-> Unknown]
  /\ change = [c \in Clients |-> NoChange]
  /\ asking = [c \in Clients |-> NoCheck]
  /\ edits = 0 /\ misses = 0

(* SavePolicy and DeletePolicy, first half: the store.  Removing a policy  *)
(* that is not stored fails, and changes nothing.                          *)
Stored(c, r, name, value) ==
  /\ change[c] = NoChange /\ asking[c] = NoCheck /\ edits < MaxEdits
  /\ saved' = [saved EXCEPT ![name] = value]
  /\ change' = [change EXCEPT ![c] = [name |-> name, value |-> value, at |-> r]]
  /\ asking' = [d \in Clients |-> IF asking[d] = NoCheck THEN NoCheck
                                 ELSE [asking[d] EXCEPT !.fates = @ \cup {saved'}]]
  /\ edits' = edits + 1
  /\ UNCHANGED <<rbac, hash, misses>>

StorePolicy(c, r, name, value) == Stored(c, r, name, value)
RemovePolicy(c, r, name) == saved[name] # Absent /\ Stored(c, r, name, Absent)

(* Second half, under hashMu: this node's copy, whose hash is dropped.     *)
UpsertPolicy(c) ==
  /\ change[c] # NoChange
  /\ rbac' = [rbac EXCEPT ![change[c].at][change[c].name] = change[c].value]
  /\ hash' = [hash EXCEPT ![change[c].at] = Unknown]
  /\ change' = [change EXCEPT ![c] = NoChange]
  /\ asking' = [d \in Clients |-> [asking[d] EXCEPT !.excused = @ \/ asking[d].at = change[c].at]]
  /\ UNCHANGED <<saved, edits, misses>>

\* One load is enough.
SyncOnce(r) ==
  IF hash[r] # Unknown
  THEN UNCHANGED <<rbac, hash>>
  ELSE /\ rbac' = [rbac EXCEPT ![r] = Overlay(saved)]
       /\ hash' = [hash EXCEPT ![r] = saved]

(* SyncRBAC: reload unless the hash is known and unchanged.                *)
SyncRBAC(r) ==
  IF saved = hash[r] /\ hash[r] # Unknown
  THEN UNCHANGED <<rbac, hash>>
  ELSE /\ rbac' = [rbac EXCEPT ![r] = Overlay(saved)]
       /\ hash' = [hash EXCEPT ![r] = saved]

(* Authorize: synchronise, then decide from the copy.  A failed read is    *)
(* not fatal unless the vault is told to fail closed.                      *)
Sync(c, r) ==
  /\ change[c] = NoChange /\ asking[c] = NoCheck
  /\ \/ SyncRBAC(r) /\ asking' = [asking EXCEPT ![c] = [at |-> r, fates |-> {saved}, excused |-> FALSE]]
        /\ UNCHANGED misses
     \/ /\ misses < MaxMisses /\ misses' = misses + 1
        /\ UNCHANGED <<rbac, hash>>
        /\ asking' = [asking EXCEPT ![c] = [at |-> r, fates |-> {}, excused |-> TRUE]]
  /\ UNCHANGED <<saved, change, edits>>

Decide(c) ==
  /\ asking[c] # NoCheck
  /\ asking' = [asking EXCEPT ![c] = NoCheck]
  /\ UNCHANGED <<saved, rbac, hash, change, edits, misses>>

(* A node boots: the defaults, then LoadIntoRBAC, whose failure is fatal.  *)
Reboot(r) ==
  /\ \A c \in Clients : change[c].at # r /\ asking[c].at # r
  /\ misses < MaxMisses /\ misses' = misses + 1
  /\ rbac' = [rbac EXCEPT ![r] = Overlay(saved)]
  /\ hash' = [hash EXCEPT ![r] = saved]
  /\ UNCHANGED <<saved, change, asking, edits>>

PolicyRequest(c, r) ==
  \E name \in Names :
    RemovePolicy(c, r, name) \/ \E value \in Values : StorePolicy(c, r, name, value)

PoliciesNext ==
  \/ \E c \in Clients :
       \/ UpsertPolicy(c) \/ Decide(c)
       \/ \E r \in Replicas : PolicyRequest(c, r) \/ Sync(c, r)
  \/ \E r \in Replicas : Reboot(r)

PoliciesSpec == PoliciesInit /\ [][PoliciesNext]_policyVars

-----------------------------------------------------------------------------
(* A node that trusts its copy has the copy of those very policies: a hash *)
(* that is kept means the defaults overlaid with the policies hashed, also *)
(* when two changes reach the copy in the other order than the store, so   *)
(* that the next check of any client sees the store (SyncRBAC).            *)
HashMeansCopy == \A r \in Replicas : hash[r] # Unknown => rbac[r] = Overlay(hash[r])

(* A check is decided from policies that were stored at or after its       *)
(* start, on top of the defaults, whichever node changed them last; the    *)
(* exceptions are a failed read, and a change of its own node that reaches *)
(* the copy between the synchronisation and the decision (Authorize).      *)
DecidedFromStore ==
  \A c \in Clients : asking[c] # NoCheck /\ ~asking[c].excused
                      => \E f \in asking[c].fates : rbac[asking[c].at] = Overlay(f)
=============================================================================
