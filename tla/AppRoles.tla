------------------------------ MODULE AppRoles ------------------------------
(***************************************************************************)
(* AppRole credentials on several nodes (internal/auth/approle.go,         *)
(* approle_persist.go, approle_backend.go).  A node authenticates from its *)
(* memory.  Registering or deleting a role changes the memory and then     *)
(* writes all of it twice: to a file of the node, and as the next version  *)
(* of a replicated secret.  Neither write's error is looked at.  At boot   *)
(* the file is merged into the memory and then the replicated secret, if   *)
(* it can be read, replaces the memory.                                    *)
(*                                                                         *)
(* A role is represented by the secret it was last registered with, zero   *)
(* when there is none; hashes, subjects and policies go with it.           *)
(***************************************************************************)
EXTENDS Naturals

CONSTANTS
    AppHosts,     \* the nodes
    RoleIDs,      \* the role_ids
    SecretIDs,    \* the secret_ids, positive numbers
    MaxSaves      \* how many changes are explored

ASSUME AppRolesAssumption == SecretIDs \subseteq Nat \ {0}

VARIABLES
    roles,        \* roles[h]: the memory of node h
    file,         \* file[h]: its file
    blob,         \* the latest version of the replicated secret, with its number
    saving,       \* saving[h]: the version number h has read and will write
    act,         \* what the last step did: "register", "blind" or "other"
    saves

approleVars == <<roles, file, blob, saving, act, saves>>

NoRoles == [r \in RoleIDs |-> 0]

AppRolesInit ==
    /\ roles = [h \in AppHosts |-> NoRoles]
    /\ file = [h \in AppHosts |-> NoRoles]
    /\ blob = [version |-> 0, roles |-> NoRoles]
    /\ saving = [h \in AppHosts |-> 0]
    /\ act = "other"
    /\ saves = 0

\* AppRoleStore.loadLocked: the records of the file over what is in memory.
loadLockedRoles(old, disk) == [r \in RoleIDs |-> IF disk[r] # 0 THEN disk[r] ELSE old[r]]

----------------------------------------------------------------------------
\* The lock is held until the replicated write is done.
Unlocked(h) == saving[h] = 0

\* saveLocked: the file, then persistRaftLocked up to its read of the version
\* (a read that fails leaves the number at one).
saveRolesLocked(h, changed) ==
    /\ Unlocked(h)
    /\ saves < MaxSaves
    /\ saves' = saves + 1
    /\ roles' = [roles EXCEPT ![h] = changed]
    /\ file' \in {file, [file EXCEPT ![h] = changed]}
    /\ saving' \in {[saving EXCEPT ![h] = v] : v \in {1, blob.version + 1}}
    /\ UNCHANGED blob

Register(h, r, s) ==
    /\ saveRolesLocked(h, [roles[h] EXCEPT ![r] = s])
    /\ act' = "register"

Delete(h, r) ==
    /\ saveRolesLocked(h, [roles[h] EXCEPT ![r] = 0])
    /\ act' = "other"

\* SaveVersion: a version that exists is refused, any other failure leaves the
\* old blob too.
SaveVersion(h) ==
    /\ ~Unlocked(h)
    /\ \/ UNCHANGED blob
       \/ /\ saving[h] > blob.version
          /\ blob' = [version |-> saving[h], roles |-> roles[h]]
    /\ saving' = [saving EXCEPT ![h] = 0]
    /\ act' = "other"
    /\ UNCHANGED <<roles, file, saves>>

\* SetPersistPath and AttachRaftBackend at boot; a node may die in a save.
Boot(h) ==
    /\ \/ /\ roles' = [roles EXCEPT ![h] =
                IF blob.version = 0 THEN loadLockedRoles(NoRoles, file[h]) ELSE blob.roles]
          /\ act' = "other"
       \/ \E read \in {NoRoles, loadLockedRoles(NoRoles, file[h])} :
             /\ roles' = [roles EXCEPT ![h] = read]
             /\ act' = "blind"
    /\ saving' = [saving EXCEPT ![h] = 0]
    /\ UNCHANGED <<file, blob, saves>>

Authenticate(h, r, s) == s # 0 /\ roles[h][r] = s

AppRolesNext ==
    \E h \in AppHosts :
       \/ \E r \in RoleIDs, s \in SecretIDs : Register(h, r, s)
       \/ \E r \in RoleIDs : Delete(h, r)
       \/ SaveVersion(h)
       \/ Boot(h)

AppRolesSpec == AppRolesInit /\ [][AppRolesNext]_approleVars

----------------------------------------------------------------------------

\* No node takes the secret and the replicated blob, which the next boot reads,
\* does not hold it.
Retired(r, s) ==
    /\ \A h \in AppHosts : ~Authenticate(h, r, s)
    /\ blob.version # 0 /\ blob.roles[r] # s

\* A secret_id that has been replaced or deleted on every node and in the
\* replicated blob is not accepted again until somebody registers it, although
\* files of nodes still hold it; only a boot that cannot read the blob takes a
\* file's word.
RetiredStays ==
    [][\A r \in RoleIDs, s \in SecretIDs :
          Retired(r, s) /\ act' = "other" => Retired(r, s)']_approleVars

=============================================================================
