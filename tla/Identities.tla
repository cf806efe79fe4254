----------------------------- MODULE Identities -----------------------------
(***************************************************************************)
(* Entities, aliases and groups on several nodes                           *)
(* (internal/service/identity.go).  Every node has them in memory, loaded  *)
(* from one sealed snapshot when it boots, and never again; every change   *)
(* is made in memory and then the node's whole memory replaces the         *)
(* snapshot.  A change whose write fails stays in memory, and the write    *)
(* may have taken effect all the same.                                     *)
(*                                                                         *)
(* Identifiers are random, so CreateEntity and CreateGroup take one that   *)
(* nobody holds.  Names, metadata and times are left out; the policies an  *)
(* entity and a group grant are named after them.                          *)
(***************************************************************************)
EXTENDS Naturals

CONSTANTS
    Hosts,        \* the nodes
    Entities,     \* the identifiers entities can get
    Groups,       \* the identifiers groups can get
    Aliases,      \* the pairs of a mount and a name at which logins arrive
    NoEntity,     \* an alias that leads nowhere
    MaxWrites     \* how many changes are explored

VARIABLES
    memory,       \* what each node holds
    snapshot,     \* the latest version of the sealed snapshot
    did,          \* the last operation: "enable", "blind", "other"
    writes

identityVars == <<memory, snapshot, did, writes>>

\* An entity is "none", "enabled" or "disabled"; owner is aliases and byMount
\* together; a group is "none" or has its members.
Memories ==
    [entity : [Entities -> {"none", "enabled", "disabled"}],
     owner  : [Aliases -> Entities \cup {NoEntity}],
     group  : [Groups -> SUBSET SUBSET Entities]]

EmptyMemory ==
    [entity |-> [e \in Entities |-> "none"],
     owner  |-> [a \in Aliases |-> NoEntity],
     group  |-> [g \in Groups |-> {}]]

IdentitiesInit ==
    /\ memory = [h \in Hosts |-> EmptyMemory]
    /\ snapshot = EmptyMemory
    /\ did = "other"
    /\ writes = 0

Everywhere == {memory[h] : h \in Hosts} \cup {snapshot}

----------------------------------------------------------------------------
\* persistLocked, called under the lock the change was made under.
persistLocked(h, changed, op) ==
    /\ writes < MaxWrites
    /\ writes' = writes + 1
    /\ memory' = [memory EXCEPT ![h] = changed]
    /\ snapshot' \in {snapshot, changed}
    /\ did' = op

CreateEntity(h, e) ==
    /\ \A m \in Everywhere : m.entity[e] = "none"
    /\ persistLocked(h, [memory[h] EXCEPT !.entity[e] = "enabled"], "other")

SetEntityDisabled(h, e, disabled) ==
    /\ memory[h].entity[e] # "none"
    /\ persistLocked(h,
          [memory[h] EXCEPT !.entity[e] = IF disabled THEN "disabled" ELSE "enabled"],
          IF disabled THEN "other" ELSE "enable")

\* An alias that is moved to another entity instead of refused.
MovedAlias(h, e, a) ==
    /\ memory[h].entity[e] # "none"
    /\ persistLocked(h, [memory[h] EXCEPT !.owner[a] = e], "other")

CreateAlias(h, e, a) ==
    /\ memory[h].entity[e] # "none"
    /\ memory[h].owner[a] = NoEntity
    /\ persistLocked(h, [memory[h] EXCEPT !.owner[a] = e], "other")

\* The members are not looked up.
CreateGroup(h, g, members) ==
    /\ \A m \in Everywhere : m.group[g] = {}
    /\ persistLocked(h, [memory[h] EXCEPT !.group[g] = {members}], "other")

\* load, when the node boots: an error of the read is taken for an empty store,
\* and an error of the decryption is ignored by AttachStorage.
load(h) ==
    /\ \/ /\ memory' = [memory EXCEPT ![h] = snapshot]
          /\ did' = "other"
       \/ /\ memory' = [memory EXCEPT ![h] = EmptyMemory]
          /\ did' = IF snapshot = EmptyMemory THEN "other" ELSE "blind"
    /\ UNCHANGED <<snapshot, writes>>

\* What a login at alias a gets on top of the policies of its mount.
ResolveLogin(m, a) ==
    LET e == m.owner[a]
    IN  IF e = NoEntity \/ m.entity[e] = "none"
        THEN [refused |-> FALSE, policies |-> {}]
        ELSE IF m.entity[e] = "disabled"
             THEN [refused |-> TRUE, policies |-> {}]
             ELSE [refused |-> FALSE,
                   policies |-> {e} \cup
                      {g \in Groups : \E members \in m.group[g] : e \in members}]

IdentityRequest(h) ==
    \/ \E e \in Entities :
          \/ CreateEntity(h, e)
          \/ \E disabled \in BOOLEAN : SetEntityDisabled(h, e, disabled)
          \/ \E a \in Aliases : CreateAlias(h, e, a)
    \/ \E g \in Groups, members \in SUBSET Entities : CreateGroup(h, g, members)

IdentitiesNext ==
    \E h \in Hosts : IdentityRequest(h) \/ load(h)

IdentitiesSpec == IdentitiesInit /\ [][IdentitiesNext]_identityVars

----------------------------------------------------------------------------

RefusedEverywhere(a) == \A m \in Everywhere : ResolveLogin(m, a).refused

\* Once every node, and the snapshot, refuses a login because its entity is
\* disabled, the login stays refused on every node through changes to other
\* entities, failed writes, writes of one node over another's, and restarts;
\* only SetEntityDisabled(false) and a boot that could not read the snapshot
\* undo it.
RefusedStays ==
    [][\A a \in Aliases :
          RefusedEverywhere(a) /\ did' = "other" => RefusedEverywhere(a)']_identityVars

=============================================================================
