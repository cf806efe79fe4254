--------------------------- MODULE ClusterProofs ---------------------------
(***************************************************************************)
(* For any number of nodes, clients, keys, entities and roles: what the    *)
(* services that every node runs keep true although each works from a copy *)
(* of its own, and what the seal of each process keeps true.  They share   *)
(* no state and have each their own specification and invariant.           *)
(***************************************************************************)
EXTENDS Transit, Policies, Identities, AppRoles, AuditLog, Seal, TLAPS

(* Transit.  Unless excused, all that any node holds is the stored record  *)
(* or a beginning of it, and only one node is about to extend it.          *)

Recs == UNION {[1..k -> Nat] : k \in Nat}
Within(rec, whole) == \A v \in DOMAIN rec : v \in DOMAIN whole /\ whole[v] = rec[v]

TransitTypes ==
  /\ stored \in Recs /\ keys \in Nat
  /\ copy \in [Members -> Recs] /\ editing \in [Members -> Recs]

TransitInv ==
  /\ TransitTypes
  /\ excused \/ /\ Recoverable /\ CopiesTrail
                /\ \A m, n \in Members : Locked(m) /\ Locked(n) => m = n
                /\ \A n \in Members : Locked(n) => Within(stored, editing[n])

\* A copy without versions is a copy.
LEMMA EmptyRec == /\ <<>> \in Recs /\ DOMAIN <<>> = {}
                  /\ \A rec \in Recs : DOMAIN rec = {} => rec = <<>>
<1>1. DOMAIN <<>> = {} /\ \A rec \in Recs : DOMAIN rec = {} => rec = <<>>
  BY DEF Recs
<1>2. <<>> \in [1..0 -> Nat]
  OBVIOUS
<1> QED
  BY <1>1, <1>2 DEF Recs

\* A new key lengthens a record and changes none of its versions.
LEMMA NewKey ==
  ASSUME NEW rec \in Recs, keys \in Nat
  PROVE  WithNewKey(rec) \in Recs /\ Within(rec, WithNewKey(rec))
<1>1. PICK k \in Nat : rec \in [1..k -> Nat]
  BY Zenon DEF Recs
<1>2. Latest(rec) = k
  BY <1>1 DEF Latest
<1>3. WithNewKey(rec) \in [1..(k + 1) -> Nat]
  BY <1>1, <1>2 DEF WithNewKey
<1> QED
  BY <1>1, <1>2, <1>3 DEF WithNewKey, Recs, Within

\* No key is stored and no node has a copy.
LEMMA TransitInitially == TransitInit => TransitInv
<1> SUFFICES ASSUME TransitInit PROVE TransitInv
  BY Zenon
<1>1. TransitTypes
  BY Zenon, EmptyRec DEF TransitInit, TransitTypes
<1> QED
  BY Zenon, <1>1, EmptyRec DEF TransitInit, TransitInv, Recoverable, CopiesTrail, Locked

\* CreateKey and RotateKey: the record they edit extends the stored one,
\* unless the read of it was excused.
LEMMA EditStep ==
  ASSUME TransitInv, NEW n \in Members, CreateKey(n) \/ RotateKey(n)
  PROVE  TransitInv'
<1>1. PICK rec \in Recs : /\ Edit(n, rec)
                          /\ \/ Unread
                             \/ Clean /\ (excused \/ rec = stored)
  <2>1. stored \in Recs /\ copy[n] \in Recs /\ <<>> \in Recs
    BY Zenon, EmptyRec DEF TransitInv, TransitTypes
  <2>2. excused \/ (stored = <<>> => copy[n] = <<>>)
    BY Zenon, <2>1, EmptyRec DEF TransitInv, CopiesTrail
  <2> QED
    BY Zenon, <2>1, <2>2 DEF CreateKey, RotateKey, loadLocked
<1>2. /\ keys' = keys + 1 /\ copy' = [copy EXCEPT ![n] = rec]
      /\ editing' = [editing EXCEPT ![n] = WithNewKey(rec)]
      /\ stored' = stored /\ made' = made /\ ~Locked(n)
  BY <1>1 DEF Edit
<1>3. WithNewKey(rec) \in Recs /\ Within(rec, WithNewKey(rec))
  BY NewKey DEF TransitInv, TransitTypes
<1>4. TransitTypes'
  BY <1>2, <1>3 DEF TransitInv, TransitTypes
<1>5. CASE excused'
  BY <1>4, <1>5 DEF TransitInv
<1>6. CASE ~excused'
  <2>1. ~excused /\ rec = stored /\ \A m \in Members : ~Locked(m)
    BY Zenon, <1>1, <1>6 DEF Clean, Unread
  <2>2. Recoverable'
    BY <1>2, <2>1 DEF TransitInv, Recoverable
  <2>3. CopiesTrail'
    BY <1>2, <2>1 DEF TransitInv, TransitTypes, CopiesTrail
  <2>4. \A m \in Members : Locked(m)' => m = n
    BY <1>2, <2>1 DEF TransitInv, TransitTypes, Locked
  <2>5. Within(stored', editing'[n])
    BY <1>2, <1>3, <2>1 DEF TransitInv, TransitTypes
  <2> QED
    BY <1>4, <2>2, <2>3, <2>4, <2>5 DEF TransitInv
<1> QED
  BY Zenon, <1>5, <1>6

\* The store gets what the only editor holds, or keeps what it had.
LEMMA GrowStep ==
  ASSUME TransitInv, NEW n \in Members, NEW rec \in Recs,
         editing' = [editing EXCEPT ![n] = <<>>], copy' = [copy EXCEPT ![n] = rec],
         made' = made, keys' = keys, excused => excused',
         \/ stored' = stored \/ (Locked(n) /\ stored' = editing[n]),
         ~excused' => Within(rec, stored')
  PROVE  TransitInv'
<1>1. TransitTypes'
  BY Zenon, EmptyRec DEF TransitInv, TransitTypes
<1>2. CASE excused'
  BY Zenon, <1>1, <1>2 DEF TransitInv
<1>3. CASE ~excused'
  <2>1. Within(stored, stored')
    BY Zenon, <1>3 DEF TransitInv, Within
  <2>2. Recoverable'
    BY Zenon, <1>3, <2>1 DEF TransitInv, Recoverable, Within
  <2>3. CopiesTrail'
    BY <1>3, <2>1 DEF TransitInv, TransitTypes, CopiesTrail, Within
  <2>4. \A m \in Members : Locked(m)' => m # n /\ Locked(m) /\ editing'[m] = editing[m]
    BY Zenon DEF TransitInv, TransitTypes, Locked
  <2>5. \A m \in Members : Locked(m)' => stored' = stored
    BY Zenon, <1>3, <2>4 DEF TransitInv
  <2> QED
    BY <1>1, <1>3, <2>2, <2>3, <2>4, <2>5 DEF TransitInv
<1> QED
  BY Zenon, <1>2, <1>3

\* saveKey: what the copy has becomes what is stored.
LEMMA SaveKeyStep ==
  ASSUME TransitInv, NEW n \in Members, saveLocked(n)
  PROVE  TransitInv'
<1>1. editing[n] \in Recs /\ (~excused' => stored' = editing[n])
  BY DEF TransitInv, TransitTypes, saveLocked
<1>2. ~excused' => Within(editing[n], stored')
  BY <1>1 DEF Within
<1>3. /\ editing' = [editing EXCEPT ![n] = <<>>] /\ copy' = [copy EXCEPT ![n] = editing[n]]
      /\ made' = made /\ keys' = keys /\ (excused => excused') /\ Locked(n)
      /\ stored' = stored \/ stored' = editing[n]
  BY DEF saveLocked
<1> QED
  BY Zenon, <1>1, <1>2, <1>3, GrowStep

\* A restart forgets copies, nothing that is stored.
LEMMA RestartStep ==
  ASSUME TransitInv, NEW n \in Members, Restart(n)
  PROVE  TransitInv'
  BY Zenon, EmptyRec, GrowStep DEF Restart, Within

\* Encrypt and HMAC hand out a version of a record that the store has.
LEMMA UseStep ==
  ASSUME TransitInv, NEW n \in Members, NEW asked, NEW mac,
         LET rec == getRecord(n)
             ver == dekFor(rec, asked)
         IN  /\ ver \in DOMAIN rec
             /\ copy' = [copy EXCEPT ![n] = rec]
             /\ made' = made \cup {[ver |-> ver, dek |-> rec[ver], mac |-> mac]},
         UNCHANGED <<stored, editing, keys, excused, lapses>>
  PROVE  TransitInv'
<1> DEFINE rec == getRecord(n)
           ver == dekFor(rec, asked)
<1>1. rec \in Recs /\ (excused \/ Within(rec, stored))
  BY DEF getRecord, TransitInv, TransitTypes, CopiesTrail, Within
<1>2. TransitTypes'
  BY Zenon, <1>1 DEF TransitInv, TransitTypes
<1>3. CASE excused
  BY Zenon, <1>2, <1>3 DEF TransitInv
<1>4. CASE ~excused
  <2>1. Recoverable'
    BY <1>1, <1>4 DEF TransitInv, Recoverable, Within
  <2>2. CopiesTrail'
    BY Zenon, <1>1, <1>4 DEF TransitInv, TransitTypes, CopiesTrail, Within
  <2> QED
    BY Zenon, <1>2, <1>4, <2>1, <2>2 DEF TransitInv, Locked
<1> QED
  BY <1>3, <1>4

\* Every step of the transit engine keeps the invariant.
LEMMA TransitPreserved == TransitInv /\ [TransitNext]_transitVars => TransitInv'
<1> SUFFICES ASSUME TransitInv, [TransitNext]_transitVars PROVE TransitInv'
  BY Zenon
<1>1. CASE UNCHANGED transitVars
  BY Zenon, <1>1 DEF transitVars, TransitInv, TransitTypes, Recoverable, CopiesTrail, Locked
<1>2. ASSUME NEW n \in Members, NEW asked, Encrypt(n, asked) \/ HMAC(n, asked) PROVE TransitInv'
  <2>1. CASE Encrypt(n, asked)
    BY Zenon, <2>1, UseStep DEF Encrypt
  <2>2. CASE HMAC(n, asked)
    BY Zenon, <2>2, UseStep DEF HMAC
  <2> QED
    BY Zenon, <1>2, <2>1, <2>2
<1> QED
  BY Zenon, <1>1, <1>2, EditStep, SaveKeyStep, RestartStep DEF TransitNext, TransitRequest, Rewrap

\* While edits succeed and do not overlap, the stored record opens all that
\* any node ever handed out (RotateKey, Encrypt, HMAC, saveLocked).
THEOREM RecoverableAlways == TransitSpec => []Recoverable
<1>1. TransitInv => Recoverable
  BY DEF TransitInv, Recoverable
<1> QED
  BY <1>1, TransitInitially, TransitPreserved, PTL DEF TransitSpec

\* Under the same condition a node's copy is the stored record or an older
\* state of it (getRecord, loadLocked).
THEOREM CopiesTrailAlways == TransitSpec => []CopiesTrail
<1>1. TransitInv => CopiesTrail
  BY Zenon DEF TransitInv, CopiesTrail
<1> QED
  BY <1>1, TransitInitially, TransitPreserved, PTL DEF TransitSpec
-----------------------------------------------------------------------------
(* Policies.  A check that is under way has the stored policies of now     *)
(* among those it may be decided from.                                     *)

Checks == [at : Replicas \cup {"none"}, fates : SUBSET [Names -> Values \cup {Absent}], excused : BOOLEAN]
PolicyTypes ==
  /\ rbac \in [Replicas -> [Names -> Values \cup {0, Absent}]]
  /\ hash \in [Replicas -> [Names -> Values \cup {Absent}]]
  /\ change \in [Clients -> [name : Names, value : Values \cup {Absent}, at : Replicas] \cup {NoChange}]
  /\ asking \in [Clients -> Checks]
  /\ saved \in [Names -> Values \cup {Absent}]

PolicyInv ==
  /\ PolicyTypes /\ HashMeansCopy /\ DecidedFromStore
  /\ \A c \in Clients : asking[c] # NoCheck /\ ~asking[c].excused
                          => saved \in asking[c].fates /\ asking[c].at \in Replicas

\* The built-in policies below the stored ones are policies.
LEMMA OverlayType ==
  ASSUME NEW all \in [Names -> Values \cup {Absent}]
  PROVE  Overlay(all) \in [Names -> Values \cup {0, Absent}]
  BY Zenon DEF Overlay

\* Nodes start from the stored policies, with no hash.
LEMMA PoliciesInitially == PoliciesInit => PolicyInv
<1> SUFFICES ASSUME PoliciesInit PROVE PolicyInv
  OBVIOUS
<1>1. Unknown \in [Names -> Values \cup {Absent}]
  BY Zenon DEF Unknown
<1>2. PolicyTypes
  BY Zenon, <1>1, OverlayType DEF PoliciesInit, PolicyTypes, Checks, NoCheck
<1> QED
  BY Zenon, <1>2 DEF PoliciesInit, PolicyInv, HashMeansCopy, DecidedFromStore

\* The repository took a policy: every check under way may now see it.
LEMMA StoredStep ==
  ASSUME PolicyInv, NEW c \in Clients, NEW r \in Replicas, NEW name \in Names, NEW value \in Values \cup {Absent},
         Stored(c, r, name, value)
  PROVE  PolicyInv'
<1>1. /\ saved' = [saved EXCEPT ![name] = value]
      /\ change' = [change EXCEPT ![c] = [name |-> name, value |-> value, at |-> r]]
      /\ asking' = [d \in Clients |-> IF asking[d] = NoCheck THEN NoCheck
                                     ELSE [asking[d] EXCEPT !.fates = @ \cup {saved'}]]
      /\ rbac' = rbac /\ hash' = hash
  BY Zenon DEF Stored
<1>2. saved' \in [Names -> Values \cup {Absent}]
  BY Zenon, <1>1 DEF PolicyInv, PolicyTypes
<1>3. \A d \in Clients : /\ asking[d] = NoCheck => asking'[d] = NoCheck
                         /\ asking[d] # NoCheck => /\ asking'[d].at = asking[d].at
                                                   /\ asking'[d].excused = asking[d].excused
                                                   /\ asking'[d].fates = asking[d].fates \cup {saved'}
  BY <1>1 DEF PolicyInv, PolicyTypes
<1>4. PolicyTypes'
  <2>1. asking' \in [Clients -> Checks]
    <3>1. \A a \in Checks : \A f \in [Names -> Values \cup {Absent}] : [a EXCEPT !.fates = @ \cup {f}] \in Checks
      BY DEF Checks
    <3>2. \A d \in Clients : asking[d] \in Checks
      BY Zenon DEF PolicyInv, PolicyTypes
    <3> QED
      BY Zenon, <1>1, <1>2, <3>1, <3>2
  <2>2. change' \in [Clients -> [name : Names, value : Values \cup {Absent}, at : Replicas] \cup {NoChange}]
    BY <1>1 DEF PolicyInv, PolicyTypes
  <2> QED
    BY Zenon, <1>1, <1>2, <2>1, <2>2 DEF PolicyInv, PolicyTypes
<1>5. HashMeansCopy' /\ DecidedFromStore'
  BY <1>1, <1>3 DEF PolicyInv, HashMeansCopy, DecidedFromStore
<1>6. \A d \in Clients : asking'[d] # NoCheck /\ ~asking'[d].excused
                            => saved' \in asking'[d].fates /\ asking'[d].at \in Replicas
  BY <1>3 DEF PolicyInv
<1> QED
  BY Zenon, <1>4, <1>5, <1>6 DEF PolicyInv

\* The writer puts the policy in its own copy and drops the hash.
LEMMA UpsertStep ==
  ASSUME PolicyInv, NEW c \in Clients, UpsertPolicy(c)
  PROVE  PolicyInv'
<1>1. PICK r \in Replicas, name \in Names, value \in Values \cup {Absent} :
         change[c] = [name |-> name, value |-> value, at |-> r]
  BY Zenon DEF PolicyInv, PolicyTypes, UpsertPolicy
<1>2. /\ rbac' = [rbac EXCEPT ![r][name] = value] /\ hash' = [hash EXCEPT ![r] = Unknown]
      /\ change' = [change EXCEPT ![c] = NoChange] /\ saved' = saved
      /\ asking' = [d \in Clients |-> [asking[d] EXCEPT !.excused = @ \/ asking[d].at = r]]
  BY <1>1 DEF UpsertPolicy
<1>3. PolicyTypes'
  <2>1. rbac' \in [Replicas -> [Names -> Values \cup {0, Absent}]]
    BY Zenon, <1>2 DEF PolicyInv, PolicyTypes
  <2>2. hash' \in [Replicas -> [Names -> Values \cup {Absent}]]
    BY Zenon, <1>2 DEF PolicyInv, PolicyTypes, Unknown
  <2>3. asking' \in [Clients -> Checks]
    <3>1. \A a \in Checks : \A b \in BOOLEAN : [a EXCEPT !.excused = b] \in Checks
      BY DEF Checks
    <3>2. \A d \in Clients : asking[d] \in Checks /\ (asking[d].excused \/ asking[d].at = r) \in BOOLEAN
      BY DEF PolicyInv, PolicyTypes, Checks
    <3> QED
      BY Zenon, <1>2, <3>1, <3>2
  <2> QED
    BY Zenon, <1>2, <2>1, <2>2, <2>3 DEF PolicyInv, PolicyTypes
<1>4. \A d \in Clients : ~asking'[d].excused => asking'[d] = asking[d] /\ asking[d].at # r
  <2>1. \A a \in Checks : \A b \in BOOLEAN : /\ [a EXCEPT !.excused = b].excused = b
                                            /\ a.excused = b => [a EXCEPT !.excused = b] = a
    BY DEF Checks
  <2> SUFFICES ASSUME NEW d \in Clients, ~asking'[d].excused
               PROVE  asking'[d] = asking[d] /\ asking[d].at # r
    BY Zenon
  <2>2. PICK a \in Checks : a = asking[d]
    BY Zenon DEF PolicyInv, PolicyTypes
  <2>3. PICK b \in BOOLEAN : b = (a.excused \/ a.at = r)
    BY Zenon DEF Checks
  <2>4. asking'[d] = [a EXCEPT !.excused = b]
    BY <1>2, <2>2, <2>3
  <2>5. ~b /\ a.excused \in BOOLEAN
    BY Zenon, <2>1, <2>4 DEF Checks
  <2>6. a.excused = b
    BY Zenon, <2>3, <2>5
  <2>7. asking'[d] = a
    BY <2>4, <2>6 DEF Checks
  <2>8. a.at # r
    BY Zenon, <2>3, <2>5
  <2> QED
    BY Zenon, <2>2, <2>7, <2>8
<1>5. \A q \in Replicas : q # r => rbac'[q] = rbac[q] /\ hash'[q] = hash[q]
  BY <1>2 DEF PolicyInv, PolicyTypes
<1>6. HashMeansCopy'
  BY <1>2, <1>5 DEF PolicyInv, PolicyTypes, HashMeansCopy
<1>7. DecidedFromStore'
  BY <1>4, <1>5 DEF PolicyInv, DecidedFromStore
<1> QED
  BY Zenon, <1>2, <1>3, <1>4, <1>6, <1>7 DEF PolicyInv

\* A node loads: its copy becomes the stored policies, or is left because it
\* is them already.
LEMMA LoadStep ==
  ASSUME PolicyInv, NEW r \in Replicas,
         \/ UNCHANGED <<rbac, hash>>
         \/ rbac' = [rbac EXCEPT ![r] = Overlay(saved)] /\ hash' = [hash EXCEPT ![r] = saved],
         NEW d \in Clients, asking[d] # NoCheck, ~asking[d].excused
  PROVE  \E f \in asking[d].fates : rbac'[asking[d].at] = Overlay(f)
<1>1. saved \in asking[d].fates /\ asking[d].at \in Replicas /\ \E f \in asking[d].fates : rbac[asking[d].at] = Overlay(f)
  BY Zenon DEF PolicyInv, DecidedFromStore
<1>2. rbac'[asking[d].at] = rbac[asking[d].at] \/ rbac'[asking[d].at] = Overlay(saved)
  BY Zenon, <1>1 DEF PolicyInv, PolicyTypes
<1> QED
  BY <1>1, <1>2

\* A load leaves a copy that is what its hash says.
LEMMA LoadTypes ==
  ASSUME PolicyInv, NEW r \in Replicas,
         \/ UNCHANGED <<rbac, hash>>
         \/ rbac' = [rbac EXCEPT ![r] = Overlay(saved)] /\ hash' = [hash EXCEPT ![r] = saved]
  PROVE  /\ rbac' \in [Replicas -> [Names -> Values \cup {0, Absent}]]
         /\ hash' \in [Replicas -> [Names -> Values \cup {Absent}]]
         /\ HashMeansCopy'
<1>1. saved \in [Names -> Values \cup {Absent}] /\ Overlay(saved) \in [Names -> Values \cup {0, Absent}]
  BY Zenon, OverlayType DEF PolicyInv, PolicyTypes
<1>2. CASE UNCHANGED <<rbac, hash>>
  BY Zenon, <1>2 DEF PolicyInv, PolicyTypes, HashMeansCopy
<1>3. CASE rbac' = [rbac EXCEPT ![r] = Overlay(saved)] /\ hash' = [hash EXCEPT ![r] = saved]
  BY Zenon, <1>1, <1>3 DEF PolicyInv, PolicyTypes, HashMeansCopy
<1> QED
  BY Zenon, <1>2, <1>3

\* A check begins by syncing its node: it will decide from what is stored
\* now.
LEMMA SyncStep ==
  ASSUME PolicyInv, NEW c \in Clients, NEW r \in Replicas, Sync(c, r)
  PROVE  PolicyInv'
<1>1. \/ UNCHANGED <<rbac, hash>>
      \/ rbac' = [rbac EXCEPT ![r] = Overlay(saved)] /\ hash' = [hash EXCEPT ![r] = saved]
  BY Zenon DEF Sync, SyncRBAC
<1>2. saved' = saved /\ change' = change
  BY Zenon DEF Sync
<1>3. \/ asking' = [asking EXCEPT ![c] = [at |-> r, fates |-> {}, excused |-> TRUE]]
      \/ /\ asking' = [asking EXCEPT ![c] = [at |-> r, fates |-> {saved}, excused |-> FALSE]]
         /\ SyncRBAC(r)
  BY Zenon DEF Sync
<1>4. SyncRBAC(r) => rbac'[r] = Overlay(saved)
  BY Zenon DEF SyncRBAC, PolicyInv, PolicyTypes, HashMeansCopy
<1>5. PolicyTypes'
  <2>1. asking' \in [Clients -> Checks]
    <3>1. saved \in [Names -> Values \cup {Absent}]
      BY DEF PolicyInv, PolicyTypes
    <3>2. PICK a \in Checks : asking' = [asking EXCEPT ![c] = a]
      BY Zenon, <1>3, <3>1 DEF Checks
    <3> QED
      BY <3>2 DEF PolicyInv, PolicyTypes
  <2> QED
    BY Zenon, <1>1, <1>2, <2>1, LoadTypes DEF PolicyInv, PolicyTypes
<1>6. \A d \in Clients : d # c => asking'[d] = asking[d]
  BY <1>3 DEF PolicyInv, PolicyTypes
<1>7. asking'[c].excused \/ (asking'[c].at = r /\ asking'[c].fates = {saved} /\ rbac'[r] = Overlay(saved))
  BY <1>3, <1>4 DEF PolicyInv, PolicyTypes
<1>8. DecidedFromStore'
  BY <1>1, <1>6, <1>7, LoadStep DEF DecidedFromStore
<1>9. \A d \in Clients : asking'[d] # NoCheck /\ ~asking'[d].excused
                            => saved' \in asking'[d].fates /\ asking'[d].at \in Replicas
  BY Zenon, <1>2, <1>6, <1>7 DEF PolicyInv
<1> QED
  BY Zenon, <1>1, <1>5, <1>8, <1>9, LoadTypes DEF PolicyInv

\* A check that ends leaves the copies alone.
LEMMA DecideStep ==
  ASSUME PolicyInv, NEW c \in Clients, Decide(c)
  PROVE  PolicyInv'
<1>1. /\ asking' = [asking EXCEPT ![c] = NoCheck]
      /\ UNCHANGED <<saved, rbac, hash, change>>
  BY Zenon DEF Decide
<1>2. PolicyTypes'
  BY Zenon, <1>1 DEF PolicyInv, PolicyTypes, Checks, NoCheck
<1>3. \A d \in Clients : asking'[d] = NoCheck \/ asking'[d] = asking[d]
  BY Zenon, <1>1 DEF PolicyInv, PolicyTypes
<1> QED
  BY <1>1, <1>2, <1>3 DEF PolicyInv, HashMeansCopy, DecidedFromStore

\* A node that restarts loads the stored policies.
LEMMA RebootStep ==
  ASSUME PolicyInv, NEW r \in Replicas, Reboot(r)
  PROVE  PolicyInv'
<1>1. /\ rbac' = [rbac EXCEPT ![r] = Overlay(saved)] /\ hash' = [hash EXCEPT ![r] = saved]
      /\ UNCHANGED <<saved, change, asking>>
  BY Zenon DEF Reboot
<1>2. PolicyTypes' /\ HashMeansCopy'
  BY Zenon, <1>1, LoadTypes DEF PolicyInv, PolicyTypes
<1>3. DecidedFromStore'
  BY Zenon, <1>1, LoadStep DEF DecidedFromStore
<1> QED
  BY Zenon, <1>1, <1>2, <1>3 DEF PolicyInv

\* Every step of the policy service keeps the invariant.
LEMMA PoliciesPreserved == PolicyInv /\ [PoliciesNext]_policyVars => PolicyInv'
<1> SUFFICES ASSUME PolicyInv, [PoliciesNext]_policyVars PROVE PolicyInv'
  BY SMTT(30)
<1>1. CASE UNCHANGED policyVars
  BY <1>1 DEF policyVars, PolicyInv, PolicyTypes, HashMeansCopy, DecidedFromStore
<1>2. ASSUME NEW c \in Clients, NEW r \in Replicas, PolicyRequest(c, r) PROVE PolicyInv'
  BY Zenon, <1>2, StoredStep DEF PolicyRequest, RemovePolicy, StorePolicy
<1> QED
  BY <1>1, <1>2, UpsertStep, SyncStep, DecideStep, RebootStep DEF PoliciesNext

\* A node that keeps a hash decides from the policies that have that hash,
\* also when changes reach its copy in another order (SyncRBAC).
THEOREM HashMeansCopyAlways == PoliciesSpec => []HashMeansCopy
<1>1. PolicyInv => HashMeansCopy
  BY Zenon DEF PolicyInv
<1> QED
  BY <1>1, PoliciesInitially, PoliciesPreserved, PTL DEF PoliciesSpec

\* A check is decided from policies stored at or after its start, but for a
\* failed read and a change of its own node in between (Authorize).
THEOREM DecidedFromStoreAlways == PoliciesSpec => []DecidedFromStore
<1>1. PolicyInv => DecidedFromStore
  BY Zenon DEF PolicyInv
<1> QED
  BY <1>1, PoliciesInitially, PoliciesPreserved, PTL DEF PoliciesSpec
-----------------------------------------------------------------------------
(* Identities.                                                             *)

IdentityTypes == memory \in [Hosts -> Memories] /\ snapshot \in Memories

\* Nothing is refused before anything is stored.
LEMMA EmptyRefusesNone ==
  EmptyMemory \in Memories /\ \A a \in Aliases : ~ResolveLogin(EmptyMemory, a).refused
<1>1. EmptyMemory \in Memories
  BY Zenon DEF EmptyMemory, Memories
<1> QED
  BY Zenon, <1>1 DEF EmptyMemory, ResolveLogin

\* What a refused name looks like in the store.
LEMMA RefusedIs ==
  ASSUME NEW m \in Memories, NEW a \in Aliases
  PROVE  ResolveLogin(m, a).refused <=> m.owner[a] # NoEntity /\ m.entity[m.owner[a]] = "disabled"
  BY Zenon DEF ResolveLogin

\* The change a node makes and writes.
LEMMA PersistStep ==
  ASSUME IdentityTypes, NEW h \in Hosts, NEW changed \in Memories, NEW op, persistLocked(h, changed, op)
  PROVE  /\ IdentityTypes'
         /\ \A a \in Aliases : RefusedEverywhere(a) /\ ResolveLogin(changed, a).refused => RefusedEverywhere(a)'
<1>1. memory' = [memory EXCEPT ![h] = changed] /\ (snapshot' = snapshot \/ snapshot' = changed)
  BY ZenonT(60) DEF persistLocked
<1>2. IdentityTypes'
  BY Zenon, <1>1 DEF IdentityTypes
<1>3. \A m \in Everywhere' : m = changed \/ m \in Everywhere
  BY Zenon, <1>1 DEF IdentityTypes, Everywhere
<1> QED
  BY Zenon, <1>2, <1>3 DEF RefusedEverywhere

\* No step of the identity service lifts a refusal.
LEMMA IdentityStep ==
  ASSUME IdentityTypes, [IdentitiesNext]_identityVars
  PROVE  /\ IdentityTypes'
         /\ \A a \in Aliases : RefusedEverywhere(a) /\ (did' = "other" \/ UNCHANGED identityVars) => RefusedEverywhere(a)'
<1>1. CASE UNCHANGED identityVars
  BY Zenon, <1>1 DEF identityVars, IdentityTypes, RefusedEverywhere, Everywhere
<1>2. ASSUME NEW h \in Hosts, NEW e \in Entities, CreateEntity(h, e)
      PROVE  /\ IdentityTypes'
             /\ \A a \in Aliases : RefusedEverywhere(a) => RefusedEverywhere(a)'
  <2> DEFINE changed == [memory[h] EXCEPT !.entity[e] = "enabled"]
  <2>1. memory[h] \in Memories /\ memory[h] \in Everywhere /\ memory[h].entity[e] = "none"
    BY Zenon, <1>2 DEF IdentityTypes, Everywhere, CreateEntity
  <2>2. changed \in Memories
    BY Zenon, <2>1 DEF Memories
  <2>3. \A a \in Aliases : RefusedEverywhere(a) => ResolveLogin(changed, a).refused
    <3> SUFFICES ASSUME NEW a \in Aliases, RefusedEverywhere(a) PROVE ResolveLogin(changed, a).refused
      OBVIOUS
    <3>1. memory[h].owner[a] # NoEntity /\ memory[h].entity[memory[h].owner[a]] = "disabled"
      BY <2>1, RefusedIs DEF RefusedEverywhere
    <3>2. changed.owner[a] = memory[h].owner[a] /\ changed.entity[memory[h].owner[a]] = "disabled"
      BY Zenon, <2>1, <3>1 DEF Memories
    <3> QED
      BY Zenon, <2>2, <3>1, <3>2, RefusedIs
  <2> QED
    BY Zenon, <1>2, <2>2, <2>3, PersistStep DEF CreateEntity
<1>3. ASSUME NEW h \in Hosts, NEW e \in Entities, NEW disabled \in BOOLEAN, SetEntityDisabled(h, e, disabled)
      PROVE  /\ IdentityTypes'
             /\ \A a \in Aliases : RefusedEverywhere(a) /\ did' = "other" => RefusedEverywhere(a)'
  <2> DEFINE changed == [memory[h] EXCEPT !.entity[e] = IF disabled THEN "disabled" ELSE "enabled"]
  <2>1. memory[h] \in Memories /\ memory[h] \in Everywhere
    BY Zenon DEF IdentityTypes, Everywhere
  <2>2. changed \in Memories /\ (did' = "other" => disabled)
    BY Zenon, <1>3, <2>1 DEF Memories, SetEntityDisabled, persistLocked
  <2>3. \A a \in Aliases : RefusedEverywhere(a) /\ disabled => ResolveLogin(changed, a).refused
    <3> SUFFICES ASSUME NEW a \in Aliases, RefusedEverywhere(a), disabled PROVE ResolveLogin(changed, a).refused
      OBVIOUS
    <3>1. memory[h].owner[a] # NoEntity /\ memory[h].entity[memory[h].owner[a]] = "disabled"
      BY <2>1, RefusedIs DEF RefusedEverywhere
    <3>2. changed.owner[a] = memory[h].owner[a] /\ changed.entity[memory[h].owner[a]] = "disabled"
      BY <2>1, <3>1 DEF Memories
    <3> QED
      BY Zenon, <2>2, <3>1, <3>2, RefusedIs
  <2> QED
    BY Zenon, <1>3, <2>2, <2>3, PersistStep DEF SetEntityDisabled
<1>4. ASSUME NEW h \in Hosts, NEW e \in Entities, NEW b \in Aliases, CreateAlias(h, e, b)
      PROVE  /\ IdentityTypes'
             /\ \A a \in Aliases : RefusedEverywhere(a) => RefusedEverywhere(a)'
  <2> DEFINE changed == [memory[h] EXCEPT !.owner[b] = e]
  <2>1. memory[h] \in Memories /\ memory[h] \in Everywhere /\ memory[h].owner[b] = NoEntity
    BY Zenon, <1>4 DEF IdentityTypes, Everywhere, CreateAlias
  <2>2. changed \in Memories
    BY Zenon, <2>1 DEF Memories
  <2>3. \A a \in Aliases : RefusedEverywhere(a) => ResolveLogin(changed, a).refused
    <3> SUFFICES ASSUME NEW a \in Aliases, RefusedEverywhere(a) PROVE ResolveLogin(changed, a).refused
      OBVIOUS
    <3>1. memory[h].owner[a] # NoEntity /\ memory[h].entity[memory[h].owner[a]] = "disabled"
      BY <2>1, RefusedIs DEF RefusedEverywhere
    <3>2. changed.owner[a] = memory[h].owner[a] /\ changed.entity = memory[h].entity
      BY <2>1, <3>1 DEF Memories
    <3> QED
      BY Zenon, <2>2, <3>1, <3>2, RefusedIs
  <2> QED
    BY <1>4, <2>2, <2>3, PersistStep DEF CreateAlias
<1>5. ASSUME NEW h \in Hosts, NEW g \in Groups, NEW members \in SUBSET Entities, CreateGroup(h, g, members)
      PROVE  /\ IdentityTypes'
             /\ \A a \in Aliases : RefusedEverywhere(a) => RefusedEverywhere(a)'
  <2> DEFINE changed == [memory[h] EXCEPT !.group[g] = {members}]
  <2>1. memory[h] \in Memories /\ memory[h] \in Everywhere
    BY Zenon DEF IdentityTypes, Everywhere
  <2>2. changed \in Memories /\ changed.owner = memory[h].owner /\ changed.entity = memory[h].entity
    BY <2>1 DEF Memories
  <2>3. \A a \in Aliases : RefusedEverywhere(a) => ResolveLogin(changed, a).refused
    BY Zenon, <2>1, <2>2, RefusedIs DEF RefusedEverywhere
  <2> QED
    BY Zenon, <1>5, <2>2, <2>3, PersistStep DEF CreateGroup
<1>6. ASSUME NEW h \in Hosts, load(h)
      PROVE  /\ IdentityTypes'
             /\ \A a \in Aliases : RefusedEverywhere(a) /\ did' = "other" => RefusedEverywhere(a)'
  <2>1. snapshot' = snapshot /\ snapshot \in Everywhere
    BY <1>6 DEF load, Everywhere
  <2>2. IdentityTypes'
    BY <1>6, EmptyRefusesNone DEF load, IdentityTypes
  <2>3. did' = "other" => memory' = [memory EXCEPT ![h] = snapshot]
    BY <1>6 DEF load
  <2>4. did' = "other" => \A m \in Everywhere' : m \in Everywhere
    BY Zenon, <2>1, <2>3 DEF IdentityTypes, Everywhere
  <2> QED
    BY <2>2, <2>4 DEF RefusedEverywhere
<1> QED
  BY Zenon, <1>1, <1>2, <1>3, <1>4, <1>5, <1>6 DEF IdentitiesNext, IdentityRequest

\* Whole memories written over each other never undo a refusal that every
\* node and the snapshot share (persistLocked, load, CreateAlias).
THEOREM RefusedStaysAlways == IdentitiesSpec => RefusedStays
<1>1. IdentitiesInit => IdentityTypes
  BY Zenon, EmptyRefusesNone DEF IdentitiesInit, IdentityTypes
<1>2. IdentityTypes /\ [IdentitiesNext]_identityVars => IdentityTypes'
  BY Zenon, IdentityStep
<1>3. IdentityTypes /\ [IdentitiesNext]_identityVars =>
        [\A a \in Aliases : RefusedEverywhere(a) /\ did' = "other" => RefusedEverywhere(a)']_identityVars
  BY Zenon, IdentityStep
<1> QED
  BY <1>1, <1>2, <1>3, PTL DEF IdentitiesSpec, RefusedStays
-----------------------------------------------------------------------------
(* AppRoles.                                                               *)

AppRoleTypes ==
  /\ roles \in [AppHosts -> [RoleIDs -> Nat]] /\ file \in [AppHosts -> [RoleIDs -> Nat]]
  /\ blob \in [version : Nat, roles : [RoleIDs -> Nat]]
  /\ saving \in [AppHosts -> Nat]

\* No step of the AppRole engine brings a retired secret id back.
LEMMA AppRoleStep ==
  ASSUME AppRoleTypes, [AppRolesNext]_approleVars
  PROVE  AppRoleTypes'
<1>0. NoRoles \in [RoleIDs -> Nat]
  BY Zenon DEF NoRoles
<1>1. CASE UNCHANGED approleVars
  BY Zenon, <1>1 DEF approleVars, AppRoleTypes
<1>2. ASSUME NEW h \in AppHosts, NEW changed \in [RoleIDs -> Nat], saveRolesLocked(h, changed)
      PROVE  AppRoleTypes'
  <2>1. PICK v \in Nat : saving' = [saving EXCEPT ![h] = v]
    BY <1>2 DEF saveRolesLocked, AppRoleTypes
  <2>2. roles' = [roles EXCEPT ![h] = changed] /\ (file' = file \/ file' = [file EXCEPT ![h] = changed]) /\ blob' = blob
    BY Zenon, <1>2 DEF saveRolesLocked
  <2> QED
    BY Zenon, <2>1, <2>2 DEF AppRoleTypes
<1>3. ASSUME NEW h \in AppHosts, NEW r \in RoleIDs, NEW s \in SecretIDs, Register(h, r, s) PROVE AppRoleTypes'
  <2>1. [roles[h] EXCEPT ![r] = s] \in [RoleIDs -> Nat]
    BY Zenon, AppRolesAssumption DEF AppRoleTypes
  <2> QED
    BY Zenon, <1>2, <1>3, <2>1 DEF Register
<1>4. ASSUME NEW h \in AppHosts, NEW r \in RoleIDs, Delete(h, r) PROVE AppRoleTypes'
  <2>1. [roles[h] EXCEPT ![r] = 0] \in [RoleIDs -> Nat]
    BY Zenon DEF AppRoleTypes
  <2> QED
    BY Zenon, <1>2, <1>4, <2>1 DEF Delete
<1>5. ASSUME NEW h \in AppHosts, SaveVersion(h) PROVE AppRoleTypes'
  BY <1>5 DEF SaveVersion, AppRoleTypes
<1>6. ASSUME NEW h \in AppHosts, Boot(h) PROVE AppRoleTypes'
  <2>1. loadLockedRoles(NoRoles, file[h]) \in [RoleIDs -> Nat]
    BY <1>0 DEF loadLockedRoles, AppRoleTypes
  <2>2. PICK read \in [RoleIDs -> Nat] : roles' = [roles EXCEPT ![h] = read]
    BY Zenon, <1>0, <1>6, <2>1 DEF Boot, AppRoleTypes
  <2> QED
    BY Zenon, <1>6, <2>2 DEF Boot, AppRoleTypes
<1> QED
  BY Zenon, <1>1, <1>3, <1>4, <1>5, <1>6 DEF AppRolesNext

\* What a node deletes, saves or boots with never brings a secret back that
\* no node takes and the blob does not hold.
LEMMA RetiredStep ==
  ASSUME AppRoleTypes, AppRolesNext, act' = "other", NEW r \in RoleIDs, NEW s \in SecretIDs, Retired(r, s)
  PROVE  Retired(r, s)'
<1>0. s # 0 /\ blob.version # 0 /\ blob.roles[r] # s /\ \A h \in AppHosts : roles[h][r] # s
  BY Zenon, AppRolesAssumption DEF Retired, Authenticate
<1>1. ASSUME NEW h \in AppHosts, NEW q \in RoleIDs, Delete(h, q)
      PROVE  blob' = blob /\ \A g \in AppHosts : roles'[g][r] # s
  BY Zenon, <1>0, <1>1 DEF Delete, saveRolesLocked, AppRoleTypes
<1>2. ASSUME NEW h \in AppHosts, SaveVersion(h)
      PROVE  roles' = roles /\ blob'.version # 0 /\ blob'.roles[r] # s
  BY <1>0, <1>2 DEF SaveVersion, AppRoleTypes
<1>3. ASSUME NEW h \in AppHosts, Boot(h)
      PROVE  blob' = blob /\ \A g \in AppHosts : roles'[g][r] # s
  <2>1. blob' = blob /\ roles' = [roles EXCEPT ![h] = blob.roles]
    BY Zenon, <1>0, <1>3 DEF Boot
  <2> QED
    BY Zenon, <1>0, <2>1 DEF AppRoleTypes
<1>4. ASSUME NEW h \in AppHosts, NEW q \in RoleIDs, NEW t \in SecretIDs, Register(h, q, t) PROVE FALSE
  BY Zenon, <1>4 DEF Register
<1> QED
  BY Zenon, <1>0, <1>1, <1>2, <1>3, <1>4 DEF AppRolesNext, Retired, Authenticate

\* A retired secret_id stays refused until it is registered again, although
\* files of nodes still hold it (SaveVersion, AttachRaftBackend).
THEOREM RetiredStaysAlways == AppRolesSpec => RetiredStays
<1>1. AppRolesInit => AppRoleTypes
  BY DEF AppRolesInit, AppRoleTypes, NoRoles
<1>2. AppRoleTypes /\ [AppRolesNext]_approleVars => AppRoleTypes'
  BY AppRoleStep
<1>3. AppRoleTypes /\ [AppRolesNext]_approleVars =>
        [\A r \in RoleIDs, s \in SecretIDs : Retired(r, s) /\ act' = "other" => Retired(r, s)']_approleVars
  BY RetiredStep
<1> QED
  BY <1>1, <1>2, <1>3, PTL DEF AppRolesSpec, RetiredStays
-----------------------------------------------------------------------------
(* AuditLog.  The clock gives each record a time of its own, so that the   *)
(* places of an entry at the sink can be told by it.                       *)

Contents == [ts : Nat, what : {"recorded"}]
Hashes == Seq(Contents)
Entry == [content : Contents, hash : Hashes, signature : Hashes]
Recording ==
  [at : {"idle", "exported", "append", "forward"}, ts : Nat, prev : Hashes, exporting : BOOLEAN,
   head : Hashes]

AuditTypes ==
  /\ entries \in Seq(Entry)
  /\ recorder \in [Recorders -> Recording]
  /\ queue \in Seq(Nat)
  /\ fate \in [sent : SUBSET Nat, failed : SUBSET Nat, dropped : SUBSET Nat, lost : SUBSET Nat]
  /\ begun \in Nat

Logged == {entries[i].content.ts : i \in 1..Len(entries)}
Handing == {recorder[r].ts : r \in {r \in Recorders : recorder[r].at = "forward"}}
UnderWay(r) == recorder[r].at \in {"append", "forward"}

\* The places of an entry at the sink are apart, and hold what is logged.
Apart(q, s, f, d, l, h) ==
  /\ q \cap s = {} /\ q \cap f = {} /\ q \cap d = {} /\ q \cap l = {} /\ q \cap h = {}
  /\ s \cap f = {} /\ s \cap d = {} /\ s \cap l = {} /\ s \cap h = {}
  /\ f \cap d = {} /\ f \cap l = {} /\ f \cap h = {}
  /\ d \cap l = {} /\ d \cap h = {} /\ l \cap h = {}
Whole(q, s, f, d, l, h, all) == Apart(q, s, f, d, l, h) /\ q \cup s \cup f \cup d \cup l \cup h = all

NoRepeats(q) == \A i, j \in 1..Len(q) : q[i] = q[j] => i = j

Clocked ==
  /\ \A t \in Logged : t <= begun
  /\ \A r \in Recorders : UnderWay(r) => recorder[r].ts <= begun
  /\ \A r \in Recorders : recorder[r].at = "append" => recorder[r].ts \notin Logged
  /\ \A r, q \in Recorders : UnderWay(r) /\ UnderWay(q) /\ recorder[r].ts = recorder[q].ts => r = q
  /\ NoRepeats(queue)

AuditInv ==
  /\ AuditTypes /\ Clocked
  /\ Whole(Range(queue), fate.sent, fate.failed, fate.dropped, fate.lost, Handing, Logged)

\* The two ways of saying that every entry is in one place.
LEMMA SixPlaces ==
  ASSUME NEW q, NEW s, NEW f, NEW d, NEW l, NEW h, NEW all
  PROVE  LET places == <<q, s, f, d, l, h>>
         IN  /\ UNION Range(places) = all
             /\ \A i, j \in DOMAIN places : i # j => places[i] \cap places[j] = {}
         <=> Whole(q, s, f, d, l, h, all)
<1> DEFINE places == <<q, s, f, d, l, h>>
<1>1. /\ DOMAIN places = 1..6 /\ places[1] = q /\ places[2] = s /\ places[3] = f
      /\ places[4] = d /\ places[5] = l /\ places[6] = h
  OBVIOUS
<1> HIDE DEF places
<1>2. \A i : i \in 1..6 <=> i \in {1, 2, 3, 4, 5, 6}
  OBVIOUS
<1>3. UNION Range(places) = q \cup s \cup f \cup d \cup l \cup h
  <2>1. Range(places) = {q, s, f, d, l, h}
    BY SMTT(30), <1>1, <1>2 DEF Range
  <2> QED
    BY <2>1
<1>4. (\A i, j \in DOMAIN places : i # j => places[i] \cap places[j] = {}) <=> Apart(q, s, f, d, l, h)
  <2>1. ASSUME Apart(q, s, f, d, l, h), NEW i \in {1, 2, 3, 4, 5, 6}, NEW j \in {1, 2, 3, 4, 5, 6}, i # j
        PROVE  places[i] \cap places[j] = {}
    BY <2>1, <1>1 DEF Apart
  <2>2. ASSUME \A i, j \in 1..6 : i # j => places[i] \cap places[j] = {}
        PROVE  Apart(q, s, f, d, l, h)
    BY <2>2, <1>1 DEF Apart
  <2> QED
    BY <1>1, <1>2, <2>1, <2>2
<1> QED
  BY <1>3, <1>4 DEF Whole, places

\* Nothing is logged, and nothing is anywhere.
LEMMA AuditInitially == AuditInit => AuditInv
<1> SUFFICES ASSUME AuditInit PROVE AuditInv
  OBVIOUS
<1> USE DEF AuditInit
<1>1. AuditTypes
  BY SMTT(30) DEF AuditTypes, Recording, Resting, Hashes
<1>2. Logged = {} /\ Handing = {} /\ Range(queue) = {} /\ \A r \in Recorders : recorder[r].at = "idle"
  BY DEF Logged, Handing, Range, Resting
<1>3. Clocked
  BY <1>2 DEF Clocked, UnderWay, NoRepeats
<1> QED
  BY ZenonT(60), <1>1, <1>2, <1>3 DEF AuditInv, Whole, Apart

\* The steps by which an entry changes its place: it is logged, handed over,
\* taken by the worker, or lost with the process.
LEMMA PlaceLogged ==
  ASSUME NEW q, NEW s, NEW f, NEW d, NEW l, NEW h, NEW all, NEW t, t \notin all, Whole(q, s, f, d, l, h, all)
  PROVE  Whole(q, s, f, d, l, h \cup {t}, all \cup {t})
  BY ZenonT(60) DEF Whole, Apart

\* What was being handed over is queued or dropped.
LEMMA PlaceHanded ==
  ASSUME NEW q, NEW s, NEW f, NEW d, NEW l, NEW h, NEW all, NEW t \in h, Whole(q, s, f, d, l, h, all)
  PROVE  Whole(q \cup {t}, s, f, d, l, h \ {t}, all) /\ Whole(q, s, f, d \cup {t}, l, h \ {t}, all)
  BY ZenonT(60) DEF Whole, Apart

\* What was queued is sent or given up.
LEMMA PlaceTaken ==
  ASSUME NEW q, NEW s, NEW f, NEW d, NEW l, NEW h, NEW all, NEW t \in q, Whole(q, s, f, d, l, h, all)
  PROVE  Whole(q \ {t}, s \cup {t}, f, d, l, h, all) /\ Whole(q \ {t}, s, f \cup {t}, d, l, h, all)
  BY DEF Whole, Apart

\* What was queued or being handed over is lost with the process.
LEMMA PlaceLost ==
  ASSUME NEW q, NEW s, NEW f, NEW d, NEW l, NEW h, NEW all, Whole(q, s, f, d, l, h, all)
  PROVE  Whole({}, s, f, d, l \cup q \cup h, {}, all)
  BY DEF Whole, Apart

\* A hash covers contents, and what is logged and recorded has a time.
LEMMA HashTypes ==
  ASSUME AuditTypes
  PROVE  /\ LatestHash(entries) \in Hashes
         /\ \A t \in Nat : \A prev \in Hashes : computeHash(prev, Content(t)) \in Hashes
         /\ \A i \in 1..Len(entries) : entries[i].content.ts \in Nat
         /\ \A r \in Recorders : recorder[r].ts \in Nat /\ recorder[r].prev \in Hashes
<1>1. \A i \in 1..Len(entries) : entries[i] \in Entry
  BY DEF AuditTypes
<1>2. \A e \in Entry : e.hash \in Hashes /\ e.content.ts \in Nat
  BY DEF Entry, Contents
<1>3. entries # <<>> => Len(entries) \in 1..Len(entries)
  BY DEF AuditTypes
<1>4. <<>> \in Hashes
  BY DEF Hashes
<1>5. \A t \in Nat : Content(t) \in Contents
  BY DEF Content, Contents
<1>6. LatestHash(entries) \in Hashes
  BY Zenon, <1>1, <1>2, <1>3, <1>4 DEF LatestHash
<1>7. \A t \in Nat : \A prev \in Hashes : computeHash(prev, Content(t)) \in Hashes
  BY <1>5 DEF computeHash, Hashes
<1>8. \A x \in Recording : x.ts \in Nat /\ x.prev \in Hashes
  BY DEF Recording
<1>9. \A r \in Recorders : recorder[r].ts \in Nat /\ recorder[r].prev \in Hashes
  BY Zenon, <1>8 DEF AuditTypes
<1> QED
  BY Zenon, <1>1, <1>2, <1>6, <1>7, <1>9

\* What the steps make of what a goroutine is doing.
LEMMA RecordingBegins ==
  ASSUME NEW x \in Recording, NEW t \in Nat, NEW p \in Hashes
  PROVE  /\ [x EXCEPT !.at = "append", !.ts = t, !.prev = p] \in Recording
         /\ [x EXCEPT !.at = "append", !.ts = t, !.prev = p].at = "append"
         /\ [x EXCEPT !.at = "append", !.ts = t, !.prev = p].ts = t
  BY Zenon DEF Recording

\* A record that is read, appended or handed over keeps its shape.
LEMMA RecordingMoves ==
  ASSUME NEW x \in Recording, NEW p \in Hashes
  PROVE  /\ [x EXCEPT !.at = "exported", !.exporting = TRUE, !.head = p] \in Recording
         /\ [x EXCEPT !.at = "exported", !.exporting = TRUE, !.head = p].at = "exported"
         /\ [x EXCEPT !.at = "forward"] \in Recording
         /\ [x EXCEPT !.at = "forward"].at = "forward" /\ [x EXCEPT !.at = "forward"].ts = x.ts
<1>1. /\ [x EXCEPT !.at = "exported", !.exporting = TRUE, !.head = p] \in Recording
      /\ [x EXCEPT !.at = "exported", !.exporting = TRUE, !.head = p].at = "exported"
  BY Zenon DEF Recording
<1>2. /\ [x EXCEPT !.at = "forward"] \in Recording
      /\ [x EXCEPT !.at = "forward"].at = "forward" /\ [x EXCEPT !.at = "forward"].ts = x.ts
  BY DEF Recording
<1> QED
  BY Zenon, <1>1, <1>2

\* A recorder at rest is idle.
LEMMA RestingIs == Resting \in Recording /\ Resting.at = "idle"
<1>1. <<>> \in Hashes
  BY DEF Hashes
<1> QED
  BY Zenon, <1>1 DEF Recording, Resting

\* Beginning a record moves nothing: its time is new.
LEMMA BeginStep ==
  ASSUME AuditInv, NEW r \in Recorders, recorder[r].at \in {"idle", "exported"},
         Begin(r, recorder[r]), UNCHANGED <<entries, queue, fate>>
  PROVE  AuditInv'
<1>1. recorder \in [Recorders -> Recording] /\ begun \in Nat /\ begun + 1 \in Nat
  BY DEF AuditInv, AuditTypes
<1>2. LatestHash(entries) \in Hashes
  BY HashTypes DEF AuditInv
<1>3. /\ recorder' \in [Recorders -> Recording] /\ begun' = begun + 1
      /\ recorder'[r].at = "append" /\ recorder'[r].ts = begun + 1
      /\ \A q \in Recorders \ {r} : recorder'[q] = recorder[q]
  <2> DEFINE y == [recorder[r] EXCEPT !.at = "append", !.ts = begun + 1, !.prev = LatestHash(entries)]
  <2>1. recorder[r] \in Recording
    BY Zenon, <1>1
  <2>2. y \in Recording /\ y.at = "append" /\ y.ts = begun + 1
    BY Zenon, <1>1, <1>2, <2>1 DEF Recording
  <2>3. recorder' = [recorder EXCEPT ![r] = y] /\ begun' = begun + 1
    BY Zenon DEF Begin
  <2> HIDE DEF y
  <2> QED
    BY Zenon, <1>1, <2>2, <2>3
<1>4. AuditTypes'
  BY <1>1, <1>3 DEF AuditInv, AuditTypes
<1>5. Handing' = Handing
  BY <1>3 DEF Handing
<1>6. Logged' = Logged /\ (\A t \in Logged : t \in Nat) /\ \A q \in Recorders : recorder[q].ts \in Nat
  BY Zenon, HashTypes DEF Logged, AuditInv
<1>7. Clocked'
  <2>1. /\ \A t \in Logged : t <= begun + 1 /\ t # begun + 1
        /\ \A q \in Recorders : UnderWay(q) => recorder[q].ts <= begun + 1 /\ recorder[q].ts # begun + 1
    <3>1. /\ \A t \in Logged : t <= begun
          /\ \A q \in Recorders : UnderWay(q) => recorder[q].ts <= begun
      BY Zenon DEF AuditInv, Clocked
    <3> QED
      BY SMTT(30), <1>1, <1>6, <3>1
  <2>2. NoRepeats(queue)'
    BY DEF AuditInv, Clocked
  <2> QED
    BY <2>1, <2>2, <1>1, <1>3, <1>6 DEF AuditInv, Clocked, UnderWay
<1> QED
  BY Zenon, <1>4, <1>5, <1>6, <1>7 DEF AuditInv

\* An export that has taken its head records nothing yet.
LEMMA ExportHeadStep ==
  ASSUME AuditInv, NEW r \in Recorders, ExportHead(r)
  PROVE  AuditInv'
<1>1. recorder \in [Recorders -> Recording] /\ LatestHash(entries) \in Hashes /\ recorder[r].ts \in Nat
  BY Zenon, HashTypes DEF AuditInv, AuditTypes
<1>2. recorder' = [recorder EXCEPT ![r] =
                     [recorder[r] EXCEPT !.at = "exported", !.exporting = TRUE, !.head = LatestHash(entries)]]
  BY Zenon, <1>1 DEF ExportHead
<1>3. /\ recorder' \in [Recorders -> Recording] /\ recorder'[r].at = "exported"
      /\ \A q \in Recorders \ {r} : recorder'[q] = recorder[q]
  <2> DEFINE y == [recorder[r] EXCEPT !.at = "exported", !.exporting = TRUE, !.head = LatestHash(entries)]
  <2>1. recorder[r] \in Recording
    BY Zenon, <1>1
  <2>2. y \in Recording /\ y.at = "exported"
    BY Zenon, <1>1, <2>1, RecordingMoves
  <2>3. recorder' = [recorder EXCEPT ![r] = y]
    BY Zenon, <1>2
  <2> HIDE DEF y
  <2> QED
    BY Zenon, <1>1, <2>2, <2>3
<1>4. AuditTypes'
  BY <1>3 DEF AuditInv, AuditTypes, ExportHead
<1>5. Handing' = Handing /\ Logged' = Logged
  BY <1>3 DEF Handing, Logged, ExportHead
<1>6. Clocked'
  BY Zenon, <1>3, <1>5 DEF AuditInv, Clocked, UnderWay, ExportHead
<1> QED
  BY Zenon, <1>4, <1>5, <1>6 DEF AuditInv, ExportHead

\* An entry that is appended is with the request that will hand it over.
LEMMA AppendEntryStep ==
  ASSUME AuditInv, NEW r \in Recorders, AppendEntry(r)
  PROVE  AuditInv'
<1>0. /\ recorder[r].at = "append" /\ recorder[r].ts \notin Logged /\ recorder[r].ts <= begun
      /\ recorder[r] \in Recording
  BY DEF AuditInv, AuditTypes, AppendEntry, InRecord, Clocked, UnderWay
<1>1. CASE UNCHANGED entries
  <2>0. recorder' = [recorder EXCEPT ![r] = Resting]
    <3>1. Append(entries, [content |-> Content(recorder[r].ts),
                           hash |-> computeHash(LatestHash(entries), Content(recorder[r].ts)),
                           signature |-> computeHash(recorder[r].prev, Content(recorder[r].ts))]) # entries
      BY DEF AuditInv, AuditTypes
    <3> QED
      BY <1>1, <3>1 DEF AppendEntry
  <2>1. AuditTypes'
    BY SMTT(30), <1>1, <2>0 DEF AuditInv, AuditTypes, AppendEntry, Recording, Resting, Hashes
  <2>2. /\ recorder'[r].at = "idle"
        /\ \A q \in Recorders \ {r} : recorder'[q] = recorder[q]
    BY ZenonT(60), <2>0 DEF AuditInv, AuditTypes, Resting
  <2>3. Handing' = Handing /\ Logged' = Logged
    BY <1>0, <1>1, <2>2 DEF Handing, Logged
  <2>4. Clocked'
    BY <1>0, <2>2, <2>3 DEF AuditInv, Clocked, UnderWay, AppendEntry
  <2> QED
    BY <2>1, <2>3, <2>4 DEF AuditInv, AppendEntry
<1>2. CASE ~UNCHANGED entries
  <2> DEFINE e == [content |-> Content(recorder[r].ts),
                   hash |-> computeHash(LatestHash(entries), Content(recorder[r].ts)),
                   signature |-> computeHash(recorder[r].prev, Content(recorder[r].ts))]
  <2>0. entries' = Append(entries, e) /\ recorder' = [recorder EXCEPT ![r].at = "forward"]
    BY ZenonT(60), <1>2 DEF AppendEntry
  <2>1. e \in Entry /\ e.content.ts = recorder[r].ts
    <3>1. recorder[r].ts \in Nat /\ recorder[r].prev \in Hashes /\ LatestHash(entries) \in Hashes
      BY ZenonT(60), HashTypes DEF AuditInv
    <3>2. Content(recorder[r].ts) \in Contents /\ Content(recorder[r].ts).ts = recorder[r].ts
      BY <3>1 DEF Content, Contents
    <3> QED
      BY Zenon, <3>1, <3>2, HashTypes DEF AuditInv, Entry
  <2> HIDE DEF e
  <2>2. AuditTypes'
    <3>1. recorder' = [recorder EXCEPT ![r] = [recorder[r] EXCEPT !.at = "forward"]]
      BY <2>0 DEF AuditInv, AuditTypes
    <3>2. recorder' \in [Recorders -> Recording]
      BY Zenon, <3>1, <1>0, RecordingMoves, HashTypes DEF AuditInv, AuditTypes
    <3> QED
      BY <2>0, <2>1, <3>2 DEF AuditInv, AuditTypes, AppendEntry
  <2>3. /\ recorder'[r].at = "forward" /\ recorder'[r].ts = recorder[r].ts
        /\ \A q \in Recorders \ {r} : recorder'[q] = recorder[q]
    BY ZenonT(60), <1>0, <2>0 DEF AuditInv, AuditTypes, Recording
  <2>4. Logged' = Logged \cup {recorder[r].ts}
    <3>1. /\ entries \in Seq(Entry)
          /\ Len(entries') = Len(entries) + 1 /\ entries'[Len(entries) + 1] = e
          /\ \A i \in 1..Len(entries) : entries'[i] = entries[i]
      BY SMTT(30), <2>0, <2>1 DEF AuditInv, AuditTypes
    <3> QED
      BY <3>1, <2>1 DEF Logged
  <2>5. Handing' = Handing \cup {recorder[r].ts}
    BY SMTT(30), <1>0, <2>3 DEF Handing
  <2>6. Clocked'
    BY <1>0, <2>3, <2>4 DEF AuditInv, Clocked, UnderWay, AppendEntry
  <2>7. UNCHANGED <<queue, fate>>
    BY DEF AppendEntry
  <2> QED
    BY Zenon, <1>0, <2>2, <2>4, <2>5, <2>6, <2>7, PlaceLogged DEF AuditInv
<1> QED
  BY <1>1, <1>2

\* Who has handed its entry over is at rest, and nobody else has that entry.
LEMMA HandedOver ==
  ASSUME AuditInv, NEW r \in Recorders, recorder[r].at = "forward", recorder' = [recorder EXCEPT ![r] = Resting]
  PROVE  /\ recorder' \in [Recorders -> Recording] /\ recorder[r].ts \in Handing
         /\ Handing' = Handing \ {recorder[r].ts}
         /\ recorder'[r].at = "idle" /\ \A q \in Recorders \ {r} : recorder'[q] = recorder[q]
<1>1. recorder \in [Recorders -> Recording] /\ recorder[r] \in Recording
  BY Zenon DEF AuditInv, AuditTypes
<1>3. /\ recorder' \in [Recorders -> Recording] /\ recorder'[r].at = "idle"
      /\ \A q \in Recorders \ {r} : recorder'[q] = recorder[q]
  BY Zenon, <1>1, RestingIs
<1>4. \A q \in Recorders \ {r} : recorder[q].at = "forward" => recorder[q].ts # recorder[r].ts
  BY Zenon DEF AuditInv, Clocked, UnderWay
<1>5. Handing' = Handing \ {recorder[r].ts} /\ recorder[r].ts \in Handing
  BY <1>3, <1>4 DEF Handing
<1> QED
  BY Zenon, <1>3, <1>5

\* What is appended to and taken from a queue without repetitions.
LEMMA RangeIs ==
  ASSUME NEW q \in Seq(Nat)
  PROVE  \A x : x \in Range(q) <=> \E i \in 1..Len(q) : q[i] = x
<1>1. DOMAIN q = 1..Len(q)
  OBVIOUS
<1> QED
  BY Zenon, <1>1 DEF Range

\* A new entry at the end of the queue is there once.
LEMMA QueueAppend ==
  ASSUME NEW q \in Seq(Nat), NEW t \in Nat, NoRepeats(q),
         NEW a, a = Append(q, t), t \notin Range(q)
  PROVE  /\ a \in Seq(Nat) /\ Range(a) = Range(q) \cup {t}
         /\ NoRepeats(a)
<1>1. /\ a \in Seq(Nat) /\ Len(a) = Len(q) + 1 /\ a[Len(q) + 1] = t
      /\ \A i \in 1..Len(q) : a[i] = q[i]
  OBVIOUS
<1>2. \A i : i \in 1..Len(a) <=> i \in 1..Len(q) \/ i = Len(q) + 1
  BY <1>1
<1>3. \A x : x \in Range(a) <=> \E i \in 1..Len(a) : a[i] = x
  BY Zenon, <1>1, RangeIs
<1>4. \A x : x \in Range(q) <=> \E i \in 1..Len(q) : q[i] = x
  BY RangeIs
<1>5. ASSUME NEW x PROVE x \in Range(a) <=> x \in Range(q) \/ x = t
  <2>1. (\E i \in 1..Len(a) : a[i] = x) <=> (\E i \in 1..Len(q) : q[i] = x) \/ x = t
    BY <1>1, <1>2
  <2> QED
    BY Zenon, <2>1, <1>3, <1>4
<1>6. ASSUME NEW i \in 1..Len(a), NEW j \in 1..Len(a), a[i] = a[j] PROVE i = j
  <2>1. \A k \in 1..Len(q) : q[k] # t
    BY Zenon, <1>4
  <2> QED
    BY <1>1, <1>2, <1>6, <2>1 DEF NoRepeats
<1> QED
  BY Zenon, <1>1, <1>5, <1>6 DEF NoRepeats

\* Taking the first entry leaves the others.
LEMMA QueueTake ==
  ASSUME NEW q \in Seq(Nat), NoRepeats(q),
         NEW b, b = Tail(q), q # <<>>
  PROVE  /\ Head(q) \in Nat /\ b \in Seq(Nat) /\ Head(q) \in Range(q)
         /\ Range(b) = Range(q) \ {Head(q)}
         /\ NoRepeats(b)
<1>1. /\ b \in Seq(Nat) /\ Len(b) = Len(q) - 1 /\ Len(q) \in Nat \ {0}
      /\ \A i \in 1..Len(b) : b[i] = q[i + 1]
  OBVIOUS
<1>2. Head(q) = q[1] /\ Head(q) \in Nat /\ 1 \in 1..Len(q)
  BY <1>1
<1>3. \A i \in 1..Len(b) : i + 1 \in 1..Len(q) /\ i + 1 # 1
  BY <1>1
<1>4. \A i \in 1..Len(q) : i # 1 => i - 1 \in 1..Len(b) /\ b[i - 1] = q[i]
  BY <1>1
<1>5. NoRepeats(b)
  BY <1>1, <1>3 DEF NoRepeats
<1>6. \A x : x \in Range(b) <=> \E i \in 1..Len(b) : b[i] = x
  BY Zenon, <1>1, RangeIs
<1>7. \A x : x \in Range(q) <=> \E i \in 1..Len(q) : q[i] = x
  BY RangeIs
<1>8. \A x : x \in Range(b) => x \in Range(q) /\ x # Head(q)
  <2> SUFFICES ASSUME NEW x, NEW i \in 1..Len(b), b[i] = x PROVE x \in Range(q) /\ x # Head(q)
    BY Zenon, <1>6
  <2>1. b[i] = q[i + 1] /\ i + 1 \in 1..Len(q) /\ i + 1 # 1
    BY <1>1, <1>3
  <2>2. q[i + 1] # q[1]
    BY <1>2, <2>1 DEF NoRepeats
  <2> QED
    BY Zenon, <1>2, <1>7, <2>1, <2>2
<1>9. \A x : x \in Range(q) /\ x # Head(q) => x \in Range(b)
  <2> SUFFICES ASSUME NEW x, NEW i \in 1..Len(q), q[i] = x, x # Head(q) PROVE x \in Range(b)
    BY Zenon, <1>7
  <2>1. i - 1 \in 1..Len(b) /\ b[i - 1] = q[i]
    BY <1>2, <1>4
  <2> QED
    BY Zenon, <1>6, <2>1
<1>10. Head(q) \in Range(q)
  BY Zenon, <1>2, <1>7
<1> QED
  BY Zenon, <1>1, <1>2, <1>5, <1>8, <1>9, <1>10

\* An entry that is handed over is in the queue or dropped.
LEMMA ForwardStep ==
  ASSUME AuditInv, NEW r \in Recorders, forwardEntry(r)
  PROVE  AuditInv'
<1>0. /\ recorder[r].at = "forward" /\ recorder' = [recorder EXCEPT ![r] = Resting]
      /\ UNCHANGED <<entries, begun>>
  BY DEF forwardEntry
<1>1. /\ recorder' \in [Recorders -> Recording] /\ recorder[r].ts \in Handing
      /\ Handing' = Handing \ {recorder[r].ts}
      /\ recorder'[r].at = "idle" /\ \A q \in Recorders \ {r} : recorder'[q] = recorder[q]
  BY Zenon, <1>0, HandedOver
<1>2. Logged' = Logged /\ recorder[r].ts \in Nat
  BY Zenon, <1>0, HashTypes DEF Logged, AuditInv
<1>3. /\ \A t \in Logged' : t <= begun'
      /\ \A q \in Recorders : UnderWay(q)' => recorder'[q].ts <= begun'
      /\ \A q \in Recorders : recorder'[q].at = "append" => recorder'[q].ts \notin Logged'
      /\ \A p, q \in Recorders : UnderWay(p)' /\ UnderWay(q)' /\ recorder'[p].ts = recorder'[q].ts => p = q
  BY Zenon, <1>0, <1>1, <1>2 DEF AuditInv, Clocked, UnderWay
<1>4. /\ queue \in Seq(Nat) /\ recorder[r].ts \notin Range(queue)
      /\ fate \in [sent : SUBSET Nat, failed : SUBSET Nat, dropped : SUBSET Nat, lost : SUBSET Nat]
  BY Zenon, <1>1 DEF AuditInv, AuditTypes, Whole, Apart
<1>5. CASE queue' = Append(queue, recorder[r].ts) /\ UNCHANGED fate
  <2>1. /\ queue' \in Seq(Nat) /\ Range(queue') = Range(queue) \cup {recorder[r].ts}
        /\ NoRepeats(queue)'
    <3>1. NoRepeats(queue)
      BY Zenon DEF AuditInv, Clocked
    <3> QED
      BY Zenon, <1>2, <1>4, <1>5, <3>1, QueueAppend
  <2>2. Clocked'
    BY Zenon, <1>3, <2>1 DEF Clocked
  <2>3. Whole(Range(queue'), fate'.sent, fate'.failed, fate'.dropped, fate'.lost, Handing', Logged')
    <3>1. Whole(Range(queue) \cup {recorder[r].ts}, fate.sent, fate.failed, fate.dropped, fate.lost,
                Handing \ {recorder[r].ts}, Logged)
      BY Zenon, <1>1, PlaceHanded DEF AuditInv
    <3> QED
      BY ZenonT(60), <1>1, <1>2, <1>5, <2>1, <3>1
  <2> QED
    BY Zenon, <1>0, <1>1, <1>5, <2>1, <2>2, <2>3 DEF AuditInv, AuditTypes
<1>6. CASE fate' = [fate EXCEPT !.dropped = @ \cup {recorder[r].ts}] /\ UNCHANGED queue
  <2>1. /\ fate' \in [sent : SUBSET Nat, failed : SUBSET Nat, dropped : SUBSET Nat, lost : SUBSET Nat]
        /\ fate'.sent = fate.sent /\ fate'.failed = fate.failed /\ fate'.lost = fate.lost
        /\ fate'.dropped = fate.dropped \cup {recorder[r].ts}
    BY ZenonT(60), <1>2, <1>4, <1>6
  <2> QED
    BY Zenon, <1>0, <1>1, <1>2, <1>3, <1>6, <2>1, PlaceHanded DEF AuditInv, AuditTypes, Clocked
<1> QED
  BY Zenon, <1>5, <1>6 DEF forwardEntry

\* What the sink's worker takes is sent or has failed.
LEMMA WorkerStep ==
  ASSUME AuditInv, worker
  PROVE  AuditInv'
<1>1. /\ queue \in Seq(Nat) /\ queue # <<>> /\ queue' = Tail(queue)
      /\ fate \in [sent : SUBSET Nat, failed : SUBSET Nat, dropped : SUBSET Nat, lost : SUBSET Nat]
      /\ NoRepeats(queue)
  BY DEF AuditInv, AuditTypes, Clocked, worker
<1>2. UNCHANGED <<Logged, Handing, entries, recorder, begun>>
  BY DEF worker, Logged, Handing
<1>3. /\ Head(queue) \in Nat /\ queue' \in Seq(Nat)
      /\ NoRepeats(queue)'
      /\ Range(queue') = Range(queue) \ {Head(queue)} /\ Head(queue) \in Range(queue)
  BY Zenon, <1>1, QueueTake
<1>4. Clocked'
  BY Zenon, <1>2, <1>3 DEF AuditInv, Clocked, UnderWay
<1>5. CASE fate' = [fate EXCEPT !["sent"] = @ \cup {Head(queue)}]
  <2>1. /\ fate' \in [sent : SUBSET Nat, failed : SUBSET Nat, dropped : SUBSET Nat, lost : SUBSET Nat]
        /\ fate'.failed = fate.failed /\ fate'.dropped = fate.dropped /\ fate'.lost = fate.lost
        /\ fate'.sent = fate.sent \cup {Head(queue)}
    BY Zenon, <1>1, <1>3, <1>5
  <2>2. Whole(Range(queue'), fate'.sent, fate'.failed, fate'.dropped, fate'.lost, Handing', Logged')
    <3>1. Whole(Range(queue) \ {Head(queue)}, fate.sent \cup {Head(queue)}, fate.failed, fate.dropped, fate.lost,
                Handing, Logged)
      BY Zenon, <1>3, PlaceTaken DEF AuditInv
    <3> QED
      BY Zenon, <1>2, <1>3, <2>1, <3>1
  <2> QED
    BY Zenon, <1>2, <1>3, <1>4, <2>1, <2>2 DEF AuditInv, AuditTypes
<1>6. CASE fate' = [fate EXCEPT !["failed"] = @ \cup {Head(queue)}]
  <2>1. /\ fate' \in [sent : SUBSET Nat, failed : SUBSET Nat, dropped : SUBSET Nat, lost : SUBSET Nat]
        /\ fate'.sent = fate.sent /\ fate'.dropped = fate.dropped /\ fate'.lost = fate.lost
        /\ fate'.failed = fate.failed \cup {Head(queue)}
    BY Zenon, <1>1, <1>3, <1>6
  <2>2. Whole(Range(queue'), fate'.sent, fate'.failed, fate'.dropped, fate'.lost, Handing', Logged')
    <3>1. Whole(Range(queue) \ {Head(queue)}, fate.sent, fate.failed \cup {Head(queue)}, fate.dropped, fate.lost,
                Handing, Logged)
      BY Zenon, <1>3, PlaceTaken DEF AuditInv
    <3> QED
      BY Zenon, <1>2, <1>3, <2>1, <3>1
  <2> QED
    BY Zenon, <1>2, <1>3, <1>4, <2>1, <2>2 DEF AuditInv, AuditTypes
<1> QED
  BY ZenonT(60), <1>5, <1>6 DEF worker

\* What was queued or about to be handed over is lost with the process.
LEMMA DieStep ==
  ASSUME AuditInv, DieForwarding
  PROVE  AuditInv'
<1>2. recorder' \in [Recorders -> Recording] /\ \A q \in Recorders : recorder'[q].at = "idle"
  BY Zenon, RestingIs DEF DieForwarding
<1>3. /\ queue' = <<>> /\ queue' \in Seq(Nat) /\ Range(queue') = {} /\ Len(queue') = 0
      /\ Handing' = {} /\ Logged' = Logged
  BY <1>2 DEF DieForwarding, Range, Handing, Logged
<1>4. Handing \subseteq Nat /\ Range(queue) \subseteq Nat
  <2>1. Handing \subseteq Nat
    BY Zenon, HashTypes DEF AuditInv, Handing
  <2>2. Range(queue) \subseteq Nat
    BY DEF AuditInv, AuditTypes, Range
  <2> QED
    BY Zenon, <2>1, <2>2
<1>5. /\ fate' \in [sent : SUBSET Nat, failed : SUBSET Nat, dropped : SUBSET Nat, lost : SUBSET Nat]
      /\ fate'.sent = fate.sent /\ fate'.failed = fate.failed /\ fate'.dropped = fate.dropped
      /\ fate'.lost = fate.lost \cup Range(queue) \cup Handing
  <2>1. fate' = [fate EXCEPT !.lost = @ \cup Range(queue) \cup Handing]
    BY Zenon DEF DieForwarding, Handing
  <2> HIDE DEF Handing, Range
  <2> QED
    BY Zenon, <1>4, <2>1 DEF AuditInv, AuditTypes
<1>6. AuditTypes'
  BY Zenon, <1>2, <1>3, <1>5 DEF AuditInv, AuditTypes, DieForwarding
<1>7. Clocked'
  <2>1. \A q \in Recorders : ~UnderWay(q)' /\ recorder'[q].at # "append"
    BY <1>2 DEF UnderWay
  <2>2. \A t \in Logged' : t <= begun'
    BY Zenon, <1>3 DEF AuditInv, Clocked, DieForwarding
  <2>3. NoRepeats(queue)'
    BY <1>3 DEF NoRepeats
  <2> QED
    BY Zenon, <2>1, <2>2, <2>3 DEF Clocked
<1>8. Whole({}, fate.sent, fate.failed, fate.dropped, fate.lost \cup Range(queue) \cup Handing, {}, Logged)
  BY Zenon, PlaceLost DEF AuditInv
<1> QED
  BY Zenon, <1>3, <1>5, <1>6, <1>7, <1>8 DEF AuditInv

\* The places of the entries are kept apart by every step.
LEMMA AuditPreserved == AuditInv /\ [AuditNext]_auditVars => AuditInv'
<1> SUFFICES ASSUME AuditInv, [AuditNext]_auditVars PROVE AuditInv'
  OBVIOUS
<1>1. CASE UNCHANGED auditVars
  <2>1. UNCHANGED <<Logged, Handing, entries, recorder, queue, fate, begun>>
    BY Zenon, <1>1 DEF auditVars, Logged, Handing
  <2> QED
    BY Zenon, <2>1 DEF AuditInv, AuditTypes, Clocked, UnderWay
<1>2. ASSUME NEW r \in Recorders, Record(r) PROVE AuditInv'
  BY Zenon, <1>2, BeginStep DEF Record
<1>3. ASSUME NEW r \in Recorders, RecordExport(r) PROVE AuditInv'
  BY Zenon, <1>3, BeginStep DEF RecordExport
<1> QED
  BY Zenon, <1>1, <1>2, <1>3, ExportHeadStep, AppendEntryStep, ForwardStep, WorkerStep, DieStep
     DEF AuditNext, AuditRequest

\* Every stored entry is in exactly one place at the sink, for any number of
\* recording goroutines and any size of the queue (forwardEntry, the worker).
THEOREM EachForwardedOnceAlways == AuditSpec => []EachForwardedOnce
<1>1. AuditInv => EachForwardedOnce
  BY Zenon, SixPlaces DEF AuditInv, EachForwardedOnce, Logged, Handing
<1> QED
  BY <1>1, AuditInitially, AuditPreserved, PTL DEF AuditSpec

----------------------------------------------------------------------------
(* The operational seal.                                                   *)

PhaseNames == {"down", "keys", "store", "seal", "policies", "serving"}
Kinds == {"good", "bad", "short"}
Piles == UNION {[D -> Kinds] : D \in SUBSET Holders}
Confs == Configs \cup {CHOOSE c \in Configs : c.master # NoKey}

SealTypes ==
  /\ phase \in [Nodes -> PhaseNames] /\ conf \in [Nodes -> Confs] /\ sealed \in [Nodes -> BOOLEAN]
  /\ fails \in [Nodes -> 0 .. 6] /\ wait \in [Nodes -> Nat] /\ spent \in [Nodes -> Nat]
  /\ pending \in [Nodes -> Piles] /\ given \in [Nodes -> SUBSET (Holders \cup {0})]

\* A threshold of shares is among those given.
Quorate(g) == \E xs \in SUBSET g : Cardinality(xs) >= Threshold

\* What opened a process that is past its seal set-up: OpenIsEarned, but
\* from the moment the seal is set up on.
Earned(ph, c, s, g) ==
  ph \in {"seal", "policies", "serving"} /\ c.master # NoKey /\ s = FALSE =>
    0 \in g \/ Quorate(g) \/ c.auto # "off"

\* A pending valid share has been evaluated since the fence went up.
Held(p, g) == \A x \in DOMAIN p : p[x] = "good" => x \in g

\* The back-off of the last failure has been spent or is still awaited.
Paced(f, w, s) ==
  /\ s >= Lesser(MaxWatch, BackoffSum(f))
  /\ s + w >= Lesser(MaxWatch, BackoffSum(f) + Backoff(f))

Sound(n) ==
  /\ Earned(phase[n], conf[n], sealed[n], given[n])
  /\ Held(pending[n], given[n])
  /\ Paced(fails[n], wait[n], spent[n])

SealInv == SealTypes /\ \A n \in Nodes : Sound(n)

\* No share is a pile, and all of it is held.
LEMMA NoSharesHeld == NoShares \in Piles /\ DOMAIN NoShares = {} /\ \A g : Held(NoShares, g)
<1>1. NoShares \in [{} -> Kinds] /\ DOMAIN NoShares = {}
  BY DEF NoShares, Kinds
<1>2. NoShares \in Piles
  BY Zenon, <1>1 DEF Piles
<1> QED
  BY Zenon, <1>1, <1>2 DEF Held

\* A back-off is a number of seconds; from the sixth failure on they are alike.
LEMMA Backoffs ==
  /\ \A f \in 0 .. 7 : Backoff(f) \in Nat
  /\ Backoff(0) = 0 /\ Backoff(7) = Backoff(6)
  BY SealAssumption DEF Backoff, Lesser, Doubled

\* One more failure adds the back-off of the one before it.
LEMMA BackoffSums ==
  /\ \A f \in 0 .. 6 : BackoffSum(f) \in Nat
  /\ BackoffSum(0) = 0
  /\ \A f \in 0 .. 5 : BackoffSum(f + 1) = BackoffSum(f) + Backoff(f)
<1>1. /\ Backoff(0) = 0 /\ Backoff(1) \in Nat /\ Backoff(2) \in Nat /\ Backoff(3) \in Nat
      /\ Backoff(4) \in Nat /\ Backoff(5) \in Nat /\ Backoff(6) \in Nat
  <2>1. {1, 2, 3, 4, 5, 6} \subseteq 0 .. 7
    OBVIOUS
  <2> QED
    BY Zenon, <2>1, Backoffs
<1>2. /\ BackoffSum(0) = 0 /\ BackoffSum(1) = 0 /\ BackoffSum(2) = Backoff(1)
      /\ BackoffSum(3) = Backoff(1) + Backoff(2)
      /\ BackoffSum(4) = Backoff(1) + Backoff(2) + Backoff(3)
      /\ BackoffSum(5) = Backoff(1) + Backoff(2) + Backoff(3) + Backoff(4)
      /\ BackoffSum(6) = Backoff(1) + Backoff(2) + Backoff(3) + Backoff(4) + Backoff(5)
  BY <1>1 DEF BackoffSum
<1>3. \A f \in 0 .. 6 : f \in {0, 1, 2, 3, 4, 5, 6}
  BY SMTT(30)
<1>4. \A f \in 0 .. 6 : BackoffSum(f) \in Nat
  BY SMTT(30), <1>1, <1>2, <1>3
<1>5. ASSUME NEW f \in 0 .. 5 PROVE BackoffSum(f + 1) = BackoffSum(f) + Backoff(f)
  <2>1. f \in {0, 1, 2, 3, 4, 5}
    BY SMTT(30)
  <2> QED
    BY <1>1, <1>2, <2>1
<1> QED
  BY Zenon, <1>2, <1>4, <1>5

\* With no failure there is nothing to wait for.
LEMMA PacedFromStart == \A w \in Nat, s \in Nat : Paced(0, w, s)
  BY SMTT(30), BackoffSums, Backoffs, SealAssumption DEF Paced, Lesser

\* A failure after the back-off starts the next one.
LEMMA PacedFailure ==
  ASSUME NEW f \in 0 .. 6, NEW s \in Nat, Paced(f, 0, s)
  PROVE  Lesser(f + 1, 6) \in 0 .. 6 /\ Paced(Lesser(f + 1, 6), Backoff(f + 1), s)
<1>1. CASE f < 6
  <2>1. Lesser(f + 1, 6) = f + 1 /\ f \in 0 .. 5 /\ f + 1 \in 0 .. 6
    BY <1>1 DEF Lesser
  <2>2. BackoffSum(f + 1) = BackoffSum(f) + Backoff(f)
    BY Zenon, <2>1, BackoffSums
  <2>3. BackoffSum(f + 1) \in Nat /\ Backoff(f + 1) \in Nat
    <3>1. f + 1 \in 0 .. 7
      BY <2>1
    <3> QED
      BY Zenon, <2>1, <3>1, BackoffSums, Backoffs
  <2> QED
    BY SMTT(30), <2>1, <2>2, <2>3, SealAssumption DEF Paced, Lesser
<1>2. CASE f = 6
  <2>1. Lesser(f + 1, 6) = 6 /\ Backoff(f + 1) = Backoff(6)
    BY SMTT(30), <1>2, Backoffs DEF Lesser
  <2>2. BackoffSum(6) \in Nat /\ Backoff(6) \in Nat
    <3>1. 6 \in 0 .. 6 /\ 6 \in 0 .. 7
      OBVIOUS
    <3> QED
      BY Zenon, <3>1, BackoffSums, Backoffs
  <2> QED
    BY SMTT(30), <1>2, <2>1, <2>2, SealAssumption DEF Paced, Lesser
<1>3. f < 6 \/ f = 6
  OBVIOUS
<1> QED
  BY Zenon, <1>1, <1>2, <1>3

\* A second passes for a node.
LEMMA PacedSecond ==
  ASSUME NEW f \in 0 .. 6, NEW w \in Nat, NEW s \in Nat, Paced(f, w, s)
  PROVE  /\ (IF w > 0 THEN w - 1 ELSE 0) \in Nat
         /\ (IF f > 0 THEN Lesser(s + 1, MaxWatch) ELSE s) \in Nat
         /\ Paced(f, IF w > 0 THEN w - 1 ELSE 0, IF f > 0 THEN Lesser(s + 1, MaxWatch) ELSE s)
<1> DEFINE v == IF w > 0 THEN w - 1 ELSE 0
           t == IF f > 0 THEN Lesser(s + 1, MaxWatch) ELSE s
<1>1. v \in Nat /\ t \in Nat
  BY SealAssumption DEF Lesser
<1>2. CASE f = 0
  BY Zenon, <1>1, <1>2, PacedFromStart
<1>3. CASE f > 0
  <2>1. BackoffSum(f) \in Nat /\ Backoff(f) \in Nat
    BY SMTT(30), BackoffSums, Backoffs
  <2> QED
    BY SMTT(30), <1>1, <1>3, <2>1, SealAssumption DEF Paced, Lesser
<1> QED
  BY SMTT(30), <1>1, <1>2, <1>3

\* The seal holds to begin with: nothing runs.
LEMMA SealInitially == SealInit => SealInv
<1> SUFFICES ASSUME SealInit PROVE SealInv
  OBVIOUS
<1>1. /\ phase = [n \in Nodes |-> "down"] /\ sealed = [n \in Nodes |-> TRUE]
      /\ conf = [n \in Nodes |-> CHOOSE c \in Configs : c.master # NoKey]
      /\ fails = [n \in Nodes |-> 0] /\ wait = [n \in Nodes |-> 0] /\ spent = [n \in Nodes |-> 0]
      /\ pending = [n \in Nodes |-> NoShares] /\ given = [n \in Nodes |-> {}]
  BY Zenon DEF SealInit
<1>2. conf \in [Nodes -> Confs]
  <2> DEFINE first == CHOOSE c \in Configs : c.master # NoKey
  <2>1. first \in Confs
    BY Zenon DEF Confs
  <2>2. conf = [n \in Nodes |-> first]
    BY Zenon, <1>1
  <2> HIDE DEF first
  <2> QED
    BY <2>1, <2>2
<1>3. pending \in [Nodes -> Piles]
  BY Zenon, <1>1, NoSharesHeld
<1>4. SealTypes
  BY <1>1, <1>2, <1>3 DEF SealTypes, PhaseNames
<1>5. ASSUME NEW n \in Nodes PROVE Sound(n)
  <2>1. Paced(fails[n], wait[n], spent[n])
    BY ZenonT(60), <1>1, PacedFromStart
  <2>2. phase[n] = "down" /\ pending[n] = NoShares
    BY <1>1
  <2>3. Held(pending[n], given[n])
    BY Zenon, <2>2, NoSharesHeld
  <2>4. Earned(phase[n], conf[n], sealed[n], given[n])
    BY <2>2 DEF Earned
  <2> QED
    BY Zenon, <2>1, <2>3, <2>4 DEF Sound
<1> QED
  BY Zenon, <1>4, <1>5 DEF SealInv

\* A step that touches one node leaves the others sound.
LEMMA OneNode ==
  ASSUME SealInv, SealTypes', NEW n \in Nodes, Sound(n)',
         \A m \in Nodes \ {n} :
           /\ phase'[m] = phase[m] /\ conf'[m] = conf[m] /\ sealed'[m] = sealed[m] /\ given'[m] = given[m]
           /\ pending'[m] = pending[m] /\ fails'[m] = fails[m] /\ wait'[m] = wait[m] /\ spent'[m] = spent[m]
  PROVE  SealInv'
<1>1. ASSUME NEW m \in Nodes, m # n PROVE Sound(m)'
  <2>1. Sound(m)
    BY Zenon DEF SealInv
  <2>2. /\ phase'[m] = phase[m] /\ conf'[m] = conf[m] /\ sealed'[m] = sealed[m] /\ given'[m] = given[m]
        /\ pending'[m] = pending[m] /\ fails'[m] = fails[m] /\ wait'[m] = wait[m] /\ spent'[m] = spent[m]
    BY Zenon, <1>1
  <2> QED
    BY Zenon, <2>1, <2>2 DEF Sound
<1> QED
  BY Zenon, <1>1 DEF SealInv

\* A phase of the start that leaves the seal alone.
LEMMA PhaseStep ==
  ASSUME SealInv, NEW n \in Nodes, NEW c, NEW ok \in BOOLEAN,
         (c \in Configs /\ LoadKeys(n, c)) \/ OpenStore(n) \/ LoadPolicies(n, ok) \/ Serve(n)
  PROVE  SealInv'
<1>1. /\ sealed' = sealed /\ fails' = fails /\ wait' = wait /\ pending' = pending /\ given' = given /\ spent' = spent
  BY Zenon DEF LoadKeys, OpenStore, LoadPolicies, Serve
<1>2. SealTypes /\ Sound(n)
  BY Zenon DEF SealInv
<1>3. PICK ph \in {"down", "keys", "store", "policies", "serving"} :
        /\ phase' = [phase EXCEPT ![n] = ph]
        /\ ph \in {"policies", "serving"} => phase[n] \in {"seal", "policies"} /\ conf' = conf
  BY DEF LoadKeys, OpenStore, LoadPolicies, Serve, Advance
<1>4. conf' = conf \/ (c \in Configs /\ conf' = [conf EXCEPT ![n] = c])
  BY Zenon DEF LoadKeys, OpenStore, LoadPolicies, Serve
<1>5. /\ phase' \in [Nodes -> PhaseNames] /\ phase'[n] = ph /\ \A m \in Nodes \ {n} : phase'[m] = phase[m]
  BY ZenonT(60), <1>2, <1>3 DEF SealTypes, PhaseNames
<1>6. /\ conf' \in [Nodes -> Confs] /\ \A m \in Nodes \ {n} : conf'[m] = conf[m]
  BY Zenon, <1>2, <1>4 DEF SealTypes, Confs
<1>7. SealTypes'
  BY ZenonT(60), <1>1, <1>2, <1>5, <1>6 DEF SealTypes
<1>8. Sound(n)'
  BY Zenon, <1>1, <1>2, <1>3, <1>5 DEF Sound, Earned
<1> QED
  BY Zenon, <1>1, <1>5, <1>6, <1>7, <1>8, OneNode

\* Opening the fence clears the failures and the pending shares.
LEMMA Opened ==
  ASSUME SealInv, NEW n \in Nodes, markUnsealed(n)
  PROVE  /\ sealed' \in [Nodes -> BOOLEAN] /\ sealed'[n] = FALSE
         /\ fails' \in [Nodes -> 0 .. 6] /\ wait' \in [Nodes -> Nat] /\ spent' \in [Nodes -> Nat]
         /\ pending' \in [Nodes -> Piles] /\ pending'[n] = NoShares
         /\ Paced(fails'[n], wait'[n], spent'[n])
         /\ \A m \in Nodes \ {n} : /\ sealed'[m] = sealed[m] /\ pending'[m] = pending[m]
                                   /\ fails'[m] = fails[m] /\ wait'[m] = wait[m] /\ spent'[m] = spent[m]
<1>1. /\ fails' = [fails EXCEPT ![n] = 0] /\ wait' = [wait EXCEPT ![n] = 0] /\ spent' = [spent EXCEPT ![n] = 0]
      /\ sealed' = [sealed EXCEPT ![n] = FALSE] /\ pending' = [pending EXCEPT ![n] = NoShares]
  BY Zenon DEF markUnsealed
<1>2. SealTypes
  BY Zenon DEF SealInv
<1>3. /\ fails' \in [Nodes -> 0 .. 6] /\ wait' \in [Nodes -> Nat] /\ spent' \in [Nodes -> Nat]
      /\ fails'[n] = 0 /\ wait'[n] = 0 /\ spent'[n] = 0
      /\ \A m \in Nodes \ {n} : fails'[m] = fails[m] /\ wait'[m] = wait[m] /\ spent'[m] = spent[m]
  <2>1. 0 \in 0 .. 6 /\ 0 \in Nat
    OBVIOUS
  <2> QED
    BY ZenonT(60), <1>1, <1>2, <2>1 DEF SealTypes
<1>4. Paced(fails'[n], wait'[n], spent'[n])
  BY <1>3, PacedFromStart
<1>5. /\ pending' \in [Nodes -> Piles] /\ pending'[n] = NoShares
      /\ \A m \in Nodes \ {n} : pending'[m] = pending[m]
  BY Zenon, <1>1, <1>2, NoSharesHeld DEF SealTypes
<1>6. /\ sealed' \in [Nodes -> BOOLEAN] /\ sealed'[n] = FALSE /\ \A m \in Nodes \ {n} : sealed'[m] = sealed[m]
  BY Zenon, <1>1, <1>2 DEF SealTypes
<1> QED
  BY Zenon, <1>3, <1>4, <1>5, <1>6

\* The end of a process, or a new SealState, forgets the attempts.
LEMMA Forgotten ==
  ASSUME SealInv, NEW n \in Nodes, forget(n)
  PROVE  /\ fails' \in [Nodes -> 0 .. 6] /\ wait' \in [Nodes -> Nat] /\ spent' \in [Nodes -> Nat]
         /\ pending' \in [Nodes -> Piles] /\ pending'[n] = NoShares
         /\ given' \in [Nodes -> SUBSET (Holders \cup {0})]
         /\ Paced(fails'[n], wait'[n], spent'[n])
         /\ \A m \in Nodes \ {n} : /\ given'[m] = given[m] /\ pending'[m] = pending[m]
                                   /\ fails'[m] = fails[m] /\ wait'[m] = wait[m] /\ spent'[m] = spent[m]
<1>1. /\ fails' = [fails EXCEPT ![n] = 0] /\ wait' = [wait EXCEPT ![n] = 0] /\ spent' = [spent EXCEPT ![n] = 0]
      /\ given' = [given EXCEPT ![n] = {}] /\ pending' = [pending EXCEPT ![n] = NoShares]
  BY Zenon DEF forget
<1>2. SealTypes
  BY Zenon DEF SealInv
<1>3. /\ fails' \in [Nodes -> 0 .. 6] /\ wait' \in [Nodes -> Nat] /\ spent' \in [Nodes -> Nat]
      /\ fails'[n] = 0 /\ wait'[n] = 0 /\ spent'[n] = 0
      /\ \A m \in Nodes \ {n} : fails'[m] = fails[m] /\ wait'[m] = wait[m] /\ spent'[m] = spent[m]
  <2>1. 0 \in 0 .. 6 /\ 0 \in Nat
    OBVIOUS
  <2> QED
    BY ZenonT(60), <1>1, <1>2, <2>1 DEF SealTypes
<1>4. Paced(fails'[n], wait'[n], spent'[n])
  BY <1>3, PacedFromStart
<1>5. /\ pending' \in [Nodes -> Piles] /\ pending'[n] = NoShares
      /\ \A m \in Nodes \ {n} : pending'[m] = pending[m]
  BY Zenon, <1>1, <1>2, NoSharesHeld DEF SealTypes
<1>6. /\ given' \in [Nodes -> SUBSET (Holders \cup {0})] /\ \A m \in Nodes \ {n} : given'[m] = given[m]
  BY <1>1, <1>2 DEF SealTypes
<1> QED
  BY Zenon, <1>3, <1>4, <1>5, <1>6

\* The seal is set up: open at once with auto-unseal, else as it starts.
LEMMA SetUpSealStep ==
  ASSUME SealInv, NEW n \in Nodes, SetUpSeal(n)
  PROVE  SealInv'
<1>1. conf' = conf
  BY Zenon DEF SetUpSeal
<1>2. SealTypes
  BY Zenon DEF SealInv
<1>3. PICK ph \in {"down", "seal"} : phase' = [phase EXCEPT ![n] = ph]
  BY Zenon DEF SetUpSeal, Advance
<1>4. /\ phase' \in [Nodes -> PhaseNames] /\ \A m \in Nodes \ {n} : phase'[m] = phase[m]
  BY <1>2, <1>3 DEF SealTypes, PhaseNames
<1>5. CASE HasSeal(n) /\ ~UnsealRefused(conf[n]) /\ conf[n].auto # "off"
  <2>1. markUnsealed(n) /\ given' = given
    BY Zenon, <1>5 DEF SetUpSeal
  <2>2. SealTypes'
    BY Zenon, <1>1, <1>2, <1>4, <2>1, Opened DEF SealTypes
  <2>3. Held(pending'[n], given'[n]) /\ Paced(fails'[n], wait'[n], spent'[n])
    BY Zenon, <2>1, Opened, NoSharesHeld
  <2>4. Earned(phase'[n], conf'[n], sealed'[n], given'[n])
    BY Zenon, <1>1, <1>5 DEF Earned
  <2>5. Sound(n)'
    BY Zenon, <2>3, <2>4 DEF Sound
  <2> QED
    BY Zenon, <1>1, <1>4, <2>1, <2>2, <2>5, Opened, OneNode
<1>6. CASE ~(HasSeal(n) /\ ~UnsealRefused(conf[n]) /\ conf[n].auto # "off")
  <2>1. forget(n) /\ sealed' = [sealed EXCEPT ![n] = StartsSealed(n)]
    BY Zenon, <1>6 DEF SetUpSeal
  <2>2. /\ sealed' \in [Nodes -> BOOLEAN] /\ sealed'[n] = (conf[n].master # NoKey)
        /\ \A m \in Nodes \ {n} : sealed'[m] = sealed[m]
    BY Zenon, <1>2, <2>1 DEF SealTypes, StartsSealed, HasSeal
  <2>3. SealTypes'
    BY Zenon, <1>1, <1>2, <1>4, <2>1, <2>2, Forgotten DEF SealTypes
  <2>4. Held(pending'[n], given'[n]) /\ Paced(fails'[n], wait'[n], spent'[n])
    BY Zenon, <2>1, Forgotten, NoSharesHeld
  <2>5. Earned(phase'[n], conf'[n], sealed'[n], given'[n])
    BY Zenon, <1>1, <2>2 DEF Earned
  <2>6. Sound(n)'
    BY Zenon, <2>4, <2>5 DEF Sound
  <2>7. \A m \in Nodes \ {n} :
       /\ phase'[m] = phase[m] /\ conf'[m] = conf[m] /\ sealed'[m] = sealed[m] /\ given'[m] = given[m]
       /\ pending'[m] = pending[m] /\ fails'[m] = fails[m] /\ wait'[m] = wait[m] /\ spent'[m] = spent[m]
    BY ZenonT(60), <1>1, <1>4, <2>1, <2>2, Forgotten
  <2> QED
    BY Zenon, <2>3, <2>6, <2>7, OneNode
<1> QED
  BY Zenon, <1>5, <1>6

\* The process ends.
LEMMA SealCrashStep ==
  ASSUME SealInv, NEW n \in Nodes, Crash(n)
  PROVE  SealInv'
<1>1. /\ conf' = conf /\ forget(n) /\ phase' = [phase EXCEPT ![n] = "down"]
      /\ sealed' = [sealed EXCEPT ![n] = TRUE]
  BY Zenon DEF Crash
<1>2. SealTypes
  BY Zenon DEF SealInv
<1>3. /\ phase' \in [Nodes -> PhaseNames] /\ \A m \in Nodes \ {n} : phase'[m] = phase[m]
  BY <1>1, <1>2 DEF SealTypes, PhaseNames
<1>4. /\ sealed' \in [Nodes -> BOOLEAN] /\ sealed'[n] = TRUE
      /\ \A m \in Nodes \ {n} : sealed'[m] = sealed[m]
  BY Zenon, <1>1, <1>2 DEF SealTypes
<1>5. SealTypes'
  BY Zenon, <1>1, <1>2, <1>3, <1>4, Forgotten DEF SealTypes
<1>6. Held(pending'[n], given'[n]) /\ Paced(fails'[n], wait'[n], spent'[n])
  BY ZenonT(60), <1>1, Forgotten, NoSharesHeld
<1>7. Earned(phase'[n], conf'[n], sealed'[n], given'[n])
  BY <1>4 DEF Earned
<1>8. Sound(n)'
  BY Zenon, <1>6, <1>7 DEF Sound
<1>9. \A m \in Nodes \ {n} :
     /\ phase'[m] = phase[m] /\ conf'[m] = conf[m] /\ sealed'[m] = sealed[m] /\ given'[m] = given[m]
     /\ pending'[m] = pending[m] /\ fails'[m] = fails[m] /\ wait'[m] = wait[m] /\ spent'[m] = spent[m]
  BY ZenonT(60), <1>1, <1>3, <1>4, Forgotten
<1> QED
  BY Zenon, <1>5, <1>8, <1>9, OneNode

\* The fence goes up; the shares still pending count for the next opening.
LEMMA SealVaultStep ==
  ASSUME SealInv, NEW n \in Nodes, SealVault(n)
  PROVE  SealInv'
<1> DEFINE good == {x \in DOMAIN pending[n] : pending[n][x] = "good"}
<1>1. /\ phase' = phase /\ conf' = conf /\ fails' = fails /\ wait' = wait /\ pending' = pending /\ spent' = spent
      /\ sealed' = [sealed EXCEPT ![n] = TRUE] /\ given' = [given EXCEPT ![n] = good]
  BY Zenon DEF SealVault
<1>2. SealTypes /\ Sound(n)
  BY Zenon DEF SealInv
<1>3. good \in SUBSET (Holders \cup {0})
  <2>1. pending[n] \in Piles
    BY Zenon, <1>2 DEF SealTypes
  <2>2. PICK D \in SUBSET Holders : pending[n] \in [D -> Kinds]
    BY Zenon, <2>1 DEF Piles
  <2> QED
    BY Zenon, <2>2
<1>4. Held(pending[n], good)
  BY Zenon DEF Held
<1> HIDE DEF good
<1>5. /\ given' \in [Nodes -> SUBSET (Holders \cup {0})] /\ given'[n] = good
      /\ \A m \in Nodes \ {n} : given'[m] = given[m]
  BY Zenon, <1>1, <1>2, <1>3 DEF SealTypes
<1>6. /\ sealed' \in [Nodes -> BOOLEAN] /\ sealed'[n] = TRUE
      /\ \A m \in Nodes \ {n} : sealed'[m] = sealed[m]
  BY Zenon, <1>1, <1>2 DEF SealTypes
<1>7. SealTypes'
  BY Zenon, <1>1, <1>2, <1>5, <1>6 DEF SealTypes
<1>8. Earned(phase'[n], conf'[n], sealed'[n], given'[n])
  BY <1>6 DEF Earned
<1>9. Sound(n)'
  BY Zenon, <1>1, <1>2, <1>4, <1>5, <1>8 DEF Sound
<1> QED
  BY Zenon, <1>1, <1>5, <1>6, <1>7, <1>9, OneNode

\* A failed attempt.
LEMMA Failed ==
  ASSUME SealInv, NEW n \in Nodes, wait[n] = 0, fail(n), spent' = spent
  PROVE  /\ fails' \in [Nodes -> 0 .. 6] /\ wait' \in [Nodes -> Nat]
         /\ Paced(fails'[n], wait'[n], spent'[n])
         /\ \A m \in Nodes \ {n} : fails'[m] = fails[m] /\ wait'[m] = wait[m]
<1> DEFINE f == Lesser(fails[n] + 1, 6)
           w == Backoff(fails[n] + 1)
<1>1. SealTypes /\ Sound(n)
  BY Zenon DEF SealInv
<1>2. fails[n] \in 0 .. 6 /\ spent[n] \in Nat
  BY Zenon, <1>1 DEF SealTypes
<1>3. f \in 0 .. 6 /\ Paced(f, w, spent[n])
  BY Zenon, <1>1, <1>2, PacedFailure DEF Sound
<1>4. w \in Nat
  <2>1. \A x \in 0 .. 6 : x + 1 \in 0 .. 7
    OBVIOUS
  <2> QED
    BY ZenonT(60), <1>2, <2>1, Backoffs
<1>5. fails' = [fails EXCEPT ![n] = f] /\ wait' = [wait EXCEPT ![n] = w]
  BY Zenon DEF fail
<1> HIDE DEF f, w
<1> QED
  BY Zenon, <1>1, <1>3, <1>4, <1>5 DEF SealTypes

\* Shares that combine are a threshold of valid ones (Combine).
LEMMA CombinedSuffices ==
  ASSUME NEW p, NEW g, Held(p, g), Combine(p)
  PROVE  Quorate(g)
  BY Zenon DEF Held, Combine, Quorate

\* What was earned stays earned when more is given.
LEMMA EarnedGrows ==
  ASSUME NEW ph, NEW c, NEW s, NEW g, NEW h, Earned(ph, c, s, g), g \subseteq h
  PROVE  Earned(ph, c, s, h)
<1>1. Quorate(g) => Quorate(h)
  BY Zenon DEF Quorate
<1> QED
  BY Zenon, <1>1 DEF Earned

\* An attempt with the full key.
LEMMA UnsealStep ==
  ASSUME SealInv, NEW n \in Nodes, NEW right \in BOOLEAN, Unseal(n, right)
  PROVE  SealInv'
<1>1. phase' = phase /\ conf' = conf /\ wait[n] = 0
  BY Zenon DEF Unseal, Attempt
<1>2. SealTypes /\ Sound(n)
  BY Zenon DEF SealInv
<1>3. CASE right
  <2>1. markUnsealed(n) /\ given' = [given EXCEPT ![n] = @ \cup {0}]
    BY Zenon, <1>3 DEF Unseal
  <2>2. /\ given' \in [Nodes -> SUBSET (Holders \cup {0})] /\ 0 \in given'[n]
        /\ \A m \in Nodes \ {n} : given'[m] = given[m]
    BY <1>2, <2>1 DEF SealTypes
  <2>3. SealTypes'
    BY Zenon, <1>1, <1>2, <2>1, <2>2, Opened DEF SealTypes
  <2>4. Held(pending'[n], given'[n]) /\ Paced(fails'[n], wait'[n], spent'[n])
    BY Zenon, <2>1, Opened, NoSharesHeld
  <2>5. Sound(n)'
    BY Zenon, <2>2, <2>4 DEF Sound, Earned
  <2>6. \A m \in Nodes \ {n} :
       /\ phase'[m] = phase[m] /\ conf'[m] = conf[m] /\ sealed'[m] = sealed[m] /\ given'[m] = given[m]
       /\ pending'[m] = pending[m] /\ fails'[m] = fails[m] /\ wait'[m] = wait[m] /\ spent'[m] = spent[m]
    BY Zenon, <1>1, <2>1, <2>2, Opened
  <2> QED
    BY Zenon, <2>3, <2>5, <2>6, OneNode
<1>4. CASE ~right
  <2>1. /\ fail(n) /\ sealed' = sealed /\ pending' = pending /\ given' = given /\ spent' = spent
    BY Zenon, <1>4 DEF Unseal
  <2>2. SealTypes'
    BY Zenon, <1>1, <1>2, <2>1, Failed DEF SealTypes
  <2>3. Sound(n)'
    BY Zenon, <1>1, <1>2, <2>1, Failed DEF Sound
  <2>4. \A m \in Nodes \ {n} :
       /\ phase'[m] = phase[m] /\ conf'[m] = conf[m] /\ sealed'[m] = sealed[m] /\ given'[m] = given[m]
       /\ pending'[m] = pending[m] /\ fails'[m] = fails[m] /\ wait'[m] = wait[m] /\ spent'[m] = spent[m]
    BY Zenon, <1>1, <2>1, Failed
  <2> QED
    BY Zenon, <2>2, <2>3, <2>4, OneNode
<1> QED
  BY Zenon, <1>3, <1>4

\* A share filed under its index: still a pile, and held once it is given.
LEMMA Filing ==
  ASSUME NEW n \in Nodes, NEW x \in Holders, NEW kind \in Kinds, pending[n] \in Piles,
         NEW g, NEW h, Held(pending[n], g), g \subseteq h, kind = "good" => x \in h
  PROVE  WithShare(n, x, kind) \in Piles /\ Held(WithShare(n, x, kind), h)
<1> DEFINE p == pending[n]
<1>1. PICK D \in SUBSET Holders : p \in [D -> Kinds]
  BY Zenon DEF Piles
<1>2. WithShare(n, x, kind) = [y \in D \cup {x} |-> IF y = x THEN kind ELSE p[y]]
  BY Zenon, <1>1 DEF WithShare
<1> HIDE DEF p
<1>3. [y \in D \cup {x} |-> IF y = x THEN kind ELSE p[y]] \in [D \cup {x} -> Kinds]
  BY <1>1
<1>4. D \cup {x} \in SUBSET Holders
  BY Zenon, <1>1
<1>5. WithShare(n, x, kind) \in Piles
  BY ZenonT(60), <1>2, <1>3, <1>4 DEF Piles
<1>6. Held(p, g)
  BY Zenon DEF p
<1>7. Held([y \in D \cup {x} |-> IF y = x THEN kind ELSE p[y]], h)
  BY <1>1, <1>6 DEF Held
<1> QED
  BY Zenon, <1>2, <1>5, <1>7

\* A failed attempt that leaves the fence alone and the pending shares as
\* they were or forgotten.
LEMMA FailedSubmission ==
  ASSUME SealInv, NEW n \in Nodes, NEW h \in SUBSET (Holders \cup {0}), given[n] \subseteq h,
         phase' = phase, conf' = conf, sealed' = sealed, given' = [given EXCEPT ![n] = h],
         wait[n] = 0, fail(n), spent' = spent,
         pending' = pending \/ pending' = [pending EXCEPT ![n] = NoShares]
  PROVE  SealInv'
<1>1. SealTypes /\ Sound(n)
  BY Zenon DEF SealInv
<1>2. /\ given' \in [Nodes -> SUBSET (Holders \cup {0})] /\ given'[n] = h
      /\ \A m \in Nodes \ {n} : given'[m] = given[m]
  BY Zenon, <1>1 DEF SealTypes
<1>3. /\ pending' \in [Nodes -> Piles] /\ pending'[n] \in {pending[n], NoShares}
      /\ \A m \in Nodes \ {n} : pending'[m] = pending[m]
  BY Zenon, <1>1, NoSharesHeld DEF SealTypes
<1>4. Held(pending[n], given[n])
  BY Zenon, <1>1 DEF Sound
<1>5. Held(pending[n], h)
  BY Zenon, <1>4 DEF Held
<1>6. Held(pending'[n], given'[n])
  BY ZenonT(60), <1>2, <1>3, <1>5, NoSharesHeld
<1>7. Earned(phase'[n], conf'[n], sealed'[n], given'[n])
  BY Zenon, <1>1, <1>2, EarnedGrows DEF Sound
<1>8. SealTypes'
  BY Zenon, <1>1, <1>2, <1>3, Failed DEF SealTypes
<1>9. Sound(n)'
  BY Zenon, <1>6, <1>7, Failed DEF Sound
<1>10. \A m \in Nodes \ {n} :
     /\ phase'[m] = phase[m] /\ conf'[m] = conf[m] /\ sealed'[m] = sealed[m] /\ given'[m] = given[m]
     /\ pending'[m] = pending[m] /\ fails'[m] = fails[m] /\ wait'[m] = wait[m] /\ spent'[m] = spent[m]
  BY Zenon, <1>2, <1>3, Failed
<1> QED
  BY Zenon, <1>8, <1>9, <1>10, OneNode

\* A key share is submitted.
LEMMA SubmitShareStep ==
  ASSUME SealInv, NEW n \in Nodes, NEW x \in Holders \cup {0}, NEW kind \in Kinds, SubmitShare(n, x, kind)
  PROVE  SealInv'
<1> DEFINE h == IF kind = "good" /\ ~Mismatch(n, kind) THEN given[n] \cup {x} ELSE given[n]
           shares == WithShare(n, x, kind)
<1>1. /\ phase' = phase /\ conf' = conf /\ wait[n] = 0 /\ given' = [given EXCEPT ![n] = h]
  BY Zenon DEF SubmitShare, Attempt
<1>2. SealTypes /\ Sound(n)
  BY Zenon DEF SealInv
<1>3. given[n] \in SUBSET (Holders \cup {0}) /\ pending[n] \in Piles /\ Held(pending[n], given[n])
  BY Zenon, <1>2 DEF SealTypes, Sound
<1>4. h \in SUBSET (Holders \cup {0}) /\ given[n] \subseteq h
  BY Zenon, <1>3
<1>5. /\ given' \in [Nodes -> SUBSET (Holders \cup {0})] /\ given'[n] = h
      /\ \A m \in Nodes \ {n} : given'[m] = given[m]
  <2> HIDE DEF h
  <2> QED
    BY Zenon, <1>1, <1>2, <1>4 DEF SealTypes
<1>6. CASE x = 0 \/ Mismatch(n, kind)
  <2>1. fail(n) /\ sealed' = sealed /\ spent' = spent
    BY Zenon, <1>6 DEF SubmitShare
  <2>2. pending' = pending \/ pending' = [pending EXCEPT ![n] = NoShares]
    <3>1. CASE x = 0
      BY Zenon, <3>1 DEF SubmitShare
    <3>2. CASE x # 0
      <4>1. pending' = [pending EXCEPT ![n] = IF MismatchClears(fails[n] + 1) THEN NoShares ELSE pending[n]]
        BY Zenon, <1>6, <3>2 DEF SubmitShare, Pend
      <4>2. [pending EXCEPT ![n] = pending[n]] = pending
        BY <1>2 DEF SealTypes
      <4> QED
        BY Zenon, <4>1, <4>2
    <3> QED
      BY Zenon, <3>1, <3>2
  <2> HIDE DEF h
  <2> QED
    BY Zenon, <1>1, <1>4, <2>1, <2>2, FailedSubmission
<1>7. CASE x # 0 /\ ~Mismatch(n, kind)
  <2>1. x \in Holders
    BY Zenon, <1>7
  <2>2. kind = "good" => x \in h
    BY Zenon, <1>7
  <2>3. \/ /\ pending' = [pending EXCEPT ![n] = shares]
           /\ sealed' = sealed /\ fails' = fails /\ wait' = wait /\ spent' = spent
        \/ /\ pending' = [pending EXCEPT ![n] = NoShares]
           /\ fail(n) /\ sealed' = sealed /\ spent' = spent
        \/ Combine(shares) /\ markUnsealed(n)
    BY Zenon, <1>7 DEF SubmitShare, Pend
  <2> HIDE DEF h
  <2>4. shares \in Piles /\ Held(shares, h)
    BY Zenon, <1>3, <1>4, <2>1, <2>2, Filing
  <2> HIDE DEF shares
  <2>5. CASE /\ pending' = [pending EXCEPT ![n] = shares]
             /\ sealed' = sealed /\ fails' = fails /\ wait' = wait /\ spent' = spent
    <3>1. /\ pending' \in [Nodes -> Piles] /\ pending'[n] = shares
          /\ \A m \in Nodes \ {n} : pending'[m] = pending[m]
      BY Zenon, <1>2, <2>4, <2>5 DEF SealTypes
    <3>2. SealTypes'
      BY Zenon, <1>1, <1>2, <1>5, <2>5, <3>1 DEF SealTypes
    <3>3. Earned(phase'[n], conf'[n], sealed'[n], given'[n])
      BY Zenon, <1>1, <1>2, <1>4, <1>5, <2>5, EarnedGrows DEF Sound
    <3>4. Sound(n)'
      BY Zenon, <1>2, <1>5, <2>4, <2>5, <3>1, <3>3 DEF Sound
    <3> QED
      BY Zenon, <1>1, <1>5, <2>5, <3>1, <3>2, <3>4, OneNode
  <2>6. CASE /\ pending' = [pending EXCEPT ![n] = NoShares]
             /\ fail(n) /\ sealed' = sealed /\ spent' = spent
    BY Zenon, <1>1, <1>4, <2>6, FailedSubmission
  <2>7. CASE Combine(shares) /\ markUnsealed(n)
    <3>1. SealTypes'
      BY Zenon, <1>1, <1>2, <1>5, <2>7, Opened DEF SealTypes
    <3>2. Quorate(given'[n])
      BY Zenon, <1>4, <1>5, <2>4, <2>7, CombinedSuffices
    <3>3. Held(pending'[n], given'[n]) /\ Paced(fails'[n], wait'[n], spent'[n])
      BY Zenon, <2>7, Opened, NoSharesHeld
    <3>4. Sound(n)'
      BY Zenon, <3>2, <3>3 DEF Sound, Earned
    <3>5. \A m \in Nodes \ {n} :
         /\ phase'[m] = phase[m] /\ conf'[m] = conf[m] /\ sealed'[m] = sealed[m] /\ given'[m] = given[m]
         /\ pending'[m] = pending[m] /\ fails'[m] = fails[m] /\ wait'[m] = wait[m] /\ spent'[m] = spent[m]
      BY ZenonT(60), <1>1, <1>5, <2>7, Opened
    <3> QED
      BY Zenon, <3>1, <3>4, <3>5, OneNode
  <2> QED
    BY Zenon, <2>3, <2>5, <2>6, <2>7
<1> QED
  BY Zenon, <1>6, <1>7

\* A second passes for every node.
LEMMA SealSecondStep ==
  ASSUME SealInv, Second
  PROVE  SealInv'
<1>1. /\ phase' = phase /\ conf' = conf /\ sealed' = sealed /\ fails' = fails /\ pending' = pending /\ given' = given
      /\ wait' = [n \in Nodes |-> IF wait[n] > 0 THEN wait[n] - 1 ELSE 0]
      /\ spent' = [n \in Nodes |-> IF fails[n] > 0 THEN Lesser(spent[n] + 1, MaxWatch) ELSE spent[n]]
  BY Zenon DEF Second
<1>2. SealTypes
  BY Zenon DEF SealInv
<1>3. ASSUME NEW n \in Nodes
      PROVE  wait'[n] \in Nat /\ spent'[n] \in Nat /\ Paced(fails[n], wait'[n], spent'[n])
  <2>1. /\ wait'[n] = (IF wait[n] > 0 THEN wait[n] - 1 ELSE 0)
        /\ spent'[n] = (IF fails[n] > 0 THEN Lesser(spent[n] + 1, MaxWatch) ELSE spent[n])
    BY Zenon, <1>1
  <2>2. fails[n] \in 0 .. 6 /\ wait[n] \in Nat /\ spent[n] \in Nat
    BY Zenon, <1>2 DEF SealTypes
  <2>3. Paced(fails[n], wait[n], spent[n])
    BY ZenonT(60) DEF SealInv, Sound
  <2> DEFINE v == IF wait[n] > 0 THEN wait[n] - 1 ELSE 0
             t == IF fails[n] > 0 THEN Lesser(spent[n] + 1, MaxWatch) ELSE spent[n]
  <2>4. v \in Nat /\ t \in Nat /\ Paced(fails[n], v, t)
    <3>1. PICK f \in 0 .. 6, w \in Nat, s \in Nat : f = fails[n] /\ w = wait[n] /\ s = spent[n]
      BY Zenon, <2>2
    <3> QED
      BY Zenon, <2>3, <3>1, PacedSecond
  <2>5. wait'[n] = v /\ spent'[n] = t
    BY Zenon, <2>1
  <2> HIDE DEF v, t
  <2> QED
    BY Zenon, <2>4, <2>5
<1>4. wait' \in [Nodes -> Nat] /\ spent' \in [Nodes -> Nat]
  <2>1. wait' = [n \in Nodes |-> wait'[n]] /\ spent' = [n \in Nodes |-> spent'[n]]
    BY Zenon, <1>1
  <2> QED
    BY Zenon, <1>3, <2>1
<1>5. SealTypes'
  BY Zenon, <1>1, <1>2, <1>4 DEF SealTypes
<1>6. ASSUME NEW n \in Nodes PROVE Sound(n)'
  BY Zenon, <1>1, <1>3 DEF SealInv, Sound
<1> QED
  BY Zenon, <1>5, <1>6 DEF SealInv

\* Every step.
LEMMA SealPreserved ==
  ASSUME SealInv, [SealNext(Nodes)]_sealVars
  PROVE  SealInv'
<1>1. CASE UNCHANGED sealVars
  BY Zenon, <1>1 DEF sealVars, SealInv, SealTypes, Sound
<1>2. CASE Second
  BY Zenon, <1>2, SealSecondStep
<1>3. ASSUME NEW n \in Nodes, Starting(n) PROVE SealInv'
  <2>1. CASE \E c \in Configs : LoadKeys(n, c)
    BY Zenon, <2>1, PhaseStep
  <2>2. CASE SetUpSeal(n)
    BY Zenon, <2>2, SetUpSealStep
  <2>3. CASE OpenStore(n) \/ Serve(n) \/ \E ok \in BOOLEAN : LoadPolicies(n, ok)
    BY Zenon, <2>3, PhaseStep
  <2> QED
    BY Zenon, <1>3, <2>1, <2>2, <2>3 DEF Starting
<1>4. ASSUME NEW n \in Nodes, Sealing(n) PROVE SealInv'
  BY Zenon, <1>4, SealCrashStep, SealVaultStep, UnsealStep, SubmitShareStep DEF Sealing, Kinds
<1> QED
  BY Zenon, <1>1, <1>2, <1>3, <1>4 DEF SealNext

\* For every number of processes, holders and shares needed, whatever
\* crashes, restarts, seals and wrong shares come between: an open fence was
\* earned since it last went up (SubmitShare, Unseal, SetStateFile).
THEOREM OpenIsEarnedAlways == SealSpec => []OpenIsEarned
<1>1. SealInv => OpenIsEarned
  <2> SUFFICES ASSUME SealInv, NEW n \in Nodes, Serving(n), HasSeal(n), ~sealed[n]
               PROVE  0 \in given[n] \/ Quorate(given[n]) \/ conf[n].auto # "off"
    BY Zenon DEF OpenIsEarned, Quorate
  <2>1. sealed[n] = FALSE
    BY DEF SealInv, SealTypes
  <2>2. phase[n] \in {"seal", "policies", "serving"} /\ conf[n].master # NoKey
    BY Zenon DEF Serving, HasSeal
  <2> QED
    BY Zenon, <2>1, <2>2 DEF SealInv, Sound, Earned
<1>2. SealInv /\ [SealNext(Nodes)]_sealVars => SealInv'
  BY ZenonT(60), SealPreserved
<1> QED
  BY <1>1, <1>2, SealInitially, PTL DEF SealSpec

\* For every cap on the delay: consecutive failures are as far apart as the
\* back-offs say, however keys and shares are mixed (unsealBackoffLocked).
THEOREM FailuresArePacedAlways == SealSpec => []FailuresArePaced
<1>1. SealInv => FailuresArePaced
  BY Zenon DEF SealInv, Sound, Paced, FailuresArePaced
<1>2. SealInv /\ [SealNext(Nodes)]_sealVars => SealInv'
  BY SealPreserved
<1> QED
  BY <1>1, <1>2, SealInitially, PTL DEF SealSpec

=============================================================================
