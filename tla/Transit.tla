------------------------------ MODULE Transit ------------------------------
(***************************************************************************)
(* One transit key on several nodes.  The record of the key (a data key    *)
(* for every version) is a secret in the replicated store; every node has  *)
(* a copy that reads never refresh, and a lock that only orders its own    *)
(* work.  Create and rotate load the record, add a version and write the   *)
(* whole record back; encrypt, decrypt and HMAC use the node's copy.       *)
(***************************************************************************)
EXTENDS Integers, Sequences

CONSTANTS Members, MaxKeys, MaxLapses

VARIABLES
  stored,    \* the stored record: the data key of each version, <<>> when there is none
  copy,      \* per node: its copy of the record, <<>> when it has none
  editing,   \* per node: the record that a create or rotate holding the lock will write, or <<>>
  made,      \* ciphertexts and MACs handed out: their version and their data key
  keys,      \* data keys generated so far
  excused,   \* two nodes edited the record at once, or a read or write of an edit was reported failed
  lapses     \* failed reads and writes, and restarts so far

transitVars == <<stored, copy, editing, made, keys, excused, lapses>>

TransitInit ==
  /\ stored = <<>> /\ copy = [n \in Members |-> <<>>] /\ editing = [n \in Members |-> <<>>]
  /\ made = {} /\ keys = 0 /\ excused = FALSE /\ lapses = 0

Locked(n) == editing[n] # <<>>
Latest(rec) == Len(rec)
Lapse == lapses < MaxLapses /\ lapses' = lapses + 1

\* loadLocked, when the read works: the stored record, or the copy when the store has none.
loadLocked(n) == IF stored # <<>> THEN stored ELSE copy[n]

\* getRecord: the copy, or the stored record, which becomes the copy.
getRecord(n) == IF copy[n] # <<>> THEN copy[n] ELSE stored

\* A fresh data key becomes the next version of a record.
WithNewKey(rec) == [v \in 1..(Latest(rec) + 1) |-> IF v \in DOMAIN rec THEN rec[v] ELSE keys + 1]

Edit(n, rec) ==
  /\ ~Locked(n) /\ keys < MaxKeys /\ keys' = keys + 1
  /\ copy' = [copy EXCEPT ![n] = rec]
  /\ editing' = [editing EXCEPT ![n] = WithNewKey(rec)]
  /\ UNCHANGED <<stored, made>>

Clean == excused' = (excused \/ \E m \in Members : Locked(m)) /\ UNCHANGED lapses
Unread == Lapse /\ excused' = TRUE

(* CreateKey and RotateKey load first.  When the read fails, the copy is   *)
(* rotated; without a copy a create goes ahead.                            *)
CreateKey(n) ==
  \/ loadLocked(n) = <<>> /\ Edit(n, <<>>) /\ Clean
  \/ copy[n] = <<>> /\ Edit(n, <<>>) /\ Unread

RotateKey(n) ==
  \/ loadLocked(n) # <<>> /\ Edit(n, loadLocked(n)) /\ Clean
  \/ copy[n] # <<>> /\ Edit(n, copy[n]) /\ Unread

(* saveLocked: the copy first, then the store.  A write that is reported   *)
(* failed may have been applied all the same.                              *)
saveLocked(n) ==
  /\ Locked(n)
  /\ copy' = [copy EXCEPT ![n] = editing[n]]
  /\ \/ stored' = editing[n] /\ UNCHANGED <<excused, lapses>>
     \/ Lapse /\ stored' \in {stored, editing[n]} /\ excused' = TRUE
  /\ editing' = [editing EXCEPT ![n] = <<>>]
  /\ UNCHANGED <<made, keys>>

\* dekFor: the asked version, or the latest the node knows.
dekFor(rec, asked) == IF asked > 0 THEN asked ELSE Latest(rec)

\* A new version is used before it is stored.
EncryptUnsaved(n, asked) ==
  LET rec == IF Locked(n) THEN editing[n] ELSE getRecord(n)
      ver == dekFor(rec, asked)
  IN /\ ver \in DOMAIN rec
     /\ made' = made \cup {[ver |-> ver, dek |-> rec[ver], mac |-> FALSE]}
     /\ UNCHANGED <<stored, copy, editing, keys, excused, lapses>>

Encrypt(n, asked) ==
  LET rec == getRecord(n)
      ver == dekFor(rec, asked)
  IN /\ ~Locked(n) /\ ver \in DOMAIN rec
     /\ copy' = [copy EXCEPT ![n] = rec]
     /\ made' = made \cup {[ver |-> ver, dek |-> rec[ver], mac |-> FALSE]}
     /\ UNCHANGED <<stored, editing, keys, excused, lapses>>

HMAC(n, asked) ==
  LET rec == getRecord(n)
      ver == dekFor(rec, asked)
  IN /\ ~Locked(n) /\ ver \in DOMAIN rec
     /\ copy' = [copy EXCEPT ![n] = rec]
     /\ made' = made \cup {[ver |-> ver, dek |-> rec[ver], mac |-> TRUE]}
     /\ UNCHANGED <<stored, editing, keys, excused, lapses>>

\* Decrypt: the version must be one the node knows, with that data key.
Decrypt(n, item) ==
  ~item.mac /\ item.ver \in DOMAIN getRecord(n) /\ getRecord(n)[item.ver] = item.dek

(* Rewrap: decrypt, then encrypt under the latest version.                 *)
Rewrap(n, item) == Decrypt(n, item) /\ Encrypt(n, 0)

Restart(n) ==
  /\ Lapse
  /\ copy' = [copy EXCEPT ![n] = <<>>]
  /\ editing' = [editing EXCEPT ![n] = <<>>]
  /\ stored' \in {stored} \cup (IF Locked(n) THEN {editing[n]} ELSE {})
  /\ UNCHANGED <<made, keys, excused>>

\* What the HTTP handlers reach.
TransitRequest(n) ==
  \/ CreateKey(n) \/ RotateKey(n)
  \/ \E asked \in 0..MaxKeys : Encrypt(n, asked) \/ HMAC(n, asked)
  \/ \E item \in made : Rewrap(n, item)

TransitNext ==
  \E n \in Members :
    TransitRequest(n) \/ saveLocked(n) \/ Restart(n)

TransitSpec == TransitInit /\ [][TransitNext]_transitVars

-----------------------------------------------------------------------------
(* While writes succeed and edits do not overlap, nothing that any node    *)
(* handed out is lost: the stored record opens every ciphertext and        *)
(* verifies every MAC, however stale the copies and however old the        *)
(* versions asked for (RotateKey reads the store, not its copy).           *)
Recoverable ==
  excused \/ \A item \in made : item.ver \in DOMAIN stored /\ stored[item.ver] = item.dek

(* A node is never ahead of the store in a version the store has: unless   *)
(* excused, the record it uses is the stored one or an older state of it,  *)
(* so a restart is all that a node that cannot decrypt needs.              *)
CopiesTrail ==
  excused \/ \A n \in Members : \A v \in DOMAIN copy[n] : v \in DOMAIN stored /\ stored[v] = copy[n][v]
=============================================================================
