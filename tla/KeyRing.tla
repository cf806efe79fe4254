------------------------------ MODULE KeyRing ------------------------------
(***************************************************************************)
(* The master keys of a process and the data keys they wrap                *)
(* (crypto/keyring.go, crypto/service.go, service/masterkey.go): rotation, *)
(* the re-encryption job of app/jobs.go, and what a process can read after *)
(* a restart under another configuration.                                  *)
(*                                                                         *)
(* Versions are given out as max + 1 and never removed, so a ring is the   *)
(* sequence of its keys.  A wrapped key is the data key inside, the master *)
(* key that seals it and its version byte, 0 when the prefix is left out;  *)
(* AES-GCM opens it under that master key only.  A data key is the         *)
(* generation of the item it encrypts.                                     *)
(***************************************************************************)
EXTENDS Seal, SequencesExt

CONSTANTS
  Keys,       \* master keys
  Items,      \* CAs and secret versions, in the order the job lists them
  Secrets,    \* the items that are secret versions
  VersionMax, \* largest version, 255 for the byte of the code
  Rotations,  \* configurations deployed around a rotation
  Limit,      \* items one run of the job re-encrypts, 50 in the code
  Insecure,   \* KNXVAULT_MASTER_KEY_ROTATION_ALLOW_INSECURE
  NoItem,     \* no such item is stored
  MaxGen      \* bound: times an item is written

ASSUME KeyRingAssumption ==
  /\ VersionMax \in Nat \ {0} /\ Limit \in Nat \ {0} /\ MaxGen \in Nat
  /\ Insecure \in BOOLEAN /\ NoKey \notin Keys

VARIABLES
  members, \* the processes of this deployment
  ring,    \* node -> its key ring
  stored,  \* item -> the generation of its content and the wrapped data key
  gen,     \* item -> times it was written
  job,     \* node -> the listed items its re-encryption still has to visit
  done,    \* node -> items this run re-encrypted
  raced    \* history: items replaced while a job held their old data key

keyVars == <<members, ring, stored, gen, job, done, raced>>
vars == <<sealVars, keyVars>>

SecretsOf(s) == SelectSeq(s, LAMBDA i : i \in Secrets)
CAsOf(s) == SelectSeq(s, LAMBDA i : i \notin Secrets)
-----------------------------------------------------------------------------
(* crypto.KeyRing and crypto.Service.                                      *)

NewKeyRing(k) == [keys |-> <<k>>, active |-> 1, legacy |-> TRUE]

\* AddKey of the next version; a byte has no version after the last one.
AddKey(r, k) ==
  IF Len(r.keys) = VersionMax THEN r
  ELSE [keys |-> Append(r.keys, k), active |-> Len(r.keys) + 1, legacy |-> FALSE]

\* LoadPreviousMasterKey: the active version stays.
LoadPreviousMasterKey(r, k) == [AddKey(r, k) EXCEPT !.active = r.active]

RingOf(c) == FoldLeft(LoadPreviousMasterKey, NewKeyRing(c.master), c.previous)

EncryptDEK(r, dek) ==
  [dek |-> dek, key |-> r.keys[r.active], version |-> IF r.legacy /\ r.active = 1 THEN 0 ELSE r.active]

\* The key a version byte names seals this data key.
Versioned(r, w) == w.version \in 1 .. Len(r.keys) /\ r.keys[w.version] = w.key

\* DecryptDEK: the key the version names, then every key on the whole blob.
Opens(r, w) == Versioned(r, w) \/ (w.version = 0 /\ w.key \in Range(r.keys))

DEKNeedsReencrypt(r, w) ==
  /\ ~(r.legacy /\ r.active = 1)
  /\ ~(Versioned(r, w) /\ w.version = r.active)

\* Crypto.Seal of new content: a fresh data key under the active key.
SealItem(r, g) == [gen |-> g, wrap |-> EncryptDEK(r, g)]

\* Crypto.Open: the data key opens, and it is the one of the content.
Reads(n, i) == Opens(ring[n], stored[i].wrap) /\ stored[i].wrap.dek = stored[i].gen
-----------------------------------------------------------------------------
\* The process of a deployment that has only one.
Single == {CHOOSE n \in Nodes : TRUE}

KeyRingInit ==
  /\ SealInit
  /\ members \in {Single, Nodes}
  /\ part = "seal" => members # Nodes
  /\ ring = [n \in Nodes |-> RingOf(conf[n])]
  /\ stored = [i \in Range(Items) |-> NoItem]
  /\ gen = [i \in Range(Items) |-> 0]
  /\ job = [n \in Nodes |-> <<>>]
  /\ done = [n \in Nodes |-> 0]
  /\ raced = {}

\* middleware.SealGuard: n serves requests of the data plane.
SealGuard(n) == Serving(n) /\ HasSeal(n) /\ ~sealed[n]

Present == {i \in Range(Items) : stored[i] # NoItem}
\* The items a job holds an older data key of.
HeldOld(i) == \E n \in Nodes : \E e \in Range(job[n]) : e.item = i

\* A CA is created or a secret version is written.
Put(n, i) ==
  /\ SealGuard(n) /\ stored[i] = NoItem /\ gen[i] < MaxGen
  /\ gen' = [gen EXCEPT ![i] = @ + 1]
  /\ stored' = [stored EXCEPT ![i] = SealItem(ring[n], gen[i] + 1)]
  /\ raced' = IF HeldOld(i) THEN raced \cup {i} ELSE raced
  /\ UNCHANGED <<sealVars, members, ring, job, done>>

\* A secret version is trimmed, or a backup from before it is restored.
Drop(n, i) ==
  /\ SealGuard(n) /\ i \in Secrets /\ stored[i] # NoItem
  /\ stored' = [stored EXCEPT ![i] = NoItem]
  /\ UNCHANGED <<sealVars, members, ring, gen, job, done, raced>>

\* MasterKeyService.Rotate is refused on several Raft members by default.
RotateAllowed(n) == Cardinality(members) > 1 /\ conf[n].raft => Insecure

\* SysHandler.RotateMasterKey, MasterKeyService.Rotate, RotateMasterKey.
Rotate(n, k) ==
  /\ SealGuard(n) /\ RotateAllowed(n)
  /\ ring' = [ring EXCEPT ![n] = AddKey(@, k)]
  /\ UNCHANGED <<sealVars, members, stored, gen, job, done, raced>>

Entry(i) == [item |-> i, wrap |-> stored[i].wrap]
Listed(s) == [j \in DOMAIN s |-> Entry(s[j])]
PresentOf(s) == SelectSeq(s, LAMBDA i : stored[i] # NoItem)

\* ReencryptDEKs lists the CAs, and the secret versions after the CAs; a run
\* that finds nothing to do changes nothing.
ListCAs(n) ==
  /\ SealGuard(n) /\ job[n] = <<>>
  /\ \E i \in Present : DEKNeedsReencrypt(ring[n], stored[i].wrap)
  /\ job' = [job EXCEPT ![n] = Append(Listed(PresentOf(CAsOf(Items))), [item |-> NoItem])]
  /\ done' = [done EXCEPT ![n] = 0]
  /\ UNCHANGED <<sealVars, members, ring, stored, gen, raced>>

ListSecrets(n) ==
  /\ Serving(n) /\ job[n] # <<>> /\ Head(job[n]).item = NoItem
  /\ job' = [job EXCEPT ![n] = Listed(PresentOf(SecretsOf(Items)))]
  /\ UNCHANGED <<sealVars, members, ring, stored, gen, done, raced>>

\* Faulty variant: the new wrapping carries the version of the old one.
RewrapOld(n, e) == [EncryptDEK(ring[n], e.wrap.dek) EXCEPT !.version = e.wrap.version]
\* ReencryptDEK: the listed data key under the active key.
Rewrap(n, e) == EncryptDEK(ring[n], e.wrap.dek)

\* Faulty variant: the run ends one item before the limit.
RunEndsEarly(n, e) ==
  \/ done[n] + 1 >= Limit
  \/ DEKNeedsReencrypt(ring[n], e.wrap) /\ (~Opens(ring[n], e.wrap) \/ stored[e.item] = NoItem)

\* Past the limit, at an unreadable data key or a version that is gone, the
\* run ends.
RunEnds(n, e) ==
  \/ done[n] >= Limit
  \/ DEKNeedsReencrypt(ring[n], e.wrap) /\ (~Opens(ring[n], e.wrap) \/ stored[e.item] = NoItem)

\* One listed item: UpdateDEKEnc, or Save of the CA.
Visit(n) ==
  LET e == Head(job[n])
  IN  /\ Serving(n) /\ job[n] # <<>> /\ e.item # NoItem
      /\ job' = [job EXCEPT ![n] = IF RunEnds(n, e) THEN <<>> ELSE Tail(@)]
      /\ IF DEKNeedsReencrypt(ring[n], e.wrap) /\ ~RunEnds(n, e)
         THEN /\ stored' = [stored EXCEPT ![e.item] = [@ EXCEPT !.wrap = Rewrap(n, e)]]
              /\ done' = [done EXCEPT ![n] = @ + 1]
         ELSE UNCHANGED <<stored, done>>
      /\ UNCHANGED <<sealVars, members, ring, gen, raced>>

Job(n) == ListCAs(n) \/ ListSecrets(n) \/ Visit(n)

\* A process loads the keys of its configuration, or ends with its job.
Restart(n) ==
  /\ n \in members
  /\ \/ \E c \in Rotations : LoadKeys(n, c) /\ ring' = [ring EXCEPT ![n] = IF c.master = NoKey THEN @ ELSE RingOf(c)]
     \/ Crash(n) /\ UNCHANGED ring
  /\ job' = [job EXCEPT ![n] = <<>>] /\ done' = [done EXCEPT ![n] = 0]
  /\ UNCHANGED <<members, stored, gen, raced>>

KeysStep(n) ==
  \/ \E i \in Range(Items) : Put(n, i) \/ Drop(n, i)
  \/ \E k \in Keys : Rotate(n, k)
  \/ Job(n)

Unkeyed(n) ==
  /\ n \in members /\ UNCHANGED keyVars
  /\ \/ OpenStore(n) \/ SetUpSeal(n) \/ LoadPolicies(n, TRUE) \/ Serve(n)
     \/ SealVault(n) \/ Unseal(n, TRUE)

\* A start touches no keys after its first phase: where the keys are what is
\* exercised, it is not interleaved with the rest.
Quiet == \A n \in members : phase[n] \in {"down", "serving"}

Next ==
  \/ part = "seal" /\ SealNext(members) /\ UNCHANGED keyVars
  \/ part = "keys" /\ \E n \in members : Unkeyed(n) \/ (Quiet /\ (KeysStep(n) \/ Restart(n)))

Fairness ==
  /\ WF_vars(part = "seal" /\ Second /\ UNCHANGED keyVars)
  /\ \A n \in Single, x \in Holders : WF_vars(part = "seal" /\ n \in members /\ SubmitShare(n, x, "good") /\ UNCHANGED keyVars)
  /\ \A n \in Nodes : WF_vars(part = "keys" /\ n \in members /\ Quiet /\ Job(n))

Spec == KeyRingInit /\ [][Next]_vars /\ Fairness
-----------------------------------------------------------------------------

\* While a process runs, rotation, re-encryption, its crash or its failures
\* never make an item unreadable that was readable - unless a restore
\* replaced the item while a re-encryption held its old data key, or another
\* member runs with other keys (MasterKeyService.ReencryptDEKs,
\* SecretRepository.UpdateDEKEnc).
StaysReadable ==
  [][\A n \in Nodes, i \in Range(Items) \ raced' :
       ((\A m \in members : phase[m] # "down" => ring[m] = ring[n]) /\ stored[i] # NoItem /\ stored'[i] # NoItem /\ phase[n] # "down" /\ Reads(n, i)) =>
         Opens(ring'[n], stored'[i].wrap) /\ stored'[i].wrap.dek = stored'[i].gen]_vars

\* A sealed process to which the holders keep submitting their shares opens,
\* whatever wrong shares came before (SubmitShare's clearing of pending).
UnsealCompletes ==
  \A n \in Single : (part = "seal" /\ n \in members /\ Serving(n) /\ HasSeal(n) /\ sealed[n]) ~> (~sealed[n] \/ phase[n] = "down")

Settled(n) == part = "keys" /\ members = {n} /\ SealGuard(n) /\ \A i \in Present : Opens(ring[n], stored[i].wrap)

\* On a single member that stays open and can read its store, the job ends
\* with every data key under the active master key (runMasterKeyReencrypt).
RotationCompletes ==
  \A n \in Single : <>[]Settled(n) => []<>(\A i \in Present : ~DEKNeedsReencrypt(ring[n], stored[i].wrap))

\* A process that is configured with the master key that wraps a data key
\* opens it.
HoldingTheKeyOpens ==
  \A n \in members, i \in Present :
    (phase[n] # "down" /\ stored[i].wrap.key \in Range(ring[n].keys)) => Opens(ring[n], stored[i].wrap)

\* What was begun gets done: holders who keep submitting their shares open a
\* sealed process, and the re-encryption that a rotation starts reaches every
\* data key (SubmitShare, runMasterKeyReencrypt).
VaultProgress == UnsealCompletes /\ RotationCompletes
=============================================================================
