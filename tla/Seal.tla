-------------------------------- MODULE Seal --------------------------------
(***************************************************************************)
(* The start of a knxvault process and its operational seal                *)
(* (app/deps.go, app/app.go, app/seal.go, crypto/masterkey,                *)
(* crypto/autounseal, handlers/sys.go).                                    *)
(*                                                                         *)
(* A process starts in the phases of NewDependencies: it loads its master  *)
(* keys, opens the store, sets up the seal, waits for a leader and loads   *)
(* policies, wires the services and serves.  Any phase may end the start,  *)
(* and the process may die at any time; only the seal marker file          *)
(* survives.  Shares carry an index and are good (of the ceremony that     *)
(* split the unseal key), bad (of the same length), or short (of another   *)
(* length); that Combine recovers the key from good ones is checked in     *)
(* Shamir.                                                                 *)
(***************************************************************************)
EXTENDS Naturals, Sequences, FiniteSets

CONSTANTS
  Nodes,     \* the processes
  Configs,   \* configurations an operator may deploy
  NoKey,     \* no master key is configured
  Holders,   \* indices of the key shares, not zero
  Threshold, \* shares that recover the unseal key, cfg.UnsealThreshold
  DelayCap,  \* longest back-off in seconds
  MaxBad,    \* bound: wrong keys and shares presented
  MaxCrash,  \* bound: process deaths
  MaxWatch   \* bound: seconds a series of failures is watched for

ASSUME SealAssumption ==
  /\ Holders \subseteq Nat \ {0} /\ IsFiniteSet(Holders)
  /\ Threshold \in 1 .. Cardinality(Holders)
  /\ DelayCap \in Nat \ {0} /\ MaxBad \in Nat /\ MaxCrash \in Nat /\ MaxWatch \in Nat

VARIABLES
  part,    \* what this behaviour exercises: the seal or the keys
  phase,   \* node -> where its start is
  conf,    \* node -> the configuration it was started with
  sealed,  \* node -> the fence is up
  marker,  \* node -> content of the seal.state file
  fails,   \* node -> consecutive failed attempts
  wait,    \* node -> seconds until the next attempt is accepted
  pending, \* node -> index -> the share submitted under it
  bad,     \* wrong credentials presented so far
  crashes, \* process deaths so far
  given,   \* history: indices of the valid shares evaluated since the fence went up, 0 for the key
  spent    \* history: seconds since the first of the consecutive failures

sealVars == <<part, phase, conf, sealed, marker, fails, wait, pending, bad, crashes, given, spent>>

Phases == <<"down", "keys", "store", "seal", "policies", "serving">>
Lesser(a, b) == IF a < b THEN a ELSE b
NoShares == [x \in {} |-> "good"]

SealInit ==
  /\ part \in {"seal", "keys"}
  /\ phase = [n \in Nodes |-> "down"]
  /\ conf = [n \in Nodes |-> CHOOSE c \in Configs : c.master # NoKey]
  /\ sealed = [n \in Nodes |-> TRUE]
  /\ marker = [n \in Nodes |-> "none"]
  /\ fails = [n \in Nodes |-> 0]
  /\ wait = [n \in Nodes |-> 0]
  /\ pending = [n \in Nodes |-> NoShares]
  /\ bad = 0 /\ crashes = 0
  /\ given = [n \in Nodes |-> {}]
  /\ spent = [n \in Nodes |-> 0]

HasSeal(n) == conf[n].master # NoKey
Serving(n) == phase[n] = "serving"
-----------------------------------------------------------------------------
(* The start of a process.                                                 *)

Advance(n, from, to) ==
  /\ phase[n] = from
  /\ phase' = [phase EXCEPT ![n] = to]

\* masterkey.Load and the previous keys; no key is an error with Raft only.
LoadKeys(n, c) ==
  /\ Advance(n, "down", IF c.master = NoKey /\ c.raft THEN "down" ELSE "keys")
  /\ conf' = [conf EXCEPT ![n] = c]
  /\ UNCHANGED <<part, sealed, marker, fails, wait, pending, bad, crashes, given, spent>>

\* ParseInitialMembers and StartNodeHost, or the in-memory repositories.
OpenStore(n) ==
  /\ Advance(n, "keys", "store")
  /\ UNCHANGED <<part, conf, sealed, marker, fails, wait, pending, bad, crashes, given, spent>>

\* decryptAESKEK: the ciphertext opens under the key encryption key, or not.
DecryptUnsealKey(c) == c.auto

\* The unseal material: auto-unseal, the configured key, the lab fallback.
resolveUnsealKey(c) ==
  IF c.auto # "off" THEN DecryptUnsealKey(c)
  ELSE IF c.unseal # "none" THEN c.unseal
  ELSE IF c.lab THEN "master" ELSE "none"

UnsealRefused(c) ==
  \/ c.raft /\ c.unseal = "none" /\ c.auto = "off"
  \/ resolveUnsealKey(c) = "none"
  \/ resolveUnsealKey(c) = "master" /\ (c.unseal # "none" \/ c.auto # "off")

\* persistLocked writes the marker; markUnsealedLocked also clears the rest.
persist(n, s) == marker' = [marker EXCEPT ![n] = IF ~conf[n].dir THEN @ ELSE IF s THEN "sealed" ELSE "unsealed"]

markUnsealed(n) ==
  /\ fails' = [fails EXCEPT ![n] = 0] /\ wait' = [wait EXCEPT ![n] = 0]
  /\ spent' = [spent EXCEPT ![n] = 0]
  /\ sealed' = [sealed EXCEPT ![n] = FALSE]
  /\ pending' = [pending EXCEPT ![n] = NoShares]
  /\ persist(n, FALSE)

\* What a new SealState knows of attempts, or a dead one.
forget(n) ==
  /\ fails' = [fails EXCEPT ![n] = 0] /\ wait' = [wait EXCEPT ![n] = 0]
  /\ spent' = [spent EXCEPT ![n] = 0]
  /\ pending' = [pending EXCEPT ![n] = NoShares]
  /\ given' = [given EXCEPT ![n] = {}]

\* Faulty variant: the marker file decides.
StartsAsMarked(n) == HasSeal(n) /\ marker[n] # "unsealed"
\* NewSealState and SetStateFile leave the fence up, whatever the marker says.
StartsSealed(n) == HasSeal(n)

\* The seal block of NewDependencies, with auto-unseal after the marker.
SetUpSeal(n) ==
  /\ Advance(n, "store", IF HasSeal(n) /\ UnsealRefused(conf[n]) THEN "down" ELSE "seal")
  /\ IF HasSeal(n) /\ ~UnsealRefused(conf[n]) /\ conf[n].auto # "off"
     THEN markUnsealed(n) /\ UNCHANGED given
     ELSE /\ forget(n)
          /\ sealed' = [sealed EXCEPT ![n] = StartsSealed(n)]
          /\ UNCHANGED marker
  /\ UNCHANGED <<part, conf, bad, crashes>>

\* The wait for a Raft leader, LoadIntoRBAC, the root token: one may fail.
LoadPolicies(n, ok) ==
  /\ Advance(n, "seal", IF ok THEN "policies" ELSE "down")
  /\ crashes' = IF ok THEN crashes ELSE crashes + 1
  /\ ok \/ crashes < MaxCrash
  /\ UNCHANGED <<part, conf, sealed, marker, fails, wait, pending, bad, given, spent>>

\* The services are wired and the listener starts: a webhook URL may be
\* refused, and a Kubernetes login without review is not for Raft.
WiringRefused(c) == "webhook" \in c.faults \/ (c.raft /\ "k8sInsecure" \in c.faults)

Serve(n) ==
  /\ Advance(n, "policies", IF WiringRefused(conf[n]) THEN "down" ELSE "serving")
  /\ UNCHANGED <<part, conf, sealed, marker, fails, wait, pending, bad, crashes, given, spent>>

\* The process ends.  A process that does not run serves nothing.
Crash(n) ==
  /\ phase[n] # "down" /\ crashes < MaxCrash
  /\ phase' = [phase EXCEPT ![n] = "down"]
  /\ sealed' = [sealed EXCEPT ![n] = TRUE]
  /\ crashes' = crashes + 1
  /\ forget(n)
  /\ UNCHANGED <<part, conf, marker, bad>>

Starting(n) ==
  \/ \E c \in Configs : LoadKeys(n, c)
  \/ OpenStore(n) \/ SetUpSeal(n)
  \/ \E ok \in BOOLEAN : LoadPolicies(n, ok)
  \/ Serve(n)
-----------------------------------------------------------------------------
(* Sealing and unsealing.                                                  *)

\* unsealBackoffLocked: one second, doubled five times at most, capped.
Doubled == <<1, 2, 4, 8, 16, 32>>
Backoff(f) == IF f <= 0 THEN 0 ELSE Lesser(Doubled[Lesser(f, 6)], DelayCap)

\* A failed attempt: failCount and lastFail.  Counts from six on are alike.
fail(n) ==
  /\ fails' = [fails EXCEPT ![n] = Lesser(@ + 1, 6)]
  /\ wait' = [wait EXCEPT ![n] = Backoff(fails[n] + 1)]

\* SysHandler.Seal, SealState.Seal: pending shares and failures are kept.
SealVault(n) ==
  /\ Serving(n) /\ HasSeal(n)
  /\ sealed' = [sealed EXCEPT ![n] = TRUE]
  /\ persist(n, TRUE)
  /\ given' = [given EXCEPT ![n] = {x \in DOMAIN pending[n] : pending[n][x] = "good"}]
  /\ UNCHANGED <<part, phase, conf, fails, wait, pending, bad, crashes, spent>>

\* Faulty variant: no back-off.
AttemptAnyTime(n) == Serving(n) /\ HasSeal(n)
\* SysHandler.Unseal up to the credential: the back-off is over.
Attempt(n) == Serving(n) /\ HasSeal(n) /\ wait[n] = 0

\* SealState.Unseal with the full key, right or wrong.
Unseal(n, right) ==
  /\ Attempt(n)
  /\ IF right
     THEN /\ markUnsealed(n) /\ given' = [given EXCEPT ![n] = @ \cup {0}]
          /\ UNCHANGED bad
     ELSE /\ bad < MaxBad /\ bad' = bad + 1 /\ fail(n)
          /\ UNCHANGED <<sealed, marker, pending, given, spent>>
  /\ UNCHANGED <<part, phase, conf, crashes>>

\* Whether the shares combine to the unseal key.
Combine(shares) ==
  /\ \A x \in DOMAIN shares : shares[x] = "good"
  /\ Cardinality(DOMAIN shares) >= Threshold

\* A share of another length clears the pending ones at the fifth failure.
MismatchClears(f) == f >= 5

LengthOf(kind) == IF kind = "short" THEN 1 ELSE 2
Mismatch(n, kind) == \E x \in DOMAIN pending[n] : LengthOf(pending[n][x]) # LengthOf(kind)
Pend(n, shares) == pending' = [pending EXCEPT ![n] = shares]

\* The shares of n once one more is filed under its index.
WithShare(n, x, kind) == [y \in DOMAIN pending[n] \cup {x} |-> IF y = x THEN kind ELSE pending[n][y]]

\* SealState.SubmitShare of a share with index x (0 is no index).
SubmitShare(n, x, kind) ==
  /\ Attempt(n)
  /\ kind = "good" \/ bad < MaxBad
  /\ x = 0 => kind = "bad"
  /\ bad' = IF kind = "good" THEN bad ELSE bad + 1
  /\ given' = [given EXCEPT ![n] = IF kind = "good" /\ ~Mismatch(n, kind) THEN @ \cup {x} ELSE @]
  /\ IF x = 0
     THEN fail(n) /\ UNCHANGED <<sealed, marker, pending, spent>>
     ELSE IF Mismatch(n, kind)
     THEN /\ fail(n)
          /\ Pend(n, IF MismatchClears(fails[n] + 1) THEN NoShares ELSE pending[n])
          /\ UNCHANGED <<sealed, marker, spent>>
     ELSE LET shares == WithShare(n, x, kind)
          IN  IF Cardinality(DOMAIN shares) < Threshold
              THEN Pend(n, shares) /\ UNCHANGED <<sealed, marker, fails, wait, spent>>
              ELSE IF ~Combine(shares)
              THEN Pend(n, NoShares) /\ fail(n) /\ UNCHANGED <<sealed, marker, spent>>
              ELSE markUnsealed(n)
  /\ UNCHANGED <<part, phase, conf, crashes>>

\* One second passes.
Second ==
  /\ \E n \in Nodes : wait[n] > 0 \/ (fails[n] > 0 /\ spent[n] < MaxWatch)
  /\ wait' = [n \in Nodes |-> IF wait[n] > 0 THEN wait[n] - 1 ELSE 0]
  /\ spent' = [n \in Nodes |-> IF fails[n] > 0 THEN Lesser(spent[n] + 1, MaxWatch) ELSE spent[n]]
  /\ UNCHANGED <<part, phase, conf, sealed, marker, fails, pending, bad, crashes, given>>

Sealing(n) ==
  \/ Crash(n) \/ SealVault(n)
  \/ \E right \in BOOLEAN : Unseal(n, right)
  \/ \E x \in Holders \cup {0}, kind \in {"good", "bad", "short"} : SubmitShare(n, x, kind)

SealNext(ns) == Second \/ \E n \in ns : Starting(n) \/ Sealing(n)

SealSpec == SealInit /\ [][SealNext(Nodes)]_sealVars
-----------------------------------------------------------------------------
(* Properties.                                                             *)

\* A serving process is open only because, since its fence last went up, the
\* unseal key or a threshold of distinct valid shares was presented to it
\* (shares still pending from before a seal count: SealState.Seal keeps
\* them), or because it unseals by itself (SubmitShare, SetStateFile).
OpenIsEarned ==
  \A n \in Nodes : (Serving(n) /\ HasSeal(n) /\ ~sealed[n]) =>
    \/ 0 \in given[n] \/ \E xs \in SUBSET given[n] : Cardinality(xs) >= Threshold
    \/ conf[n].auto # "off"

\* The back-offs of the first f - 1 of f failures, six at most.
BackoffSum(f) ==
  LET b(i) == IF i < f THEN Backoff(i) ELSE 0 IN b(1) + b(2) + b(3) + b(4) + b(5)

\* However keys and shares are mixed, f consecutive failures take at least
\* the back-off of the first f - 1 of them (unsealBackoffLocked).
FailuresArePaced ==
  \A n \in Nodes : spent[n] >= Lesser(MaxWatch, BackoffSum(fails[n]))
=============================================================================
