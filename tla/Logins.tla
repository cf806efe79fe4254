------------------------------- MODULE Logins -------------------------------
(***************************************************************************)
(* The six login methods (auth/token.go, approle.go, cert_login.go,        *)
(* ldap.go, login_audit.go), the lockout that guards them, kept in the     *)
(* shared cache with its per-node fallback (auth/shared_lockout.go,        *)
(* cache/), and the machine identity records that a Kubernetes or an OIDC  *)
(* login consults and writes (service/machine_identity.go).                *)
(*                                                                         *)
(* All logins come from one address.  A failure with a known identity is   *)
(* counted under the identity's key, which no login consults: only the     *)
(* address key is state.                                                   *)
(*                                                                         *)
(* A behaviour sees either logins or requests on tokens: the two meet only *)
(* in the token that a login issues, and apart they fit TLC.               *)
(***************************************************************************)
EXTENDS Tokens

CONSTANTS
  Methods,   \* the login methods that are configured
  OnRecord,  \* the caller's machine identity is on record (restored from a backup)
  Threshold, \* failures that lock the address
  LockTTL,   \* how long a lock and a failure counter last
  MaxOutages, \* bound: times the Valkey server becomes unreachable
  MaxLoginTime \* bound: the clock where the traffic is logins

ASSUME LoginsAssumption ==
  /\ Methods \subseteq {"kubernetes", "oidc", "approle", "cert", "ldap", "token"}
  /\ Threshold \in Nat \ {0} /\ LockTTL \in Nat \ {0} /\ MaxOutages \in Nat
  /\ MaxLoginTime \in Nat /\ OnRecord \in BOOLEAN

VARIABLES
  traffic,  \* what the clients of this behaviour do: logins or tokens
  up,       \* the Valkey server answers
  outages,  \* times it stopped to
  fail,     \* place -> the failure counter [n, until]
  locked,   \* place -> the end of the lock, 0 when there is none
  nhi,      \* the machine identity of the caller
  streak,   \* history: failed checks since the counters were last empty
  undone    \* history: the identity was revoked under a login past its check

lvars == <<traffic, up, outages, fail, locked, nhi, streak, undone>>
vars == <<tvars, lvars>>

Places == {"remote", "fallback"}
NoCount == [n |-> 0, until |-> 0]

LoginsInit ==
  /\ TokensInit
  /\ traffic \in {"logins", "tokens"}
  /\ up = TRUE /\ outages = 0
  /\ fail = [p \in Places |-> NoCount]
  /\ locked = [p \in Places |-> 0]
  /\ nhi = IF OnRecord THEN "active" ELSE "unknown"
  /\ streak = 0 /\ undone = FALSE
-----------------------------------------------------------------------------
(* What a credential proves.  A credential is the set of the facts that    *)
(* hold of it; a verdict is ok, or which counter a refusal goes to.        *)

Facts == {"present", "known", "signed", "claims", "current", "role", "allowed", "bound", "policies", "mfa"}

\* validateKubernetesJWT: the API server reviews the token, or (without
\* Raft) the shared secret verifies it; the subject is a service account.
validateKubernetesJWT(c) == {"signed", "claims"} \subseteq c

\* LoginKubernetes: no binding at all is a mismatch too.
LoginKubernetes(c) ==
  CASE "present" \notin c                                  -> "uncounted"
    [] "present" \in c /\ ~validateKubernetesJWT(c)        -> "address"
    [] "present" \in c /\ validateKubernetesJWT(c)
         /\ ~({"role", "allowed", "bound", "policies"} \subseteq c) -> "identity"
    [] OTHER                                               -> "ok"

\* Validate: the key set is fetched again once when it does not have the
\* token's key; then signature, expiry, issuer, audience and subject.
ValidateOIDC(c) == {"known", "signed", "current", "claims"} \subseteq c

LoginOIDC(c) ==
  CASE ~({"present", "role", "allowed"} \subseteq c)                      -> "uncounted"
    [] {"present", "role", "allowed"} \subseteq c /\ ~ValidateOIDC(c)     -> "address"
    [] {"present", "role", "allowed"} \subseteq c /\ ValidateOIDC(c)
         /\ "mfa" \notin c                                                -> "identity"
    [] OTHER                                                              -> "ok"

\* Authenticate of the AppRole store: a role and the hash of its secret.
LoginAppRole(c) == IF {"present", "role", "signed"} \subseteq c THEN "ok" ELSE "address"

\* Only a stored role gives a certificate policies.
LoginWithClientCert(c) ==
  CASE ~({"present", "current", "claims"} \subseteq c) -> "address"
    [] {"present", "current", "claims"} \subseteq c
         /\ ~({"role", "policies"} \subseteq c)        -> "identity"
    [] OTHER                                           -> "ok"

\* No lock is consulted; a disabled entity ("allowed") is refused after the
\* bind.
LoginLDAP(c) ==
  CASE ~({"present", "known"} \subseteq c)                                -> "uncounted"
    [] {"present", "known"} \subseteq c /\ "signed" \notin c              -> "identity"
    [] {"present", "known", "signed"} \subseteq c /\ "allowed" \notin c   -> "uncounted"
    [] OTHER                                                              -> "ok"

LoginWithTokenEndpoint(c) == IF {"present", "known", "current"} \subseteq c THEN "ok" ELSE "address"

Verdict(m, c) ==
  CASE m = "kubernetes" -> LoginKubernetes(c)
    [] m = "oidc"       -> LoginOIDC(c)
    [] m = "approle"    -> LoginAppRole(c)
    [] m = "cert"       -> LoginWithClientCert(c)
    [] m = "ldap"       -> LoginLDAP(c)
    [] m = "token"      -> LoginWithTokenEndpoint(c)

Verdicts == [m \in Methods |-> {Verdict(m, c) : c \in SUBSET Facts}]
-----------------------------------------------------------------------------
(* The cache and the lockout.                                              *)

\* Get: the server when it answers and has the key, else the fallback.
Live(entry) == entry > 0 /\ now <= entry
IsLocked == (up /\ Live(locked["remote"])) \/ Live(locked["fallback"])

\* Set and Delete reach the fallback always and the server when it is up.
Reached == IF up THEN Places ELSE {"fallback"}
Put2(f, v) == [p \in Places |-> IF p \in Reached THEN v ELSE f[p]]

\* Incr counts in one place; an entry that has run out counts from zero and
\* every bump gives it a new lifetime.
Counter == IF up THEN "remote" ELSE "fallback"
Incr(c) == [n |-> IF now < c.until THEN c.n + 1 ELSE 1, until |-> now + LockTTL]

RecordFailure ==
  LET bumped == Incr(fail[Counter])
  IN  /\ fail' = [fail EXCEPT ![Counter] = bumped]
      /\ locked' = IF bumped.n >= Threshold THEN Put2(locked, now + LockTTL) ELSE locked
      /\ streak' = streak + 1

RecordSuccess ==
  /\ fail' = Put2(fail, NoCount)
  /\ locked' = Put2(locked, 0)
  /\ streak' = 0

lockout == <<fail, locked, streak>>
-----------------------------------------------------------------------------
(* A login of a worker.                                                    *)

\* Faulty variant: the lock is not consulted.
LoginUnlocked(w, m) ==
  /\ At(w, "idle")
  /\ Become(w, [at |-> "login", method |-> m])
  /\ UNCHANGED <<now, tokens, boot, owned, minted, raced, late, lvars>>

\* The handler and the lock check of the login.
Login(w, m) ==
  /\ At(w, "idle")
  /\ IsLocked => m = "ldap"
  /\ Become(w, [at |-> "login", method |-> m])
  /\ UNCHANGED <<now, tokens, boot, owned, minted, raced, late, lvars>>

\* The credential is checked, by another server in most methods, and a
\* refusal counted.
Check(w) ==
  /\ At(w, "login")
  /\ \E v \in Verdicts[job[w].method] :
       /\ IF v = "address" THEN RecordFailure ELSE UNCHANGED lockout
       /\ Become(w, IF v = "ok" THEN [at |-> "accepted", method |-> job[w].method] ELSE Idle)
  /\ UNCHANGED <<now, tokens, boot, owned, minted, raced, late, traffic, up, outages, nhi, undone>>

\* Faulty variant: revocation is not looked up.
IdentifyAnyway(w) ==
  /\ At(w, "accepted")
  /\ Become(w, [at |-> "register", method |-> job[w].method])
  /\ UNCHANGED <<now, tokens, boot, owned, minted, raced, late, lvars>>

\* IsRevoked: an identity that is not on record is an error.
Identify(w) ==
  /\ At(w, "accepted")
  /\ Become(w, CASE job[w].method \notin {"kubernetes", "oidc"} -> [at |-> "issue", method |-> job[w].method]
                 [] job[w].method \in {"kubernetes", "oidc"} /\ nhi = "active" -> [at |-> "register", method |-> job[w].method]
                 [] OTHER -> Idle)
  /\ UNCHANGED <<now, tokens, boot, owned, minted, raced, late, lvars>>

\* UpsertFromLogin: the whole record is written, not revoked; an error is
\* dropped.
Register(w) ==
  /\ At(w, "register")
  /\ nhi' \in {nhi, "active"}
  /\ Become(w, [at |-> "issue", method |-> job[w].method])
  /\ UNCHANGED <<now, tokens, boot, owned, minted, raced, late, traffic, up, outages, lockout, undone>>

\* The token is written, or the write fails.  LDAP leaves the counters
\* alone, AppRole and certificates clear them only after the write, a token
\* login writes nothing.
Grant(w) ==
  /\ At(w, "issue")
  /\ LET m == job[w].method
         granted == m # "token" /\ \E t \in TokenIds : Issue(t, Policies)
         failed == UNCHANGED <<tokens, minted>>
     IN  \/ /\ granted \/ (m = "token" /\ failed)
            /\ IF m = "ldap" THEN UNCHANGED lockout ELSE RecordSuccess
         \/ /\ m # "token" /\ failed
            /\ IF m \in {"kubernetes", "oidc"} THEN RecordSuccess ELSE UNCHANGED lockout
  /\ Become(w, Idle)
  /\ UNCHANGED <<now, boot, owned, raced, late, traffic, up, outages, nhi, undone>>

\* ClearLockout of the sys API.
ClearLockout ==
  /\ RecordSuccess
  /\ UNCHANGED <<tvars, traffic, up, outages, nhi, undone>>

\* Revoke of a machine identity.
RevokeIdentity ==
  /\ nhi = "active"
  /\ nhi' = "revoked"
  /\ undone' = (undone \/ \E w \in Workers : At(w, "register"))
  /\ UNCHANGED <<tvars, traffic, up, outages, lockout>>

\* The Valkey server goes, and comes back with what it had.
Outage ==
  /\ up => outages < MaxOutages
  /\ up' = ~up
  /\ outages' = IF up THEN outages + 1 ELSE outages
  /\ UNCHANGED <<tvars, traffic, lockout, nhi, undone>>

\* A second: counters and locks run out with it.
Second ==
  /\ traffic = "logins" => now < MaxLoginTime
  /\ Tick
  /\ streak' = IF \A p \in Places : now' >= fail[p].until THEN 0 ELSE streak
  /\ UNCHANGED <<traffic, up, outages, fail, locked, nhi, undone>>

LoginsNext ==
  \/ ClearLockout \/ RevokeIdentity \/ Outage
  \/ \E w \in Workers, m \in Methods : Login(w, m)
  \/ \E w \in Workers : Check(w) \/ Identify(w) \/ Register(w) \/ Grant(w)

TokenSteps ==
  /\ \/ RegisterRoot
     \/ \E w \in Workers : RenewSave(w) \/ Put(w) \/ Wipe(w)
     \/ \E w \in Workers, t \in TokenIds :
          CreateToken(w, t) \/ RenewToken(w, t) \/ Enter(w, t) \/ RevokeToken(w, t)
     \/ \E w \in Workers, p, t \in TokenIds : DelegateAgent(w, p, t)
  /\ UNCHANGED lvars

Next ==
  \/ Second
  \/ traffic = "logins" /\ LoginsNext
  \/ traffic = "tokens" /\ TokenSteps

Spec == LoginsInit /\ [][Next]_vars
-----------------------------------------------------------------------------
\* The stretches of time, the current one included, in which failures were
\* counted in one place.
Stretches == 2 * outages + (IF up THEN 1 ELSE 0)

\* However logins interleave and the cache server fails, an address gets
\* fewer wrong guesses than Threshold for every stretch that the counter was
\* in one place, plus those of the requests that were past the lock check
\* when the lock came (IsLocked, RecordFailure, Incr of the Valkey store
\* with its fallback).
GuessBound == streak <= Stretches * (Threshold - 1 + Cardinality(Workers))

\* A revoked machine identity stays revoked, unless a login that had found
\* it active wrote its record back (IsRevoked, UpsertFromLogin, Revoke).
RevocationStands ==
  [][nhi = "revoked" /\ nhi' # "revoked" => undone]_vars

\* The first login of a machine identity puts it on record: an accepted
\* credential of an identity that nobody revoked gets on to UpsertFromLogin.
LoginCreatesIdentity ==
  [][\A w \in Workers :
       (At(w, "accepted") /\ job[w].method = "oidc" /\ nhi # "revoked" /\ job'[w] # job[w])
         => job'[w].at = "register"]_vars
=============================================================================
