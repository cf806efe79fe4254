------------------------------- MODULE Leases -------------------------------
(***************************************************************************)
(* Leases of dynamic credentials: service/leases.go over the database and  *)
(* SSH engines (engine/secrets/database, engine/secrets/ssh) and the lease *)
(* repository.                                                             *)
(*                                                                         *)
(* A credential is a secret in the versioned repository, a lease record    *)
(* that says how long it may live and, for a database role in managed      *)
(* mode, a user in the target database.  No lock spans the three: issuing, *)
(* renewing and revoking are sequences of calls, each atomic by itself,    *)
(* and several workers (request goroutines, the job goroutine of the       *)
(* leader) run them at once.  One step is one such call.                   *)
(*                                                                         *)
(* A lease id is drawn at random for one issue request, so what the        *)
(* request fixes for good (engine, token, renewable) is a constant of the  *)
(* id.  There is one role per engine.  Time is the event that a lease      *)
(* passes its ExpiresAt.                                                   *)
(***************************************************************************)
EXTENDS SecretVersions

CONSTANTS
  Leases,       \* lease ids
  NoLease,      \* no lease id (a model value)
  Engines,      \* engines that issue leases
  EngineOf,     \* the engine that issued a lease
  Tokens,       \* client tokens
  NoToken,      \* no token (a model value)
  TokenOf,      \* the token a lease is bound to
  Renewable,    \* the leases whose role allows renewal
  Managed,      \* the engines that run SQL in the target database
  Workers,      \* goroutines that run an operation
  MaxLeases,    \* quota of a role
  Limit,        \* how many expired leases one sweep lists
  MaxVersions,  \* bound: versions of one credential
  MaxFaults     \* bound: failed calls and crashes

ASSUME LeasesAssumption ==
  /\ IsFiniteSet(Leases) /\ NoLease \notin Leases
  /\ NoToken \notin Tokens
  /\ Workers # {} /\ IsFiniteSet(Workers)
  /\ EngineOf \in [Leases -> Engines]
  /\ TokenOf \in [Leases -> Tokens]
  /\ Renewable \subseteq Leases
  /\ Managed \subseteq Engines
  /\ MaxLeases \in Nat \ {0} /\ Limit \in Nat \ {0}
  /\ MaxVersions \in Nat /\ MaxFaults \in Nat

VARIABLES
  lease,    \* the record of a lease: none, held or revoked
  expired,  \* the held leases past their ExpiresAt
  before,   \* the expired leases with an earlier ExpiresAt
  secret,   \* repository rows of the credential
  user,     \* the user exists in the target database
  dead,     \* the revoked client tokens
  job,      \* what every worker is doing
  faults,   \* failed calls and crashes so far
  hurt,     \* history: leases a failed call or a crash has touched
  overlap   \* history: leases issued or renewed across a revocation

vars == <<lease, expired, before, secret, user, dead, job, faults, hurt, overlap>>

Idle == [at |-> "idle", id |-> NoLease, tok |-> NoToken, known |-> FALSE, version |-> NoCas,
         todo |-> {}, stop |-> FALSE, then |-> "next"]

Init ==
  /\ lease = [l \in Leases |-> "none"]
  /\ expired = {}
  /\ before = [l \in Leases |-> {}]
  /\ secret = [l \in Leases |-> NoRows]
  /\ user = [l \in Leases |-> FALSE]
  /\ dead = {}
  /\ job = [w \in Workers |-> Idle]
  /\ faults = 0 /\ hurt = {} /\ overlap = {}

At(w, label) == job[w].at = label
Become(w, j) == job' = [job EXCEPT ![w] = j]
Goto(w, label) == Become(w, [job[w] EXCEPT !.at = label])

\* A call succeeds, fails, or fails for its caller after it took effect.
Outcomes == {"ok", "error", "lost"}
Tally(r, touched) ==
  /\ r = "ok" \/ faults < MaxFaults
  /\ faults' = IF r = "ok" THEN faults ELSE faults + 1
  /\ hurt' = IF r = "ok" THEN hurt ELSE hurt \cup touched
Smooth == UNCHANGED <<faults, hurt>>
-----------------------------------------------------------------------------
(* The lease repository.                                                   *)

Active(l) == lease[l] = "held" /\ l \notin expired
ActiveOf(e) == {l \in Leases : EngineOf[l] = e /\ Active(l)}

\* Nothing lists l as expired any more.
Unlist(l) ==
  /\ expired' = expired \ {l}
  /\ before' = [m \in Leases |-> IF m = l THEN {} ELSE before[m] \ {l}]

\* Save stores the whole record, as the caller read or built it: with a
\* later ExpiresAt and without a RevokedAt.
Save(l) == lease' = [lease EXCEPT ![l] = "held"] /\ Unlist(l)

Revoke(l) == lease' = [lease EXCEPT ![l] = "revoked"] /\ Unlist(l)

\* ListExpired: the earliest "Limit" ones.
ListExpired == {l \in expired : Cardinality(before[l]) < Limit}

\* A held lease passes its ExpiresAt.
Expire(l) ==
  /\ Active(l)
  /\ expired' = expired \cup {l}
  /\ before' = [before EXCEPT ![l] = expired]
  /\ UNCHANGED <<lease, secret, user, dead, job, faults, hurt, overlap>>

\* storeSecret: an unconditional PutAtomic that keeps every version.
StoreSecret(l) == secret' = [secret EXCEPT ![l] = PutAtomic(@, [destroyed |-> FALSE], 0)]
-----------------------------------------------------------------------------
(* GenerateCredentials.                                                    *)

IssueLabels == {"store", "save", "create"}
RenewLabels == {"rcreds", "rsave"}

\* The leases that are being issued or renewed at this moment.
InFlight == {job[x].id : x \in {x \in Workers : job[x].at \in IssueLabels \cup RenewLabels}}

Fresh(l) ==
  /\ lease[l] = "none" /\ secret[l] = NoRows
  /\ \A w \in Workers : job[w].id # l

\* Faulty variant: the comparison lets one more in.
CheckMaxLeasesLoose(e) == Cardinality(ActiveOf(e)) <= MaxLeases

\* CheckMaxLeases counts the active leases of the role.
CheckMaxLeases(e) == Cardinality(ActiveOf(e)) < MaxLeases

Issue(w, l) ==
  /\ At(w, "idle") /\ Fresh(l) /\ TokenOf[l] \notin dead
  /\ CheckMaxLeases(EngineOf[l])
  /\ Become(w, [Idle EXCEPT !.at = "store", !.id = l])
  /\ Smooth /\ UNCHANGED <<lease, expired, before, secret, user, dead, overlap>>

IssueStore(w, r) ==
  /\ At(w, "store")
  /\ LET l == job[w].id
     IN  /\ IF r = "error" THEN UNCHANGED secret ELSE StoreSecret(l)
         /\ Tally(r, {l})
  /\ IF r = "ok" THEN Goto(w, "save") ELSE Become(w, Idle)
  /\ UNCHANGED <<lease, expired, before, user, dead, overlap>>

\* leases.Save; when it fails the credential is destroyed again.
IssueSave(w, r) ==
  /\ At(w, "save")
  /\ LET l == job[w].id
     IN  /\ IF r = "error" THEN UNCHANGED <<lease, expired, before>> ELSE Save(l)
         /\ Tally(r, {l})
         /\ IF r # "ok" THEN Become(w, [job[w] EXCEPT !.at = "find", !.then = "idle"])
            ELSE IF EngineOf[l] \in Managed THEN Goto(w, "create")
            ELSE Become(w, Idle)
  /\ UNCHANGED <<secret, user, dead, overlap>>

\* The creation statements of a managed role.  When they fail the credential
\* is destroyed and the lease revoked; "refused" is adminConnectionURL
\* failing, which returns at once and leaves both.
IssueCreate(w, r) ==
  /\ At(w, "create")
  /\ LET l == job[w].id
     IN  /\ user' = [user EXCEPT ![l] = @ \/ r \in {"ok", "lost"}]
         /\ Tally(r, {l})
  /\ IF r \in {"ok", "refused"} THEN Become(w, Idle)
     ELSE Become(w, [job[w] EXCEPT !.at = "find", !.then = "unlease"])
  /\ UNCHANGED <<lease, expired, before, secret, dead, overlap>>

\* leases.Revoke after failed creation statements; its error is ignored.
IssueUnlease(w, r) ==
  /\ At(w, "unlease")
  /\ LET l == job[w].id
     IN  /\ IF r = "error" THEN UNCHANGED <<lease, expired, before>> ELSE Revoke(l)
         /\ Tally(r, {l})
         /\ overlap' = overlap \cup ({l} \cap InFlight)
  /\ Become(w, Idle)
  /\ UNCHANGED <<secret, user, dead>>
-----------------------------------------------------------------------------
(* Renew, by request or by RenewExpiring.                                  *)

\* Faulty variant: RevokedAt is not looked at.
RenewRevoked(w, l) ==
  /\ At(w, "idle") /\ lease[l] # "none" /\ l \in Renewable
  /\ NextVersion(secret[l]) <= MaxVersions
  /\ Become(w, [Idle EXCEPT !.at = "rcreds", !.id = l])
  /\ Smooth /\ UNCHANGED <<lease, expired, before, secret, user, dead, overlap>>

\* leases.Get: an active, renewable lease.
Renew(w, l) ==
  /\ At(w, "idle") /\ Active(l) /\ l \in Renewable
  /\ NextVersion(secret[l]) <= MaxVersions
  /\ Become(w, [Idle EXCEPT !.at = "rcreds", !.id = l])
  /\ Smooth /\ UNCHANGED <<lease, expired, before, secret, user, dead, overlap>>

\* RenewExpiring of the engines renews what is about to expire, one lease
\* after the other and each as Renew does; a request names its lease.
RenewExpiring(w) == \E l \in Leases : Renew(w, l)

\* secrets.GetLatest: no credential, no renewal.
RenewCreds(w) ==
  /\ At(w, "rcreds")
  /\ IF HasLatest(secret[job[w].id]) THEN Goto(w, "rsave") ELSE Become(w, Idle)
  /\ Smooth /\ UNCHANGED <<lease, expired, before, secret, user, dead, overlap>>

\* leases.Save of the record read at the start.
RenewSave(w, r) ==
  /\ At(w, "rsave")
  /\ LET l == job[w].id
     IN  /\ IF r = "error" THEN UNCHANGED <<lease, expired, before>> ELSE Save(l)
         /\ Tally(r, {l})
  /\ IF r = "ok" THEN Goto(w, "rstore") ELSE Become(w, Idle)
  /\ UNCHANGED <<secret, user, dead, overlap>>

RenewStore(w, r) ==
  /\ At(w, "rstore")
  /\ LET l == job[w].id
     IN  /\ IF r = "error" THEN UNCHANGED secret ELSE StoreSecret(l)
         /\ Tally(r, {l})
  /\ Become(w, Idle)
  /\ UNCHANGED <<lease, expired, before, user, dead, overlap>>
-----------------------------------------------------------------------------
(* Revocation: who starts it and over which leases.                        *)

\* "stop": the first error ends the operation; otherwise it goes on.
Sweep(w, todo, stop) ==
  /\ At(w, "idle")
  /\ Become(w, [Idle EXCEPT !.at = "next", !.todo = todo, !.stop = stop])
  /\ Smooth /\ UNCHANGED <<lease, expired, before, secret, user, dead, overlap>>

RevokeOne(w, l) == lease[l] # "none" /\ Sweep(w, {l}, TRUE)
BulkRevoke(w, e) == ActiveOf(e) # {} /\ Sweep(w, ActiveOf(e), TRUE)
Tidy(w) == expired # {} /\ Sweep(w, ListExpired, FALSE)

\* Faulty variant: the first of the list is skipped.
CleanupExpiredTail(w, e) ==
  expired # {} /\ Sweep(w, {l \in ListExpired : EngineOf[l] = e /\ before[l] # {}}, FALSE)

\* CleanupExpired: the limit is applied before the engine filter.
CleanupExpired(w, e) ==
  expired # {} /\ Sweep(w, {l \in ListExpired : EngineOf[l] = e}, FALSE)

\* auth.RevokeToken: the token first ...
RevokeToken(w, k, r) ==
  /\ At(w, "idle") /\ k \notin dead
  /\ dead' = IF r = "error" THEN dead ELSE dead \cup {k}
  /\ Tally(r, {l \in Leases : TokenOf[l] = k})
  /\ IF r = "ok" THEN Become(w, [Idle EXCEPT !.at = "cascade", !.tok = k])
     ELSE UNCHANGED job
  /\ UNCHANGED <<lease, expired, before, secret, user, overlap>>

\* ... then RevokeByTokenID lists what is active under it.  A failed List
\* is ignored.
Cascade(w, r) ==
  /\ At(w, "cascade") /\ r # "lost"
  /\ LET k == job[w].tok
     IN  /\ Tally(r, {l \in Leases : TokenOf[l] = k})
         /\ IF r = "ok"
            THEN Become(w, [Idle EXCEPT !.at = "next",
                   !.todo = {l \in Leases : TokenOf[l] = k /\ Active(l)}])
            ELSE Become(w, Idle)
  /\ overlap' = overlap \cup InFlight
  /\ UNCHANGED <<lease, expired, before, secret, user, dead>>
-----------------------------------------------------------------------------
(* RevokeLease of the engines.                                             *)

\* leases.Get: a lease already revoked is done.
NextLease(w, l) ==
  /\ At(w, "next") /\ l \in job[w].todo
  /\ LET rest == [job[w] EXCEPT !.todo = @ \ {l}]
     IN  Become(w, IF lease[l] = "held" THEN [rest EXCEPT !.at = "creds", !.id = l]
                   ELSE rest)
  /\ Smooth /\ UNCHANGED <<lease, expired, before, secret, user, dead, overlap>>

SweepDone(w) ==
  /\ At(w, "next") /\ job[w].todo = {}
  /\ Become(w, Idle)
  /\ Smooth /\ UNCHANGED <<lease, expired, before, secret, user, dead, overlap>>

\* The username for the revocation statements, if it can be read (the SSH
\* engine has none and does not look).
ReadCreds(w) ==
  /\ At(w, "creds")
  /\ Become(w, [job[w] EXCEPT !.at = "mark", !.known = HasLatest(secret[job[w].id])])
  /\ Smooth /\ UNCHANGED <<lease, expired, before, secret, user, dead, overlap>>

\* The revocation of one lease is over, or failed.
Proceed(w) ==
  Become(w, [Idle EXCEPT !.at = "next", !.todo = job[w].todo, !.stop = job[w].stop])
Failed(w) == IF job[w].stop THEN Become(w, Idle) ELSE Proceed(w)

\* Faulty variant: the revocation statements are not run.
MarkNoDrop(w, r) ==
  /\ At(w, "mark")
  /\ LET l == job[w].id
     IN  /\ IF r = "error" THEN UNCHANGED <<lease, expired, before>> ELSE Revoke(l)
         /\ Tally(r, {l})
         /\ overlap' = overlap \cup ({l} \cap InFlight)
         /\ IF r = "ok" THEN Goto(w, "find") ELSE Failed(w)
  /\ UNCHANGED <<secret, user, dead>>

\* leases.Revoke comes before anything is taken away.
Mark(w, r) ==
  /\ At(w, "mark")
  /\ LET l == job[w].id
     IN  /\ IF r = "error" THEN UNCHANGED <<lease, expired, before>> ELSE Revoke(l)
         /\ Tally(r, {l})
         /\ overlap' = overlap \cup ({l} \cap InFlight)
         /\ IF r = "ok"
            THEN Goto(w, IF EngineOf[l] \in Managed /\ job[w].known THEN "drop" ELSE "find")
            ELSE Failed(w)
  /\ UNCHANGED <<secret, user, dead>>

\* The revocation statements of a managed role; an error keeps the secret.
Drop(w, r) ==
  /\ At(w, "drop")
  /\ LET l == job[w].id
     IN  /\ user' = [user EXCEPT ![l] = @ /\ r = "error"]
         /\ Tally(r, {l})
  /\ IF r = "ok" THEN Goto(w, "find") ELSE Failed(w)
  /\ UNCHANGED <<lease, expired, before, secret, dead, overlap>>

\* Where destroySecret returns to.
AfterDestroy(w) ==
  CASE job[w].then = "next" -> Proceed(w)
    [] job[w].then = "unlease" -> Goto(w, "unlease")
    [] job[w].then = "idle" -> Become(w, Idle)

\* destroySecret: GetLatest, an error of which is success ...
Find(w) ==
  /\ At(w, "find")
  /\ LET rows == secret[job[w].id]
     IN  IF HasLatest(rows)
         THEN Become(w, [job[w] EXCEPT !.at = "destroy", !.version = Latest(rows)])
         ELSE AfterDestroy(w)
  /\ Smooth /\ UNCHANGED <<lease, expired, before, secret, user, dead, overlap>>

\* ... and DestroyVersion of that version.  The issuing request ignores its
\* error, a revocation fails.
DestroyIt(w, r) ==
  /\ At(w, "destroy")
  /\ LET l == job[w].id  v == job[w].version
         done == r # "error" /\ CanDestroy(secret[l], v)
     IN  /\ secret' = IF done THEN [secret EXCEPT ![l] = Destroy(@, v)] ELSE secret
         /\ Tally(r, {l})
         /\ IF (r = "ok" /\ done) \/ job[w].then # "next" THEN AfterDestroy(w)
            ELSE Failed(w)
  /\ UNCHANGED <<lease, expired, before, user, dead, overlap>>
-----------------------------------------------------------------------------
\* The process of a worker dies in the middle of an operation.
Crash(w) ==
  /\ ~At(w, "idle")
  /\ Tally("error", {l \in Leases : l = job[w].id \/ l \in job[w].todo
                                      \/ TokenOf[l] = job[w].tok})
  /\ Become(w, Idle)
  /\ UNCHANGED <<lease, expired, before, secret, user, dead, overlap>>

Start(w) ==
  \/ \E l \in Leases : Issue(w, l) \/ RevokeOne(w, l)
  \/ RenewExpiring(w)
  \/ \E e \in Engines : BulkRevoke(w, e) \/ CleanupExpired(w, e)
  \/ Tidy(w)
  \/ \E k \in Tokens, r \in Outcomes : RevokeToken(w, k, r)

\* The operations of an engine once begun.  The SSH engine takes the same
\* steps in the same order; its leases have no user and no statements.
GenerateCredentials(w) ==
  \/ \E r \in Outcomes : IssueStore(w, r) \/ IssueSave(w, r) \/ IssueUnlease(w, r)
  \/ \E r \in Outcomes \cup {"refused"} : IssueCreate(w, r)
Renewal(w) == RenewCreds(w) \/ \E r \in Outcomes : RenewSave(w, r) \/ RenewStore(w, r)
RevokeLease(w) ==
  \/ \E l \in Leases : NextLease(w, l)
  \/ ReadCreds(w) \/ Find(w)
  \/ \E r \in Outcomes : Mark(w, r) \/ Drop(w, r) \/ DestroyIt(w, r)

\* What a worker does next once it has started.
Continue(w) ==
  \/ GenerateCredentials(w) \/ Renewal(w) \/ RevokeLease(w)
  \/ SweepDone(w) \/ \E r \in Outcomes : Cascade(w, r)

Next ==
  \/ \E w \in Workers : Start(w) \/ Continue(w) \/ Crash(w)
  \/ \E l \in Leases : Expire(l)

Spec == Init /\ [][Next]_vars

\* An operation that was started goes on, and the ticker of the leader gets
\* every engine's CleanupExpired run again and again.
Fairness ==
  /\ \A w \in Workers : WF_vars(Continue(w))
  /\ \A e \in Engines : SF_vars(\E w \in Workers : CleanupExpired(w, e))

FairSpec == Spec /\ Fairness
-----------------------------------------------------------------------------
(* Properties.                                                             *)

Labels == IssueLabels \cup RenewLabels \cup
  {"idle", "unlease", "rstore", "cascade", "next", "creds", "mark", "drop", "find",
   "destroy"}
Job == [at : Labels, id : Leases \cup {NoLease}, tok : Tokens \cup {NoToken}, known : BOOLEAN,
        version : Nat \cup {NoCas}, todo : SUBSET Leases, stop : BOOLEAN,
        then : {"idle", "unlease", "next"}]

\* The quota is counted before the lease is saved, so concurrent requests
\* can exceed it, by less than one lease per worker: renewals that bring a
\* lease back after it expired included.
QuotaBound ==
  \A e \in Engines :
    Cardinality(ActiveOf(e)) <= MaxLeases + Cardinality(Workers) - 1

\* A user in the target database always has a lease record, crashes and
\* failed calls included: the record is saved before the statements run, so
\* no user exists that no sweep can find.
UserHasLease == \A l \in Leases : user[l] => lease[l] # "none"

\* A revoked lease stays revoked, unless a renewal was under way when it was
\* revoked: the renewal saves the whole record it read before.
RevokedForGood ==
  [][\A l \in Leases \ overlap : lease[l] = "revoked" => lease'[l] = "revoked"]_vars

\* No worker is busy with l.
Quiet(l) ==
  \A w \in Workers :
    job[w].id # l /\ l \notin job[w].todo /\ job[w].tok # TokenOf[l]

\* Once a revocation is over, the database user is gone, and the credential
\* too if it was never renewed: whoever revokes, and however many at once,
\* when no call failed and the lease was not being issued or renewed.
RevocationComplete ==
  \A l \in Leases \ (hurt \cup overlap) :
    (lease[l] = "revoked" /\ Quiet(l)) =>
      /\ ~user[l]
      /\ l \notin Renewable => ~HasLatest(secret[l])

\* When a token was revoked and the cascade is over, no lease of it is
\* active, unless it was being issued or renewed at that time or a call
\* failed.
CascadeReaches ==
  \A l \in Leases \ (hurt \cup overlap) :
    (TokenOf[l] \in dead /\ Quiet(l)) => ~Active(l)

\* A revocation that nothing disturbed takes everything with it: of one
\* lease its user and credential, of a token all its leases (RevokeLease,
\* RevokeByToken).
RevocationReaches == RevocationComplete /\ CascadeReaches

\* The sweep of the leader revokes every expired one of the leases ls, or it
\* is renewed.
ExpiredIsSwept(ls) == \A l \in ls : []<>(l \notin expired)

\* engine/secrets/ssh/engine.go: "RevokeLease revokes a lease and destroys
\* stored credentials."
RevokeDestroysCredentials ==
  \A l \in Leases \ (hurt \cup overlap) :
    (lease[l] = "revoked" /\ Quiet(l)) => ~HasLatest(secret[l])
=============================================================================
