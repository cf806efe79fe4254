------------------------------- MODULE Tokens -------------------------------
(***************************************************************************)
(* Client tokens: auth/token.go and auth/agent.go over the replicated      *)
(* token repository.                                                       *)
(*                                                                         *)
(* The store of every node keeps a map of records too, but once a          *)
(* repository is set (NewDependencies always sets one) nothing reads it,   *)
(* so only the repository is state.  A repository call is one atomic step; *)
(* an operation that makes several is a sequence of steps of a worker, a   *)
(* request goroutine on any node.  Token 0 is the configured root token,   *)
(* the others are drawn at random, in order.                               *)
(***************************************************************************)
EXTENDS Naturals, FiniteSets

CONSTANTS
  Workers,     \* request goroutines
  MaxTokens,   \* bound: tokens that are ever issued
  MaxTime,     \* bound: the clock
  TokenTTL,    \* the store's default lifetime
  MaxTokenTTL, \* MaxClientTokenTTL
  AgentTTL,    \* maxAgentTTL
  RootTTL,     \* lifetime of the root token
  Policies,    \* policy names
  Includes,    \* the policies a policy includes
  Requests     \* lifetimes and increments a client asks for; 0 is none

ASSUME TokensAssumption ==
  /\ Workers # {} /\ IsFiniteSet(Workers)
  /\ MaxTokens \in Nat /\ MaxTime \in Nat
  /\ TokenTTL \in Nat \ {0} /\ AgentTTL \in Nat \ {0} /\ RootTTL \in Nat \ {0}
  /\ MaxTokenTTL \in Nat \ {0} /\ TokenTTL <= MaxTokenTTL /\ AgentTTL <= MaxTokenTTL
  /\ "admin" \in Policies /\ Includes \in [Policies -> SUBSET Policies]
  /\ Requests \subseteq Nat

Root == 0
TokenIds == 0..MaxTokens

VARIABLES
  now,      \* the clock
  tokens,   \* the repository: id -> record
  boot,     \* the server has registered the root token
  owned,    \* tokens that own cubbyhole entries
  job,      \* what every worker is doing
  minted,   \* history: when a token was issued
  raced,    \* history: tokens that died while a worker held their record
  late      \* history: revoked tokens for which an admitted request stored

tvars == <<now, tokens, boot, owned, job, minted, raced, late>>

Absent == [at |-> "absent"]
Record(policies, expires, max, renewable) ==
  [at |-> "stored", policies |-> policies, expires |-> expires, max |-> max,
   renewable |-> renewable, revoked |-> FALSE]

Idle == [at |-> "idle"]
Least(a, b) == IF a <= b THEN a ELSE b

TokensInit ==
  /\ now = 0
  /\ tokens = [t \in TokenIds |-> Absent]
  /\ boot = FALSE
  /\ owned = {} /\ raced = {} /\ late = {}
  /\ job = [w \in Workers |-> Idle]
  /\ minted = [t \in TokenIds |-> 0]

At(w, label) == job[w].at = label
Become(w, j) == job' = [job EXCEPT ![w] = j]

\* What Authenticate accepts.
Stored(t) == tokens[t].at = "stored"
Expired(t) == now > tokens[t].expires
Authenticate(t) == Stored(t) /\ ~tokens[t].revoked /\ ~Expired(t)

Holders(t) == {w \in Workers : At(w, "renew") /\ job[w].token = t}
-----------------------------------------------------------------------------
(* Create and its callers.                                                 *)

\* The next random token.
Unused == {t \in TokenIds \ {Root} : ~Stored(t)}
Fresh(t) == t \in Unused /\ \A v \in Unused : t <= v

Save(t, record) == tokens' = [tokens EXCEPT ![t] = record]

\* Create: the lifetime is cut at max, when there is one.
Create(t, policies, ttl, renewable, max) ==
  LET life == IF ttl = 0 THEN TokenTTL ELSE ttl
      end == IF max = 0 THEN now + life ELSE Least(now + life, max)
  IN  /\ Fresh(t)
      /\ Save(t, Record(policies, end, max, renewable))
      /\ minted' = [minted EXCEPT ![t] = now]

\* Issue: what every login calls; the token may be renewed up to the
\* lifetime it starts with.
Issue(t, policies) == Create(t, policies, TokenTTL, TRUE, now + TokenTTL)

\* CreateToken of the service: the lifetime is cut at MaxClientTokenTTL and
\* becomes the hard end.
ServiceCreate(t, policies, ask, renewable) ==
  LET ttl == IF ask = 0 THEN TokenTTL ELSE Least(ask, MaxTokenTTL)
  IN  Create(t, policies, ttl, renewable, now + ttl)

\* CreateToken of the handler: without a lifetime in the request, the
\* default one.
CreateToken(w, t) ==
  /\ At(w, "idle") /\ boot /\ Authenticate(Root)
  /\ \E ask \in Requests, renewable \in BOOLEAN, p \in Policies :
       ServiceCreate(t, {p}, IF ask = 0 THEN TokenTTL ELSE ask, renewable)
  /\ UNCHANGED <<now, boot, owned, job, raced, late>>

\* ResolvePolicyNames: the names and all they include.
Resolve(names) ==
  {p \in Policies : \A S \in SUBSET Policies :
     (names \subseteq S /\ \A q \in S : Includes[q] \subseteq S) => p \in S}

\* validateDelegatedPolicies
Delegable(parent, wanted) == Resolve(wanted) \subseteq Resolve(parent)

\* CreateAgent: no renewal and no hard end.
CreateAgent(t, policies, ttl) ==
  /\ Fresh(t)
  /\ Save(t, Record(policies, now + ttl, 0, FALSE))
  /\ minted' = [minted EXCEPT ![t] = now]

\* DelegateAgent: a caller gives an agent a token of its own.
DelegateAgent(w, parent, t) ==
  /\ At(w, "idle") /\ Authenticate(parent)
  /\ \E wanted \in (SUBSET Policies) \ {{}}, ask \in Requests :
       /\ Delegable(tokens[parent].policies, wanted)
       /\ CreateAgent(t, wanted, Least(IF ask = 0 THEN TokenTTL ELSE ask, AgentTTL))
  /\ UNCHANGED <<now, boot, owned, job, raced, late>>

\* The server starts, or starts again: the root token is saved whatever
\* its record says.
RegisterRoot ==
  /\ Save(Root, Record({"admin"}, now + RootTTL, 0, FALSE))
  /\ boot' = TRUE
  /\ minted' = [minted EXCEPT ![Root] = now]
  /\ UNCHANGED <<now, owned, job, raced, late>>
-----------------------------------------------------------------------------
(* Renew.                                                                  *)

\* RenewToken of the service.
Increment(ask) == Least(IF ask = 0 THEN TokenTTL ELSE ask, MaxTokenTTL)

Hold(w, t, end) ==
  /\ Become(w, [at |-> "renew", token |-> t, record |-> [tokens[t] EXCEPT !.expires = end]])
  /\ UNCHANGED <<now, tokens, boot, owned, minted, raced, late>>

\* Faulty variant: an expired token is not refused.
RenewExpired(w, t, ask) ==
  /\ Stored(t) /\ ~tokens[t].revoked /\ tokens[t].renewable
  /\ LET end == now + Increment(ask)
     IN  Hold(w, t, IF tokens[t].max = 0 THEN end ELSE Least(end, tokens[t].max))

\* Faulty variant: the renewal forgets the hard end.
RenewEndless(w, t, ask) ==
  /\ Authenticate(t) /\ tokens[t].renewable
  /\ Hold(w, t, now + Increment(ask))

\* Renew up to the write: the record is read, checked and given its new
\* end, no later than its hard end.
Renew(w, t, ask) ==
  /\ Authenticate(t) /\ tokens[t].renewable
  /\ LET end == now + Increment(ask)
     IN  Hold(w, t, IF tokens[t].max = 0 THEN end ELSE Least(end, tokens[t].max))

RenewToken(w, t) ==
  /\ At(w, "idle")
  /\ \E ask \in Requests : Renew(w, t, ask)

\* save: the record that was read replaces the stored one, or the write
\* fails.  A save that comes late may also cut short a longer renewal.
RenewSave(w) ==
  /\ At(w, "renew")
  /\ Save(job[w].token, job[w].record) \/ UNCHANGED tokens
  /\ Become(w, Idle)
  /\ UNCHANGED <<now, boot, owned, minted, late>>
  /\ LET t == job[w].token
         cut == Authenticate(t) /\ tokens'[t].expires < now
     IN  raced' = IF cut /\ Holders(t) # {w} THEN raced \cup {t} ELSE raced
-----------------------------------------------------------------------------
(* Use and revocation.                                                     *)

\* The auth middleware lets a request through; what it stores comes later.
Enter(w, t) ==
  /\ At(w, "idle") /\ Authenticate(t)
  /\ Become(w, [at |-> "use", token |-> t])
  /\ UNCHANGED <<now, tokens, boot, owned, minted, raced, late>>

Put(w) ==
  /\ At(w, "use")
  /\ owned' = owned \cup {job[w].token}
  /\ late' = IF tokens[job[w].token].revoked THEN late \cup {job[w].token} ELSE late
  /\ Become(w, Idle)
  /\ UNCHANGED <<now, tokens, boot, minted, raced>>

\* Revoke of the store and of the repository: the record is marked and its
\* end moved to now.
Revoke(t) ==
  /\ Save(t, [tokens[t] EXCEPT !.revoked = TRUE, !.expires = now])
  /\ raced' = IF Holders(t) # {} THEN raced \cup {t} ELSE raced

\* RevokeSelfToken: the caller's own token.
RevokeToken(w, t) ==
  /\ At(w, "idle") /\ Authenticate(t)
  /\ Revoke(t)
  /\ Become(w, [at |-> "wipe", token |-> t])
  /\ UNCHANGED <<now, boot, owned, minted, late>>

\* WipeToken, after the cascade to the leases (module Leases).
Wipe(w) ==
  /\ At(w, "wipe")
  /\ owned' = owned \ {job[w].token}
  /\ Become(w, Idle)
  /\ UNCHANGED <<now, tokens, boot, minted, raced, late>>

\* A second passes; tokens whose record is held may expire.
Tick ==
  /\ now < MaxTime
  /\ now' = now + 1
  /\ raced' = raced \cup {t \in TokenIds : Authenticate(t) /\ tokens[t].expires = now /\ Holders(t) # {}}
  /\ UNCHANGED <<tokens, boot, owned, job, minted, late>>
-----------------------------------------------------------------------------
(* What must hold.                                                         *)

\* No renewal, on whatever node, keeps a client token alive past
\* MaxClientTokenTTL after it was issued (Create, Renew).
MaxLifetime ==
  \A t \in TokenIds \ {Root} : Authenticate(t) => now <= minted[t] + MaxTokenTTL

\* Once a revocation has run to its end the cubbyhole holds nothing of the
\* token, unless a request that the middleware had let in before wrote
\* after it (RevokeToken, WipeToken).
RevokedOwnNothing ==
  \A t \in owned :
    \/ ~tokens[t].revoked
    \/ t \in late
    \/ \E w \in Workers : At(w, "wipe") /\ job[w].token = t

Phase(t) ==
  CASE ~Stored(t)                     -> "unborn"
    [] Stored(t) /\ Authenticate(t)   -> "live"
    [] Stored(t) /\ ~Authenticate(t)  -> "dead"

Life == INSTANCE TokenLife WITH
  Tokens <- TokenIds,
  Reborn <- {Root},
  phase <- [t \in TokenIds |-> Phase(t)],
  excused <- raced

\* A token that expired or was revoked is never accepted again, unless a
\* renewal had read its record before, whose save puts the old record back,
\* or it is the root token, which every start registers anew (Renew, save,
\* RegisterRootTokenTTL).
LivesOnce == Life!LifeSpec
=============================================================================
