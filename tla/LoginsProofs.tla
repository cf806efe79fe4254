---------------------------- MODULE LoginsProofs ----------------------------
(***************************************************************************)
(* For any number of workers, tokens and policies and every lifetime: the  *)
(* token service implements TokenLife, no renewal outlives the maximum,    *)
(* and what a revocation takes away stays away, in each case with the      *)
(* overlaps that the properties name and no others.                        *)
(***************************************************************************)
EXTENDS Logins, FiniteSetTheorems, TLAPS

Records ==
  [at : {"stored"}, policies : (SUBSET Policies) \ {{}}, expires : Nat, max : Nat,
   renewable : BOOLEAN, revoked : BOOLEAN]

Jobs ==
  {Idle}
  \cup [at : {"renew"}, token : TokenIds, record : Records]
  \cup [at : {"use", "wipe"}, token : TokenIds]
  \cup [at : {"login", "accepted", "register", "issue"}, method : Methods]

\* The shapes of what the store and the workers hold.
Shapes ==
  /\ now \in Nat
  /\ tokens \in [TokenIds -> Records \cup {Absent}]
  /\ job \in [Workers -> Jobs]
  /\ minted \in [TokenIds -> Nat]
  /\ owned \subseteq TokenIds /\ raced \subseteq TokenIds /\ late \subseteq TokenIds

\* A held record was read from a live token: unless the token lives still,
\* its death was seen (raced).
HeldInv ==
  \A w \in Workers : At(w, "renew") =>
    /\ Stored(job[w].token) /\ ~job[w].record.revoked
    /\ Authenticate(job[w].token) \/ job[w].token \in raced

\* Neither a stored nor a held record of a client token reaches past the
\* maximum, and what can be renewed has a hard end.
EndsBy(record, t) ==
  /\ record.expires <= minted[t] + MaxTokenTTL
  /\ record.max <= minted[t] + MaxTokenTTL
  /\ record.renewable => record.max # 0

LifetimeInv ==
  /\ \A t \in TokenIds \ {Root} : Stored(t) => EndsBy(tokens[t], t)
  /\ \A w \in Workers : At(w, "renew") => job[w].token # Root /\ EndsBy(job[w].record, job[w].token)
  /\ Stored(Root) => ~tokens[Root].renewable

\* Who owns entries, or is about to, is a stored token.
OwnerInv ==
  /\ \A t \in owned : Stored(t)
  /\ \A w \in Workers : At(w, "use") => Stored(job[w].token)

\* A login past its check of a revoked identity was overtaken.
IdentityInv ==
  nhi = "revoked" /\ (\E w \in Workers : At(w, "register")) => undone

IInv == Shapes /\ HeldInv /\ LifetimeInv /\ OwnerInv /\ RevokedOwnNothing /\ IdentityInv
-----------------------------------------------------------------------------
\* No token is stored and no request is under way.
LEMMA Initially == LoginsInit => IInv
<1> SUFFICES ASSUME LoginsInit PROVE IInv
  OBVIOUS
<1> USE DEF LoginsInit, TokensInit
<1>0. Root \in TokenIds /\ \A w \in Workers : job[w].at = "idle"
  BY TokensAssumption DEF TokenIds, Root, Idle
<1>1. \A t \in TokenIds : ~Stored(t)
  BY DEF Stored, Absent
<1>2. Shapes
  BY TokensAssumption DEF Shapes, Jobs
<1>3. HeldInv /\ OwnerInv /\ RevokedOwnNothing /\ IdentityInv
  BY <1>0 DEF HeldInv, OwnerInv, RevokedOwnNothing, IdentityInv, At
<1>4. LifetimeInv
  BY <1>0, <1>1 DEF LifetimeInv, At
<1> QED
  BY <1>2, <1>3, <1>4 DEF IInv

\* What a request that is under way carries: a token, a record, a method.
LEMMA Carried ==
  ASSUME Shapes, NEW w \in Workers
  PROVE  /\ At(w, "renew") \/ At(w, "use") \/ At(w, "wipe") => job[w].token \in TokenIds
         /\ At(w, "renew") => job[w].record \in Records
         /\ At(w, "login") \/ At(w, "accepted") \/ At(w, "register") => job[w].method \in Methods
<1>1. PICK j \in Jobs : j = job[w]
  BY Zenon DEF Shapes
<1>2. /\ j.at \in {"renew", "use", "wipe"} => j.token \in TokenIds
      /\ j.at = "renew" => j.record \in Records
      /\ j.at \in {"login", "accepted", "register"} => j.method \in Methods
  BY DEF Jobs, Idle
<1> QED
  BY Zenon, <1>1, <1>2 DEF At
-----------------------------------------------------------------------------
\* A step stores a new client token within its limits.
Mints(t) ==
  /\ t \in TokenIds \ {Root} /\ ~Stored(t)
  /\ minted' = [minted EXCEPT ![t] = now]
  /\ \E ps \in (SUBSET Policies) \ {{}}, end, max \in Nat, renewable \in BOOLEAN :
       /\ tokens' = [tokens EXCEPT ![t] = Record(ps, end, max, renewable)]
       /\ now <= end /\ end <= now + MaxTokenTTL /\ max <= now + MaxTokenTTL
       /\ renewable => max # 0

\* A token id that is given out was not in use.
LEMMA FreshToken == ASSUME NEW t, Fresh(t) PROVE t \in TokenIds \ {Root} /\ ~Stored(t)
  BY DEF Fresh, Unused

\* Create stores a token within the limits.
LEMMA CreateMints ==
  ASSUME Shapes, NEW t, Fresh(t), NEW ps \in (SUBSET Policies) \ {{}}, NEW ttl \in Nat \ {0}, ttl <= MaxTokenTTL,
         NEW renewable \in BOOLEAN, Create(t, ps, ttl, renewable, now + ttl)
  PROVE  Mints(t)
<1>1. now + ttl \in Nat /\ now + ttl # 0 /\ now + ttl <= now + MaxTokenTTL
  BY TokensAssumption DEF Shapes
<1>2. /\ tokens' = [tokens EXCEPT ![t] = Record(ps, now + ttl, now + ttl, renewable)]
      /\ minted' = [minted EXCEPT ![t] = now]
  BY <1>1 DEF Create, Save, Least
<1>3. now <= now + ttl
  BY DEF Shapes
<1> QED
  BY Zenon, <1>1, <1>2, <1>3, FreshToken DEF Mints

\* So does CreateAgent.
LEMMA AgentMints ==
  ASSUME Shapes, NEW t, NEW ps \in (SUBSET Policies) \ {{}}, NEW ttl \in Nat, ttl <= MaxTokenTTL,
         CreateAgent(t, ps, ttl)
  PROVE  Mints(t)
<1>1. now + ttl \in Nat /\ now <= now + ttl /\ now + ttl <= now + MaxTokenTTL /\ 0 <= now + MaxTokenTTL
  BY TokensAssumption DEF Shapes
<1>2. tokens' = [tokens EXCEPT ![t] = Record(ps, now + ttl, 0, FALSE)] /\ minted' = [minted EXCEPT ![t] = now]
  BY DEF CreateAgent, Save
<1> QED
  BY Zenon, <1>1, <1>2, FreshToken DEF Mints, CreateAgent
-----------------------------------------------------------------------------
(* The invariant is preserved, action by action.                           *)

\* A new token disturbs no other token and no request.
LEMMA MintStep ==
  ASSUME IInv, NEW t, Mints(t), UNCHANGED <<now, owned, raced, late, nhi, undone>>,
         job' \in [Workers -> Jobs], \A w \in Workers : job'[w] = job[w] \/ (At(w, "issue") /\ job'[w] = Idle)
  PROVE  IInv'
<1>1. PICK ps \in (SUBSET Policies) \ {{}}, end, max \in Nat, renewable \in BOOLEAN :
         /\ tokens' = [tokens EXCEPT ![t] = Record(ps, end, max, renewable)]
         /\ now <= end /\ end <= now + MaxTokenTTL /\ max <= now + MaxTokenTTL
         /\ renewable => max # 0
  BY Zenon DEF Mints
<1>2. /\ t \in TokenIds /\ t # Root /\ ~Stored(t)
      /\ minted' = [minted EXCEPT ![t] = now]
  BY DEF Mints
<1>3. \A w \in Workers, l \in {"renew", "use", "wipe", "register"} : At(w, l)' => At(w, l) /\ job'[w] = job[w]
  BY DEF At, Idle
<1>4. Shapes'
  BY <1>1, <1>2 DEF IInv, Shapes, Record, Records
<1>5. \A u \in TokenIds : u # t => /\ tokens'[u] = tokens[u] /\ minted'[u] = minted[u]
                                   /\ Stored(u)' = Stored(u) /\ Authenticate(u)' = Authenticate(u)
  BY <1>1, <1>2 DEF IInv, Shapes, Stored, Authenticate, Expired
<1>6. /\ tokens'[t] = Record(ps, end, max, renewable) /\ minted'[t] = now
      /\ Stored(t)'
  BY <1>1, <1>2 DEF IInv, Shapes, Stored, Record
<1>7. \A w \in Workers : At(w, "renew") => job[w].token \in TokenIds /\ job[w].token # t
  BY <1>2 DEF IInv, Shapes, HeldInv, Jobs, Idle, At
<1>8. HeldInv'
  BY <1>3, <1>5, <1>7 DEF IInv, HeldInv
<1>9. LifetimeInv'
  <2>1. EndsBy(tokens[t], t)'
    BY <1>1, <1>6 DEF EndsBy, Record
  <2>2. \A u \in TokenIds \ {Root} : Stored(u)' => EndsBy(tokens[u], u)'
    BY <2>1, <1>5 DEF IInv, LifetimeInv, EndsBy
  <2>3. \A w \in Workers : At(w, "renew")' => (job[w].token # Root /\ EndsBy(job[w].record, job[w].token))'
    BY <1>3, <1>5, <1>7 DEF IInv, LifetimeInv, EndsBy
  <2>4. Stored(Root)' => ~tokens'[Root].renewable
    BY <1>2, <1>5, TokensAssumption DEF IInv, LifetimeInv, TokenIds, Root
  <2> QED
    BY <2>2, <2>3, <2>4 DEF LifetimeInv
<1>10. OwnerInv'
  <2>1. \A u \in owned : u \in TokenIds /\ u # t
    BY Zenon, <1>2 DEF IInv, Shapes, OwnerInv
  <2>2. \A w \in Workers : At(w, "use") => job[w].token \in TokenIds /\ job[w].token # t
    BY <1>2 DEF IInv, Shapes, OwnerInv, Jobs, Idle, At
  <2> QED
    BY <2>1, <2>2, <1>3, <1>5 DEF IInv, OwnerInv
<1>11. RevokedOwnNothing'
  <2>1. \A w \in Workers : At(w, "wipe") => At(w, "wipe")' /\ job'[w] = job[w]
    BY Zenon DEF At
  <2>2. \A u \in owned : u \in TokenIds /\ u # t
    BY <1>2 DEF IInv, Shapes, OwnerInv
  <2> QED
    BY <2>1, <2>2, <1>5 DEF IInv, RevokedOwnNothing
<1>12. IdentityInv'
  BY Zenon, <1>3 DEF IInv, IdentityInv
<1> QED
  BY <1>4, <1>8, <1>9, <1>10, <1>11, <1>12 DEF IInv

\* Steps that change nothing but what workers do, and what no invariant of
\* tokens speaks about.
LEMMA JobStep ==
  ASSUME IInv, NEW w \in Workers, NEW j \in Jobs, job' = [job EXCEPT ![w] = j], ~At(w, "wipe"),
         UNCHANGED <<now, tokens, owned, minted, raced, late>>,
         j.at = "renew" => Authenticate(j.token) /\ ~j.record.revoked /\ j.token # Root /\ EndsBy(j.record, j.token),
         j.at = "use" => Stored(j.token)
  PROVE  Shapes' /\ HeldInv' /\ LifetimeInv' /\ OwnerInv' /\ RevokedOwnNothing'
<1>1. job'[w] = j /\ \A v \in Workers : v # w => job'[v] = job[v]
  BY Zenon DEF IInv, Shapes
<1>2. \A u : Stored(u)' = Stored(u) /\ Authenticate(u)' = Authenticate(u)
  BY Zenon DEF Stored, Authenticate, Expired
<1>3. Shapes'
  BY Zenon DEF IInv, Shapes
<1>4. HeldInv'
  BY <1>1, <1>2 DEF IInv, HeldInv, At, Authenticate
<1>5. LifetimeInv'
  BY Zenon, <1>1, <1>2 DEF IInv, LifetimeInv, EndsBy, At
<1>6. OwnerInv'
  BY Zenon, <1>1, <1>2 DEF IInv, OwnerInv, At
<1>7. RevokedOwnNothing'
  BY <1>1 DEF IInv, RevokedOwnNothing, At
<1> QED
  BY Zenon, <1>3, <1>4, <1>5, <1>6, <1>7

\* Init stores the root token, which is not renewable.
LEMMA RootStep ==
  ASSUME IInv, RegisterRoot, UNCHANGED lvars
  PROVE  IInv'
<1>1. /\ tokens' = [tokens EXCEPT ![Root] = Record({"admin"}, now + RootTTL, 0, FALSE)]
      /\ minted' = [minted EXCEPT ![Root] = now]
      /\ UNCHANGED <<now, owned, job, raced, late, nhi, undone>>
  BY Zenon DEF RegisterRoot, Save, lvars
<1>2. Root \in TokenIds /\ now + RootTTL \in Nat /\ now <= now + RootTTL
  BY TokensAssumption DEF TokenIds, Root, IInv, Shapes
<1>3. Record({"admin"}, now + RootTTL, 0, FALSE) \in Records
  <2>1. {"admin"} \in (SUBSET Policies) \ {{}}
    BY Zenon, TokensAssumption
  <2> QED
    BY Zenon, <1>2, <2>1 DEF Record, Records
<1>4. Shapes'
  BY Zenon, <1>1, <1>2, <1>3 DEF IInv, Shapes
<1>5. \A u \in TokenIds : u # Root => /\ tokens'[u] = tokens[u] /\ minted'[u] = minted[u]
                                      /\ Stored(u)' = Stored(u) /\ Authenticate(u)' = Authenticate(u)
  BY <1>1, <1>2 DEF IInv, Shapes, Stored, Authenticate, Expired
<1>6. /\ tokens'[Root] = Record({"admin"}, now + RootTTL, 0, FALSE)
      /\ Stored(Root)' /\ Authenticate(Root)'
  BY <1>1, <1>2 DEF IInv, Shapes, Stored, Authenticate, Expired, Record
<1>7. \A w \in Workers : At(w, "renew") \/ At(w, "use") => job[w].token \in TokenIds
  BY Zenon, Carried DEF IInv
<1>8. \A w \in Workers : job'[w] = job[w] /\ \A l : At(w, l)' = At(w, l)
  BY <1>1 DEF At
<1>9. HeldInv'
  BY <1>1, <1>5, <1>6, <1>7, <1>8 DEF IInv, HeldInv
<1>10. LifetimeInv'
  BY <1>5, <1>6, <1>7, <1>8 DEF IInv, LifetimeInv, EndsBy, Record
<1>11. OwnerInv'
  BY <1>1, <1>5, <1>6, <1>7, <1>8 DEF IInv, Shapes, OwnerInv
<1>12. RevokedOwnNothing'
  BY <1>1, <1>5, <1>6, <1>8 DEF IInv, Shapes, RevokedOwnNothing, Record
<1>13. IdentityInv'
  BY Zenon, <1>1, <1>8 DEF IInv, IdentityInv
<1> QED
  BY Zenon, <1>4, <1>9, <1>10, <1>11, <1>12, <1>13 DEF IInv

\* Renew writes back the record it read: it cannot reach past the maximum,
\* and revives only what was raced.
LEMMA SaveStep ==
  ASSUME IInv, NEW w \in Workers, RenewSave(w), UNCHANGED lvars
  PROVE  IInv'
<1>0. PICK t \in TokenIds, r \in Records : t = job[w].token /\ r = job[w].record
  BY Zenon, Carried DEF RenewSave, IInv
<1>1. Stored(t) /\ ~r.revoked /\ t # Root /\ EndsBy(r, t)
  BY Zenon, <1>0 DEF RenewSave, IInv, HeldInv, LifetimeInv
<1>2. tokens' = [tokens EXCEPT ![t] = r] \/ tokens' = tokens
  BY Zenon, <1>0 DEF RenewSave, Save
<1>3. /\ job' = [job EXCEPT ![w] = Idle]
      /\ UNCHANGED <<now, owned, minted, late, nhi, undone>>
      /\ raced \subseteq raced' /\ raced' \subseteq raced \cup {t}
  BY Zenon, <1>0 DEF RenewSave, Become, lvars
<1>4. Shapes'
  BY Zenon, <1>1, <1>2, <1>3 DEF IInv, Shapes, Jobs
<1>5. \A u \in TokenIds : u # t => /\ tokens'[u] = tokens[u] /\ minted'[u] = minted[u]
                                   /\ Stored(u)' = Stored(u) /\ Authenticate(u)' = Authenticate(u)
  BY Zenon, <1>1, <1>2, <1>3 DEF IInv, Shapes, Stored, Authenticate, Expired
<1>6. (tokens'[t] = r \/ tokens'[t] = tokens[t]) /\ minted'[t] = minted[t] /\ Stored(t)'
  BY Zenon, <1>1, <1>2, <1>3 DEF IInv, Shapes, Stored, Records
<1>7. job'[w] = Idle /\ \A v \in Workers : v # w => job'[v] = job[v]
  BY Zenon, <1>3 DEF IInv, Shapes
<1>8. \A v \in Workers : \A l \in {"renew", "use", "wipe", "register"} : At(v, l)' => v # w /\ At(v, l) /\ job'[v] = job[v]
  BY <1>7 DEF At, Idle
<1>9. HeldInv'
  <2> SUFFICES ASSUME NEW v \in Workers, At(v, "renew")'
               PROVE  /\ Stored(job[v].token)' /\ ~job'[v].record.revoked
                      /\ Authenticate(job[v].token)' \/ job'[v].token \in raced'
    BY Zenon DEF HeldInv
  <2>1. v # w /\ At(v, "renew") /\ job'[v] = job[v] /\ job[v].token \in TokenIds
    BY Zenon, <1>8, Carried DEF IInv
  <2>2. /\ Stored(job[v].token) /\ ~job[v].record.revoked
        /\ Authenticate(job[v].token) \/ job[v].token \in raced
    BY Zenon, <2>1 DEF IInv, HeldInv
  <2>3. CASE job[v].token # t
    BY Zenon, <2>1, <2>2, <2>3, <1>5, <1>3
  <2>4. CASE job[v].token = t /\ t \in raced
    BY Zenon, <2>1, <2>2, <2>4, <1>6, <1>3
  <2>5. CASE job[v].token = t /\ Authenticate(t)
    <3>1. Holders(t) # {w}
      BY Zenon, <1>0, <2>1, <2>5 DEF Holders
    <3>2. CASE tokens'[t].expires < now
      BY Zenon, <1>0, <2>1, <2>2, <2>5, <3>1, <3>2, <1>6 DEF RenewSave
    <3>3. CASE ~(tokens'[t].expires < now)
      <4>1. ~tokens'[t].revoked
        BY Zenon, <1>1, <1>6, <2>5 DEF Authenticate
      <4>2. tokens'[t].expires \in Nat /\ now' = now /\ now \in Nat
        BY <1>1, <1>3, <1>6 DEF IInv, Shapes, Stored, Records, Absent
      <4>3. ~(now' > tokens'[t].expires)
        BY Zenon, <4>2, <3>3
      <4> QED
        BY Zenon, <2>1, <2>2, <2>5, <1>6, <4>1, <4>3 DEF Authenticate, Expired
    <3> QED
      BY Zenon, <3>2, <3>3
  <2> QED
    BY Zenon, <2>2, <2>3, <2>4, <2>5
<1>10. LifetimeInv'
  <2>1. \A u \in TokenIds \ {Root} : Stored(u)' => EndsBy(tokens[u], u)'
    BY <1>1, <1>5, <1>6 DEF IInv, LifetimeInv, EndsBy
  <2>2. \A v \in Workers : At(v, "renew") => job[v].token \in TokenIds
    BY Zenon, Carried DEF IInv
  <2>3. \A v \in Workers : At(v, "renew")' => (job[v].token # Root /\ EndsBy(job[v].record, job[v].token))'
    BY Zenon, <1>3, <1>8, <2>2 DEF IInv, LifetimeInv, EndsBy
  <2>4. Stored(Root)' => ~tokens'[Root].renewable
    BY <1>1, <1>5, TokensAssumption DEF IInv, LifetimeInv, TokenIds, Root
  <2> QED
    BY Zenon, <2>1, <2>3, <2>4 DEF LifetimeInv
<1>11. OwnerInv'
  <2>1. \A v \in Workers : At(v, "use") => job[v].token \in TokenIds
    BY Zenon, Carried DEF IInv
  <2> QED
    BY Zenon, <2>1, <1>3, <1>5, <1>6, <1>8 DEF IInv, Shapes, OwnerInv
<1>12. RevokedOwnNothing'
  <2>1. \A v \in Workers : At(v, "wipe") => At(v, "wipe")' /\ job'[v] = job[v]
    BY Zenon, <1>7 DEF At, RenewSave
  <2> QED
    BY <2>1, <1>1, <1>3, <1>5, <1>6 DEF IInv, Shapes, RevokedOwnNothing
<1>13. IdentityInv'
  BY Zenon, <1>3, <1>8 DEF IInv, IdentityInv
<1> QED
  BY Zenon, <1>4, <1>9, <1>10, <1>11, <1>12, <1>13 DEF IInv

\* A request stores its entry under a token that may be revoked by now
\* (late).
LEMMA PutStep ==
  ASSUME IInv, NEW w \in Workers, Put(w), UNCHANGED lvars
  PROVE  IInv'
<1> DEFINE t == job[w].token
<1>1. /\ t \in TokenIds /\ Stored(t)
      /\ owned' = owned \cup {t} /\ job' = [job EXCEPT ![w] = Idle]
      /\ late' = IF tokens[t].revoked THEN late \cup {t} ELSE late
      /\ UNCHANGED <<now, tokens, minted, raced, nhi, undone>>
  BY Zenon, Carried DEF Put, Become, lvars, IInv, OwnerInv
<1>2. job'[w] = Idle /\ \A v \in Workers : v # w => job'[v] = job[v]
  BY Zenon, <1>1 DEF IInv, Shapes
<1>3. \A v \in Workers : \A l \in {"renew", "use", "register"} : At(v, l)' => At(v, l) /\ job'[v] = job[v]
  BY <1>2 DEF At, Idle
<1>4. \A v \in Workers : At(v, "wipe") => At(v, "wipe")' /\ job'[v] = job[v]
  BY Zenon, <1>2 DEF At, Put
<1>5. \A u : Stored(u)' = Stored(u) /\ Authenticate(u)' = Authenticate(u)
  BY Zenon, <1>1 DEF Stored, Authenticate, Expired
<1>6. Shapes'
  BY Zenon, <1>1 DEF IInv, Shapes, Jobs
<1>7. HeldInv' /\ LifetimeInv' /\ IdentityInv'
  <2>1. HeldInv'
    BY <1>1, <1>3, <1>5 DEF IInv, HeldInv
  <2>2. LifetimeInv'
    BY Zenon, <1>1, <1>3, <1>5 DEF IInv, LifetimeInv, EndsBy
  <2>3. IdentityInv'
    BY Zenon, <1>1, <1>3 DEF IInv, IdentityInv
  <2> QED
    BY <2>1, <2>2, <2>3
<1>8. OwnerInv'
  BY Zenon, <1>1, <1>3, <1>5 DEF IInv, OwnerInv
<1>9. RevokedOwnNothing'
  BY <1>1, <1>4 DEF IInv, RevokedOwnNothing
<1> QED
  BY Zenon, <1>6, <1>7, <1>8, <1>9 DEF IInv

\* Revoke removes what the token owns.
LEMMA WipeStep ==
  ASSUME IInv, NEW w \in Workers, Wipe(w), UNCHANGED lvars
  PROVE  IInv'
<1> DEFINE t == job[w].token
<1>1. /\ owned' = owned \ {t} /\ job' = [job EXCEPT ![w] = Idle]
      /\ UNCHANGED <<now, tokens, minted, raced, late, nhi, undone>>
  BY DEF Wipe, Become, lvars
<1>2. job'[w] = Idle /\ \A v \in Workers : v # w => job'[v] = job[v]
  BY <1>1 DEF IInv, Shapes
<1>3. \A v \in Workers : \A l \in {"renew", "use", "register"} : At(v, l)' => At(v, l) /\ job'[v] = job[v]
  BY <1>2 DEF At, Idle
<1>4. \A v \in Workers : v # w /\ At(v, "wipe") => At(v, "wipe")' /\ job'[v] = job[v]
  BY <1>2 DEF At
<1>5. \A u : Stored(u)' = Stored(u) /\ Authenticate(u)' = Authenticate(u)
  BY Zenon, <1>1 DEF Stored, Authenticate, Expired
<1>6. Shapes'
  BY Zenon, <1>1 DEF IInv, Shapes, Jobs
<1>7. HeldInv' /\ LifetimeInv' /\ IdentityInv'
  <2>1. HeldInv'
    BY <1>1, <1>3, <1>5 DEF IInv, HeldInv
  <2>2. LifetimeInv'
    BY Zenon, <1>1, <1>3, <1>5 DEF IInv, LifetimeInv, EndsBy
  <2>3. IdentityInv'
    BY Zenon, <1>1, <1>3 DEF IInv, IdentityInv
  <2> QED
    BY <2>1, <2>2, <2>3
<1>8. OwnerInv'
  BY Zenon, <1>1, <1>3, <1>5 DEF IInv, OwnerInv
<1>9. RevokedOwnNothing'
  BY <1>1, <1>4 DEF IInv, RevokedOwnNothing
<1> QED
  BY <1>6, <1>7, <1>8, <1>9 DEF IInv

\* Revoke marks the token; a renewal that holds its record makes it raced.
LEMMA RevokeStep ==
  ASSUME IInv, NEW w \in Workers, NEW t \in TokenIds, RevokeToken(w, t), UNCHANGED lvars
  PROVE  IInv'
<1>1. /\ tokens' = [tokens EXCEPT ![t] = [tokens[t] EXCEPT !.revoked = TRUE, !.expires = now]]
      /\ job' = [job EXCEPT ![w] = [at |-> "wipe", token |-> t]]
      /\ raced' = IF Holders(t) # {} THEN raced \cup {t} ELSE raced
      /\ UNCHANGED <<now, owned, minted, late, nhi, undone>>
      /\ Authenticate(t) /\ At(w, "idle")
  BY DEF RevokeToken, Revoke, Save, Become, lvars
<1>2. tokens[t] \in Records /\ now <= tokens[t].expires /\ now \in Nat
  BY <1>1 DEF Authenticate, Stored, Expired, IInv, Shapes, Records, Absent
<1>3. /\ tokens'[t] \in Records /\ tokens'[t].expires = now
      /\ tokens'[t].max = tokens[t].max /\ tokens'[t].renewable = tokens[t].renewable
      /\ Stored(t)' /\ minted'[t] = minted[t]
  BY Zenon, <1>1, <1>2 DEF IInv, Shapes, Records, Stored
<1>4. \A u \in TokenIds : u # t => /\ tokens'[u] = tokens[u] /\ minted'[u] = minted[u]
                                   /\ Stored(u)' = Stored(u) /\ Authenticate(u)' = Authenticate(u)
  BY <1>1 DEF IInv, Shapes, Stored, Authenticate, Expired
<1>5. Shapes'
  <2>1. tokens' \in [TokenIds -> Records \cup {Absent}]
    BY <1>1, <1>3 DEF IInv, Shapes
  <2>2. job' \in [Workers -> Jobs]
    BY <1>1 DEF IInv, Shapes, Jobs
  <2> QED
    BY <1>1, <2>1, <2>2 DEF IInv, Shapes
<1>6. job'[w] = [at |-> "wipe", token |-> t] /\ \A v \in Workers : v # w => job'[v] = job[v]
  BY <1>1 DEF IInv, Shapes
<1>7. \A v \in Workers : \A l \in {"renew", "use", "register"} : At(v, l)' => At(v, l) /\ job'[v] = job[v]
  BY <1>6 DEF At
<1>8. \A v \in Workers : At(v, "wipe") => At(v, "wipe")' /\ job'[v] = job[v]
  BY Zenon, <1>1, <1>6 DEF At
<1>9. \A v \in Workers : At(v, "renew") \/ At(v, "use") => job[v].token \in TokenIds
  BY Zenon, Carried DEF IInv
<1>10. HeldInv'
  <2>1. \A v \in Workers : At(v, "renew") /\ job[v].token = t => t \in raced'
    BY Zenon, <1>1 DEF Holders
  <2> QED
    BY <2>1, <1>1, <1>3, <1>4, <1>7, <1>9 DEF IInv, HeldInv
<1>11. LifetimeInv'
  <2>1. t # Root => EndsBy(tokens[t], t)'
    <3>1. t # Root => EndsBy(tokens[t], t)
      BY Zenon, <1>1 DEF IInv, LifetimeInv, Authenticate
    <3>2. minted[t] + MaxTokenTTL \in Nat /\ tokens[t].expires \in Nat
      BY <1>2, TokensAssumption DEF IInv, Shapes, Records
    <3> QED
      BY <3>1, <3>2, <1>2, <1>3 DEF EndsBy
  <2>2. \A u \in TokenIds \ {Root} : Stored(u)' => EndsBy(tokens[u], u)'
    BY Zenon, <2>1, <1>4 DEF IInv, LifetimeInv, EndsBy
  <2>3. \A v \in Workers : At(v, "renew")' => (job[v].token # Root /\ EndsBy(job[v].record, job[v].token))'
    BY Zenon, <1>1, <1>7, <1>9 DEF IInv, LifetimeInv, EndsBy
  <2>4. Stored(Root)' => ~tokens'[Root].renewable
    BY <1>1, <1>3, <1>4, TokensAssumption DEF IInv, LifetimeInv, TokenIds, Root, Authenticate
  <2> QED
    BY Zenon, <2>2, <2>3, <2>4 DEF LifetimeInv
<1>12. OwnerInv'
  BY <1>1, <1>3, <1>4, <1>7, <1>9 DEF IInv, Shapes, OwnerInv
<1>13. RevokedOwnNothing'
  <2>1. At(w, "wipe")' /\ job'[w].token = t
    BY <1>6 DEF At
  <2>2. owned' = owned /\ late' = late /\ owned \subseteq TokenIds
    BY Zenon, <1>1 DEF IInv, Shapes
  <2>3. ASSUME NEW u \in owned', u # t
        PROVE  ~tokens'[u].revoked \/ u \in late' \/ \E v \in Workers : At(v, "wipe")' /\ job'[v].token = u
    <3>1. u \in owned /\ tokens'[u] = tokens[u]
      BY Zenon, <1>4, <2>2, <2>3
    <3>2. ~tokens[u].revoked \/ u \in late \/ \E v \in Workers : At(v, "wipe") /\ job[v].token = u
      BY Zenon, <3>1 DEF IInv, RevokedOwnNothing
    <3> QED
      BY Zenon, <1>8, <2>2, <3>1, <3>2
  <2> QED
    BY Zenon, <1>1, <2>1, <2>3 DEF RevokedOwnNothing
<1>14. IdentityInv'
  BY Zenon, <1>1, <1>7 DEF IInv, IdentityInv
<1> QED
  BY <1>5, <1>10, <1>11, <1>12, <1>13, <1>14 DEF IInv

\* A token that expires while a renewal holds its record is raced.
LEMMA SecondStep ==
  ASSUME IInv, Second
  PROVE  IInv'
<1>1. /\ now' = now + 1 /\ raced \subseteq raced'
      /\ raced' = raced \cup {t \in TokenIds : Authenticate(t) /\ tokens[t].expires = now /\ Holders(t) # {}}
      /\ UNCHANGED <<tokens, owned, job, minted, late, nhi, undone>>
  BY Zenon DEF Second, Tick
<1>2. \A w \in Workers : job'[w] = job[w] /\ \A l : At(w, l)' = At(w, l)
  BY Zenon, <1>1 DEF At
<1>3. \A u : Stored(u)' = Stored(u)
  BY Zenon, <1>1 DEF Stored
<1>4. Shapes'
  BY <1>1 DEF IInv, Shapes
<1>5. HeldInv'
  <2> SUFFICES ASSUME NEW w \in Workers, At(w, "renew")
               PROVE  /\ Stored(job[w].token)' /\ ~job'[w].record.revoked
                      /\ Authenticate(job[w].token)' \/ job'[w].token \in raced'
    BY Zenon, <1>2 DEF HeldInv
  <2>1. PICK t \in TokenIds : t = job[w].token
    BY Zenon, Carried DEF IInv
  <2>2. Stored(t) /\ ~job[w].record.revoked /\ (Authenticate(t) \/ t \in raced)
    BY Zenon, <2>1 DEF IInv, HeldInv
  <2>3. CASE t \in raced
    BY Zenon, <1>1, <1>2, <1>3, <2>1, <2>2, <2>3
  <2>4. CASE Authenticate(t) /\ tokens[t].expires = now
    <3>1. Holders(t) # {}
      BY Zenon, <2>1 DEF Holders
    <3> QED
      BY Zenon, <1>1, <1>2, <1>3, <2>1, <2>2, <2>4, <3>1
  <2>5. CASE Authenticate(t) /\ tokens[t].expires # now
    <3>1. tokens[t].expires \in Nat /\ now \in Nat
      BY <2>2 DEF IInv, Shapes, Stored, Records, Absent
    <3>2. ~(now + 1 > tokens[t].expires)
      BY <3>1, <2>5 DEF Authenticate, Expired
    <3>3. Authenticate(t)'
      BY Zenon, <3>2, <2>5, <1>1 DEF Authenticate, Stored, Expired
    <3> QED
      BY Zenon, <1>1, <1>2, <1>3, <2>1, <2>2, <3>3
  <2> QED
    BY Zenon, <2>2, <2>3, <2>4, <2>5
<1>6. LifetimeInv'
  BY Zenon, <1>1, <1>2, <1>3 DEF IInv, LifetimeInv, EndsBy
<1>7. OwnerInv' /\ RevokedOwnNothing'
  <2>1. OwnerInv'
    BY Zenon, <1>1, <1>2, <1>3 DEF IInv, OwnerInv
  <2>2. RevokedOwnNothing'
    BY Zenon, <1>1 DEF IInv, RevokedOwnNothing, At
  <2> QED
    BY <2>1, <2>2
<1>8. IdentityInv'
  BY <1>1, <1>2, <1>3 DEF IInv, IdentityInv
<1> QED
  BY Zenon, <1>4, <1>5, <1>6, <1>7, <1>8 DEF IInv

\* Renew read a live record and extended its copy up to the maximum.
LEMMA RenewStep ==
  ASSUME IInv, NEW w \in Workers, NEW t \in TokenIds, RenewToken(w, t), UNCHANGED lvars
  PROVE  IInv'
<1>1. PICK ask \in Requests : Renew(w, t, ask)
  BY DEF RenewToken
<1>2. /\ At(w, "idle") /\ Authenticate(t) /\ tokens[t].renewable
      /\ tokens[t] \in Records
  <2>1. At(w, "idle") /\ Authenticate(t) /\ tokens[t].renewable
    BY <1>1 DEF RenewToken, Renew
  <2>2. tokens[t] # Absent
    BY <2>1 DEF Authenticate, Stored, Absent
  <2>3. tokens[t] \in Records \cup {Absent}
    BY DEF IInv, Shapes
  <2> QED BY <2>1, <2>2, <2>3
<1>3. t # Root /\ EndsBy(tokens[t], t) /\ tokens[t].max # 0
  BY Zenon, <1>2 DEF IInv, LifetimeInv, EndsBy, Authenticate
<1>4. PICK end \in Nat : /\ end <= tokens[t].max
                         /\ Hold(w, t, end)
  <2>1. now + Increment(ask) \in Nat /\ tokens[t].max \in Nat
    BY <1>2, TokensAssumption DEF Increment, Least, IInv, Shapes, Records
  <2> QED
    BY <1>1, <1>3, <2>1 DEF Renew, Least
<1> DEFINE j == [at |-> "renew", token |-> t, record |-> [tokens[t] EXCEPT !.expires = end]]
<1>5. job' = [job EXCEPT ![w] = j] /\ UNCHANGED <<now, tokens, owned, minted, raced, late, nhi, undone>>
  BY Zenon, <1>4 DEF Hold, Become, lvars
<1>6. j.record \in Records /\ j \in Jobs
  BY Zenon, <1>2 DEF Records, Jobs
<1>7. ~j.record.revoked /\ EndsBy(j.record, t)
  <2>1. minted[t] + MaxTokenTTL \in Nat /\ tokens[t].max \in Nat
    BY <1>2, TokensAssumption DEF IInv, Shapes, Records
  <2> QED
    BY <2>1, <1>2, <1>3, <1>4 DEF EndsBy, Authenticate, Records
<1>8. Shapes' /\ HeldInv' /\ LifetimeInv' /\ OwnerInv' /\ RevokedOwnNothing'
  BY Zenon, <1>2, <1>3, <1>5, <1>6, <1>7, JobStep DEF At
<1>9. IdentityInv'
  BY <1>5 DEF IInv, Shapes, IdentityInv, At
<1> QED
  BY <1>8, <1>9 DEF IInv

\* A request of a live token starts to store an entry.
LEMMA EnterStep ==
  ASSUME IInv, NEW w \in Workers, NEW t \in TokenIds, Enter(w, t), UNCHANGED lvars
  PROVE  IInv'
<1> DEFINE j == [at |-> "use", token |-> t]
<1>1. /\ job' = [job EXCEPT ![w] = j] /\ UNCHANGED <<now, tokens, owned, minted, raced, late, nhi, undone>>
      /\ At(w, "idle") /\ Stored(t)
  BY DEF Enter, Become, lvars, Authenticate
<1>2. j \in Jobs
  BY DEF Jobs
<1>3. Shapes' /\ HeldInv' /\ LifetimeInv' /\ OwnerInv' /\ RevokedOwnNothing'
  BY Zenon, <1>1, <1>2, JobStep DEF At
<1>4. IdentityInv'
  BY <1>1 DEF IInv, Shapes, IdentityInv, At
<1> QED
  BY <1>3, <1>4 DEF IInv

\* The steps of a login before the token: only the machine identity and the
\* lockout change.
LEMMA LoginStep ==
  ASSUME IInv, NEW w \in Workers,
         (\E m \in Methods : Login(w, m)) \/ Check(w) \/ Identify(w) \/ Register(w)
  PROVE  IInv'
<1> DEFINE Steps == [at : {"login", "accepted", "register", "issue"}, method : Methods]
<1>1. PICK j \in Jobs : /\ job' = [job EXCEPT ![w] = j] /\ j \in {Idle} \cup Steps
                        /\ j.at = "register" => nhi = "active" /\ nhi' = nhi
  <2>1. At(w, "login") \/ At(w, "accepted") \/ At(w, "register") => job[w].method \in Methods
    BY Zenon, Carried DEF IInv
  <2> DEFINE m == job[w].method
  <2>2. Idle \in Jobs /\ Steps \subseteq Jobs /\ Idle.at # "register"
    BY DEF Jobs, Idle
  <2>3. CASE \E n \in Methods : Login(w, n)
    <3>1. PICK n \in Methods : job' = [job EXCEPT ![w] = [at |-> "login", method |-> n]]
      BY Zenon, <2>3 DEF Login, Become
    <3>2. [at |-> "login", method |-> n] \in Steps
      OBVIOUS
    <3> QED
      BY Zenon, <3>1, <3>2, <2>2
  <2>4. CASE Check(w)
    <3>1. /\ m \in Methods
          /\ \/ job' = [job EXCEPT ![w] = [at |-> "accepted", method |-> m]]
             \/ job' = [job EXCEPT ![w] = Idle]
      BY Zenon, <2>1, <2>4 DEF Check, Become
    <3> QED
      BY <3>1, <2>2
  <2>5. CASE Identify(w)
    <3>1. \/ job' = [job EXCEPT ![w] = [at |-> "issue", method |-> m]]
          \/ job' = [job EXCEPT ![w] = [at |-> "register", method |-> m]] /\ nhi = "active"
          \/ job' = [job EXCEPT ![w] = Idle]
      BY Zenon, <2>5 DEF Identify, Become
    <3>2. nhi' = nhi /\ m \in Methods
      BY <2>1, <2>5 DEF Identify, lvars
    <3> QED
      BY <3>1, <3>2, <2>2
  <2>6. CASE Register(w)
    <3>1. m \in Methods /\ job' = [job EXCEPT ![w] = [at |-> "issue", method |-> m]]
      BY <2>1, <2>6 DEF Register, Become
    <3>2. [at |-> "issue", method |-> m] \in Steps
      BY <3>1
    <3> QED
      BY Zenon, <3>1, <3>2, <2>2
  <2> QED
    BY <2>3, <2>4, <2>5, <2>6
<1>2. /\ UNCHANGED <<now, tokens, owned, minted, raced, late, undone>>
      /\ ~At(w, "wipe") /\ (nhi' = nhi \/ nhi' = "active")
  BY Zenon DEF Login, Check, Identify, Register, lvars, At
<1>3. j.at # "renew" /\ j.at # "use"
  BY <1>1 DEF Idle
<1>4. Shapes' /\ HeldInv' /\ LifetimeInv' /\ OwnerInv' /\ RevokedOwnNothing'
  BY Zenon, <1>1, <1>2, <1>3, JobStep
<1>5. IdentityInv'
  BY <1>1, <1>2 DEF IInv, Shapes, IdentityInv, At
<1> QED
  BY <1>4, <1>5 DEF IInv

\* A request creates a client token.
LEMMA CreateStep ==
  ASSUME IInv, NEW w \in Workers, NEW t \in TokenIds, CreateToken(w, t), UNCHANGED lvars
  PROVE  Mints(t) /\ IInv'
<1>1. PICK ask \in Requests, renewable \in BOOLEAN, p \in Policies :
         ServiceCreate(t, {p}, IF ask = 0 THEN TokenTTL ELSE ask, renewable)
  BY Zenon DEF CreateToken
<1>2. PICK ttl \in Nat \ {0} : ttl <= MaxTokenTTL /\ Create(t, {p}, ttl, renewable, now + ttl)
  <2>1. ask \in Nat
    BY TokensAssumption
  <2> QED
    BY <1>1, <2>1, TokensAssumption DEF ServiceCreate, Least
<1>3. Mints(t)
  <2>1. {p} \in (SUBSET Policies) \ {{}} /\ Fresh(t)
    BY <1>2 DEF Create
  <2> QED
    BY <1>2, <2>1, CreateMints DEF IInv
<1>4. UNCHANGED <<now, owned, raced, late, nhi, undone, job>>
  BY Zenon DEF CreateToken, lvars
<1>5. job' \in [Workers -> Jobs] /\ \A v \in Workers : job'[v] = job[v]
  BY Zenon, <1>4 DEF IInv, Shapes
<1> QED
  BY <1>3, <1>4, <1>5, MintStep

\* A client with a live token creates an agent token.
LEMMA DelegateStep ==
  ASSUME IInv, NEW w \in Workers, NEW p \in TokenIds, NEW t \in TokenIds, DelegateAgent(w, p, t), UNCHANGED lvars
  PROVE  Mints(t) /\ IInv'
<1>1. PICK wanted \in (SUBSET Policies) \ {{}}, ask \in Requests :
         CreateAgent(t, wanted, Least(IF ask = 0 THEN TokenTTL ELSE ask, AgentTTL))
  BY Zenon DEF DelegateAgent
<1>2. PICK ttl \in Nat : ttl <= MaxTokenTTL /\ CreateAgent(t, wanted, ttl)
  <2>1. ask \in Nat
    BY Zenon, TokensAssumption
  <2> QED
    BY <1>1, <2>1, TokensAssumption DEF Least
<1>3. Mints(t)
  BY Zenon, <1>2, AgentMints DEF IInv
<1>4. UNCHANGED <<now, owned, raced, late, nhi, undone, job>>
  BY Zenon DEF DelegateAgent, lvars
<1>5. job' \in [Workers -> Jobs] /\ \A v \in Workers : job'[v] = job[v]
  BY Zenon, <1>4 DEF IInv, Shapes
<1> QED
  BY Zenon, <1>3, <1>4, <1>5, MintStep

\* A login that was accepted creates its token.
LEMMA GrantStep ==
  ASSUME IInv, NEW w \in Workers, Grant(w)
  PROVE  /\ IInv'
         /\ UNCHANGED <<now, raced>>
         /\ UNCHANGED tokens \/ \E t \in TokenIds : Mints(t)
<1>1. /\ At(w, "issue") /\ job' = [job EXCEPT ![w] = Idle]
      /\ UNCHANGED <<now, owned, raced, late, nhi, undone>>
  BY Zenon DEF Grant, Become
<1>2. UNCHANGED <<tokens, minted>> \/ \E t \in TokenIds : Issue(t, Policies)
  BY Zenon DEF Grant
<1>3. job' \in [Workers -> Jobs] /\ \A v \in Workers : job'[v] = job[v] \/ (At(v, "issue") /\ job'[v] = Idle)
  BY Zenon, <1>1 DEF IInv, Shapes, Jobs
<1>4. CASE UNCHANGED <<tokens, minted>>
  <2>1. Idle \in Jobs /\ Idle.at = "idle" /\ ~At(w, "wipe")
    BY Zenon, <1>1 DEF Jobs, Idle, At
  <2>2. Shapes' /\ HeldInv' /\ LifetimeInv' /\ OwnerInv' /\ RevokedOwnNothing'
    BY Zenon, <1>1, <1>4, <2>1, JobStep
  <2>3. IdentityInv'
    BY <1>1, <2>1 DEF IInv, Shapes, IdentityInv, At
  <2> QED
    BY Zenon, <1>1, <1>4, <2>2, <2>3 DEF IInv
<1>5. CASE \E t \in TokenIds : Issue(t, Policies)
  <2>1. PICK t \in TokenIds : Create(t, Policies, TokenTTL, TRUE, now + TokenTTL)
    BY Zenon, <1>5 DEF Issue
  <2>2. Policies \in (SUBSET Policies) \ {{}} /\ Fresh(t)
    BY <2>1, TokensAssumption DEF Create
  <2>3. Mints(t)
    BY Zenon, <2>1, <2>2, TokensAssumption, CreateMints DEF IInv
  <2> QED
    BY <2>3, <1>1, <1>3, MintStep
<1> QED
  BY Zenon, <1>2, <1>4, <1>5

\* The lockout, the cache server and the record of a machine identity.
LEMMA AsideStep ==
  ASSUME IInv, ClearLockout \/ RevokeIdentity \/ Outage
  PROVE  IInv'
<1>1. UNCHANGED <<now, tokens, owned, job, minted, raced, late>>
  BY DEF ClearLockout, RevokeIdentity, Outage, tvars
<1>2. Shapes'
  BY <1>1 DEF IInv, Shapes
<1>3. \A u : Stored(u)' = Stored(u) /\ Authenticate(u)' = Authenticate(u)
  BY <1>1 DEF Stored, Authenticate, Expired
<1>4. \A w, l : At(w, l)' = At(w, l)
  BY <1>1 DEF At
<1>5. HeldInv' /\ LifetimeInv' /\ OwnerInv' /\ RevokedOwnNothing'
  BY Zenon, <1>1, <1>3, <1>4 DEF IInv, HeldInv, LifetimeInv, EndsBy, OwnerInv, RevokedOwnNothing
<1>6. IdentityInv'
  BY Zenon, <1>4 DEF ClearLockout, RevokeIdentity, Outage, IInv, IdentityInv
<1> QED
  BY <1>2, <1>5, <1>6 DEF IInv

\* Every step keeps the invariant.
LEMMA Preserved == IInv /\ [Next]_vars => IInv'
<1> SUFFICES ASSUME IInv, [Next]_vars PROVE IInv'
  OBVIOUS
<1>1. CASE Second
  BY <1>1, SecondStep
<1>2. CASE LoginsNext
  BY <1>2, AsideStep, LoginStep, GrantStep DEF LoginsNext
<1>3. CASE TokenSteps
  BY <1>3, RootStep, SaveStep, PutStep, WipeStep, CreateStep, RenewStep, EnterStep, RevokeStep, DelegateStep
  DEF TokenSteps
<1>4. CASE UNCHANGED vars
  <2>1. UNCHANGED <<now, tokens, owned, job, minted, raced, late, nhi, undone>>
    BY <1>4 DEF vars, tvars, lvars
  <2>2. Shapes' /\ IdentityInv'
    BY Zenon, <2>1 DEF IInv, Shapes, IdentityInv, At
  <2>3. HeldInv'
    BY Zenon, <2>1 DEF IInv, HeldInv, At, Stored, Authenticate, Expired
  <2>4. LifetimeInv'
    BY Zenon, <2>1 DEF IInv, LifetimeInv, EndsBy, At, Stored
  <2>5. OwnerInv' /\ RevokedOwnNothing'
    BY Zenon, <2>1 DEF IInv, OwnerInv, RevokedOwnNothing, At, Stored
  <2> QED
    BY Zenon, <2>2, <2>3, <2>4, <2>5 DEF IInv
<1> QED
  BY <1>1, <1>2, <1>3, <1>4 DEF Next
-----------------------------------------------------------------------------
\* The inductive invariant holds in every state: the types, what a login or
\* renewal in progress may still write, who owns what, and how long a record
\* can last.
THEOREM Inductive == Spec => []IInv
  BY Initially, Preserved, PTL DEF Spec

\* No renewal, whatever overlaps it, keeps a client token alive past
\* MaxClientTokenTTL after it was issued (Create, Renew).
THEOREM MaxLifetimeAlways == Spec => []MaxLifetime
<1>1. IInv => MaxLifetime
  <2> SUFFICES ASSUME IInv, NEW t \in TokenIds \ {Root}, Authenticate(t)
               PROVE  now <= minted[t] + MaxTokenTTL
    BY DEF MaxLifetime
  <2>1. now <= tokens[t].expires /\ tokens[t].expires <= minted[t] + MaxTokenTTL
    <3>1. EndsBy(tokens[t], t) /\ ~(now > tokens[t].expires)
      BY Zenon DEF Authenticate, Expired, IInv, LifetimeInv
    <3>2. tokens[t].expires \in Nat /\ now \in Nat
      BY DEF Authenticate, Stored, IInv, Shapes, Records, Absent
    <3> QED
      BY <3>1, <3>2 DEF EndsBy
  <2>2. tokens[t].expires \in Nat /\ minted[t] + MaxTokenTTL \in Nat /\ now \in Nat
    BY TokensAssumption DEF Authenticate, Stored, IInv, Shapes, Records, Absent
  <2>3. \A a, b, c \in Nat : a <= b /\ b <= c => a <= c
    OBVIOUS
  <2> QED
    BY <2>1, <2>2, <2>3, Zenon
<1> QED
  BY <1>1, Inductive, PTL

\* A revoked token owns nothing once its revocation is through, unless a
\* request let in before stored for it afterwards (RevokeToken, WipeToken).
THEOREM RevokedOwnNothingAlways == Spec => []RevokedOwnNothing
<1>1. IInv => RevokedOwnNothing
  BY DEF IInv
<1> QED
  BY <1>1, Inductive, PTL

\* Only a login that was past its check when the identity was revoked puts
\* a revoked identity back (IsRevoked, UpsertFromLogin).
THEOREM RevocationStandsAlways == Spec => RevocationStands
<1>1. IInv /\ [Next]_vars => [nhi = "revoked" /\ nhi' # "revoked" => undone]_vars
  <2> SUFFICES ASSUME IInv, Next, nhi = "revoked", nhi' # "revoked" PROVE undone
    BY Zenon
  <2>1. PICK w \in Workers : Register(w)
    BY Zenon DEF Next, Second, LoginsNext, TokenSteps, ClearLockout, RevokeIdentity, Outage, Login, Check, Identify, Grant, lvars
  <2> QED
    BY Zenon, <2>1 DEF Register, IInv, IdentityInv
<1> QED
  BY <1>1, Inductive, PTL DEF Spec, RevocationStands
-----------------------------------------------------------------------------
(* The refinement: every step is a step of TokenLife or changes nothing    *)
(* that it sees.                                                           *)

\* The phase of a token, from what is stored.
LEMMA PhaseIs ==
  ASSUME NEW t \in TokenIds
  PROVE  /\ Phase(t) = IF ~Stored(t) THEN "unborn" ELSE IF Authenticate(t) THEN "live" ELSE "dead"
         /\ Phase(t)' = IF ~Stored(t)' THEN "unborn" ELSE IF Authenticate(t)' THEN "live" ELSE "dead"
  BY DEF Phase

\* A step that changes no phase is a stutter of the abstract life.
LEMMA Stutters ==
  ASSUME raced' = raced, \A t \in TokenIds : Phase(t)' = Phase(t)
  PROVE  UNCHANGED Life!life
  BY DEF Life!life

\* A new live token is a birth.
LEMMA Bears ==
  ASSUME NEW t \in TokenIds, raced' = raced, Phase(t) = "unborn", Phase(t)' = "live",
         \A u \in TokenIds : u # t => Phase(u)' = Phase(u)
  PROVE  Life!LifeNext
<1> DEFINE phase == [u \in TokenIds |-> Phase(u)]
<1>1. phase' = [phase EXCEPT ![t] = "live"]
  BY Zenon
<1>2. Life!Born(t)
  BY <1>1 DEF Life!Born
<1> QED
  BY <1>2 DEF Life!LifeNext

\* A dead token that lives again was raced.
LEMMA Revives ==
  ASSUME NEW t \in TokenIds, raced' = raced, Phase(t) = "dead", Phase(t)' = "live", t \in raced \cup {Root},
         \A u \in TokenIds : u # t => Phase(u)' = Phase(u)
  PROVE  Life!LifeNext
<1> DEFINE phase == [u \in TokenIds |-> Phase(u)]
<1>1. phase' = [phase EXCEPT ![t] = "live"]
  BY Zenon
<1>2. Life!Revive(t)
  BY <1>1 DEF Life!Revive
<1> QED
  BY <1>2 DEF Life!LifeNext

\* A live token that is dead now died.
LEMMA Dies ==
  ASSUME NEW t \in TokenIds, Phase(t)' # Phase(t), raced \subseteq raced',
         \A u \in TokenIds : Phase(u)' = Phase(u) \/ (Phase(u) = "live" /\ Phase(u)' = "dead"),
         \A u \in raced' \ raced : u \in TokenIds /\ Phase(u)' = "dead"
  PROVE  Life!LifeNext
<1> DEFINE phase == [u \in TokenIds |-> Phase(u)]
<1>1. phase' # phase
  <2>1. phase'[t] # phase[t]
    OBVIOUS
  <2> QED
    BY <2>1
<1>2. Life!Die
  BY <1>1 DEF Life!Die
<1> QED
  BY <1>2 DEF Life!LifeNext

\* A step that leaves the store alone changes no phase.
LEMMA SameTokens ==
  ASSUME UNCHANGED <<now, tokens, raced>>
  PROVE  UNCHANGED Life!life
<1>1. \A t \in TokenIds : Phase(t)' = Phase(t)
  BY PhaseIs DEF Stored, Authenticate, Expired
<1> QED
  BY <1>1, Stutters

\* Creating a token is a birth.
LEMMA MintLives ==
  ASSUME IInv, NEW t, Mints(t), UNCHANGED <<now, raced>>
  PROVE  Life!LifeNext
<1>1. PICK ps \in (SUBSET Policies) \ {{}}, end, max \in Nat, renewable \in BOOLEAN :
         tokens' = [tokens EXCEPT ![t] = Record(ps, end, max, renewable)] /\ now <= end
  BY Zenon DEF Mints
<1>2. t \in TokenIds /\ ~Stored(t)
  BY DEF Mints
<1>3. tokens'[t] = Record(ps, end, max, renewable) /\ now' = now /\ now \in Nat
  BY <1>1, <1>2 DEF IInv, Shapes
<1>4. Stored(t)' /\ Authenticate(t)'
  BY <1>1, <1>3 DEF Stored, Authenticate, Expired, Record
<1>5. \A u \in TokenIds : u # t => Phase(u)' = Phase(u)
  BY <1>1, PhaseIs DEF IInv, Shapes, Stored, Authenticate, Expired
<1>6. Phase(t) = "unborn" /\ Phase(t)' = "live"
  BY Zenon, <1>2, <1>4, PhaseIs
<1> QED
  BY <1>2, <1>5, <1>6, Bears

\* So is creating, or creating again, the root token.
LEMMA RootLives ==
  ASSUME IInv, RegisterRoot
  PROVE  Life!LifeNext \/ UNCHANGED Life!life
<1>1. /\ tokens' = [tokens EXCEPT ![Root] = Record({"admin"}, now + RootTTL, 0, FALSE)]
      /\ UNCHANGED <<now, raced>>
  BY Zenon DEF RegisterRoot, Save
<1>2. Root \in TokenIds /\ now + RootTTL \in Nat /\ now <= now + RootTTL
  BY TokensAssumption DEF TokenIds, Root, IInv, Shapes
<1>3. Stored(Root)' /\ Authenticate(Root)'
  BY <1>1, <1>2 DEF IInv, Shapes, Stored, Authenticate, Expired, Record
<1>4. \A u \in TokenIds : u # Root => Phase(u)' = Phase(u)
  BY Zenon, <1>1, <1>2, PhaseIs DEF IInv, Shapes, Stored, Authenticate, Expired
<1>5. Phase(Root)' = "live" /\ Phase(Root) \in {"unborn", "live", "dead"}
  BY <1>2, <1>3, PhaseIs
<1>6. CASE Phase(Root) = "unborn"
  BY <1>1, <1>2, <1>4, <1>5, <1>6, Bears
<1>7. CASE Phase(Root) = "dead"
  BY <1>1, <1>2, <1>4, <1>5, <1>7, Revives
<1>8. CASE Phase(Root) = "live"
  BY <1>1, <1>4, <1>5, <1>8, Stutters
<1> QED
  BY Zenon, <1>5, <1>6, <1>7, <1>8

\* What a late save does: it revives only what died under a holder.
LEMMA SaveLives ==
  ASSUME IInv, NEW w \in Workers, RenewSave(w)
  PROVE  Life!LifeNext \/ UNCHANGED Life!life
<1>0. PICK t \in TokenIds, r \in Records : t = job[w].token /\ r = job[w].record
  BY Zenon, Carried DEF RenewSave, IInv
<1>1. Stored(t) /\ ~r.revoked /\ (Authenticate(t) \/ t \in raced)
  BY Zenon, <1>0 DEF RenewSave, IInv, HeldInv
<1>2. /\ tokens' = [tokens EXCEPT ![t] = r] \/ tokens' = tokens
      /\ now' = now /\ now \in Nat
      /\ raced' = IF (Authenticate(t) /\ tokens'[t].expires < now) /\ Holders(t) # {w} THEN raced \cup {t} ELSE raced
  BY Zenon, <1>0 DEF RenewSave, Save, IInv, Shapes
<1>3. /\ tokens'[t] = r \/ tokens'[t] = tokens[t]
      /\ Stored(t)' /\ tokens'[t].expires \in Nat
  BY <1>1, <1>2 DEF IInv, Shapes, Stored, Records, Absent
<1>4. \A u \in TokenIds : u # t => Phase(u)' = Phase(u)
  BY Zenon, <1>2, PhaseIs DEF IInv, Shapes, Stored, Authenticate, Expired
<1>5. CASE ~Authenticate(t)
  <2>1. raced' = raced /\ t \in raced /\ Phase(t) = "dead" /\ Phase(t)' \in {"dead", "live"}
    BY Zenon, <1>1, <1>2, <1>3, <1>5, PhaseIs
  <2> QED
    BY Zenon, <2>1, <1>4, Revives, Stutters
<1>6. CASE Authenticate(t) /\ tokens'[t].expires < now
  <2>1. ~Authenticate(t)'
    BY Zenon, <1>2, <1>3, <1>6 DEF Authenticate, Expired
  <2>2. Phase(t) = "live" /\ Phase(t)' = "dead"
    BY Zenon, <1>1, <1>3, <1>6, <2>1, PhaseIs
  <2>3. raced \subseteq raced' /\ raced' \subseteq raced \cup {t}
    BY Zenon, <1>2
  <2> QED
    BY Zenon, <2>2, <2>3, <1>4, Dies
<1>7. CASE Authenticate(t) /\ ~(tokens'[t].expires < now)
  <2>1. ~tokens'[t].revoked
    BY Zenon, <1>1, <1>3, <1>7 DEF Authenticate
  <2>2. Authenticate(t)'
    BY Zenon, <1>2, <1>3, <1>7, <2>1 DEF Authenticate, Expired
  <2>3. raced' = raced /\ Phase(t)' = Phase(t)
    BY Zenon, <1>1, <1>2, <1>3, <1>7, <2>2, PhaseIs
  <2> QED
    BY Zenon, <2>3, <1>4, Stutters
<1> QED
  BY Zenon, <1>5, <1>6, <1>7

\* Revoke is a death.
LEMMA RevokeKills ==
  ASSUME IInv, NEW w \in Workers, NEW t \in TokenIds, RevokeToken(w, t)
  PROVE  Life!LifeNext
<1>1. /\ tokens' = [tokens EXCEPT ![t] = [tokens[t] EXCEPT !.revoked = TRUE, !.expires = now]]
      /\ raced \subseteq raced' /\ raced' \subseteq raced \cup {t} /\ now' = now
      /\ Authenticate(t) /\ Stored(t)
  BY DEF RevokeToken, Revoke, Save, Authenticate
<1>2. tokens[t] \in Records
  BY <1>1 DEF Stored, IInv, Shapes, Absent
<1>3. Stored(t)' /\ ~Authenticate(t)'
  BY Zenon, <1>1, <1>2 DEF IInv, Shapes, Records, Stored, Authenticate
<1>4. \A u \in TokenIds : u # t => Phase(u)' = Phase(u)
  BY <1>1, PhaseIs DEF IInv, Shapes, Stored, Authenticate, Expired
<1>5. Phase(t) = "live" /\ Phase(t)' = "dead"
  BY Zenon, <1>1, <1>3, PhaseIs
<1> QED
  BY Zenon, <1>1, <1>4, <1>5, Dies

\* A second kills the tokens that expire in it.
LEMMA SecondKills ==
  ASSUME IInv, Second
  PROVE  Life!LifeNext \/ UNCHANGED Life!life
<1>1. /\ now' = now + 1 /\ now \in Nat /\ raced \subseteq raced' /\ tokens' = tokens
      /\ raced' = raced \cup {t \in TokenIds : Authenticate(t) /\ tokens[t].expires = now /\ Holders(t) # {}}
  BY Zenon DEF Second, Tick, IInv, Shapes
<1>2. \A t \in TokenIds : /\ Stored(t)' = Stored(t)
                          /\ Authenticate(t)' => Authenticate(t)
                          /\ Authenticate(t) /\ tokens[t].expires = now => ~Authenticate(t)'
  <2> TAKE t \in TokenIds
  <2>1. Stored(t)' = Stored(t)
    BY Zenon, <1>1 DEF Stored
  <2>2. Stored(t) => tokens[t].expires \in Nat
    BY DEF Stored, IInv, Shapes, Records, Absent
  <2> QED
    BY <1>1, <2>1, <2>2 DEF Authenticate, Expired
<1>3. \A t \in TokenIds : Phase(t)' = Phase(t) \/ (Phase(t) = "live" /\ Phase(t)' = "dead")
  BY Zenon, <1>2, PhaseIs DEF Authenticate
<1>4. \A t \in raced' \ raced : t \in TokenIds /\ Phase(t) = "live" /\ Phase(t)' = "dead"
  BY Zenon, <1>1, <1>2, PhaseIs DEF Authenticate
<1>5. CASE \A t \in TokenIds : Phase(t)' = Phase(t)
  <2>1. raced' = raced
    BY Zenon, <1>1, <1>4, <1>5
  <2> QED
    BY Zenon, <2>1, <1>5, Stutters
<1>6. CASE \E t \in TokenIds : Phase(t)' # Phase(t)
  BY Zenon, <1>1, <1>3, <1>4, <1>6, Dies
<1> QED
  BY Zenon, <1>5, <1>6

\* The token service lets a token live once: a dead one comes back only
\* through a renewal that had read its record, or as the root token at a
\* start (Create, Renew, save, Revoke, RegisterRootTokenTTL).
THEOREM LivesOnceAlways == Spec => LivesOnce
<1>1. LoginsInit => Life!LifeInit
  <2> SUFFICES ASSUME LoginsInit PROVE Life!LifeInit
    BY Zenon
  <2>1. raced = {} /\ \A t \in TokenIds : ~Stored(t)
    BY Zenon DEF LoginsInit, TokensInit, Stored, Absent
  <2>2. \A t \in TokenIds : Phase(t) = "unborn"
    BY Zenon, <2>1, PhaseIs
  <2> QED
    BY Zenon, <2>1, <2>2 DEF Life!LifeInit
<1>2. IInv /\ [Next]_vars => [Life!LifeNext]_(Life!life)
  <2> SUFFICES ASSUME IInv, [Next]_vars PROVE Life!LifeNext \/ UNCHANGED Life!life
    BY Zenon
  <2>1. CASE Second
    BY Zenon, <2>1, SecondKills
  <2>2. CASE LoginsNext
    <3>1. CASE ClearLockout \/ RevokeIdentity \/ Outage
      BY Zenon, <3>1, SameTokens DEF ClearLockout, RevokeIdentity, Outage, tvars
    <3>2. ASSUME NEW w \in Workers, (\E m \in Methods : Login(w, m)) \/ Check(w) \/ Identify(w) \/ Register(w)
          PROVE  UNCHANGED Life!life
      BY Zenon, <3>2, SameTokens DEF Login, Check, Identify, Register
    <3>3. ASSUME NEW w \in Workers, Grant(w) PROVE Life!LifeNext \/ UNCHANGED Life!life
      BY <3>3, GrantStep, SameTokens, MintLives
    <3> QED
      BY Zenon, <2>2, <3>1, <3>2, <3>3 DEF LoginsNext
  <2>3. CASE TokenSteps
    <3>1. UNCHANGED lvars
      BY <2>3 DEF TokenSteps
    <3>2. ASSUME NEW w \in Workers, NEW t \in TokenIds, CreateToken(w, t) PROVE Life!LifeNext
      BY Zenon, <3>1, <3>2, CreateStep, MintLives DEF CreateToken
    <3>3. ASSUME NEW w \in Workers, NEW p \in TokenIds, NEW t \in TokenIds, DelegateAgent(w, p, t) PROVE Life!LifeNext
      BY <3>1, <3>3, DelegateStep, MintLives DEF DelegateAgent
    <3>4. ASSUME NEW w \in Workers, NEW t \in TokenIds, RenewToken(w, t) \/ Enter(w, t) \/ Put(w) \/ Wipe(w)
          PROVE  UNCHANGED Life!life
      BY Zenon, <3>4, SameTokens DEF RenewToken, Renew, Hold, Enter, Put, Wipe
    <3>5. TokenIds # {}
      BY TokensAssumption DEF TokenIds
    <3> QED
      BY <2>3, <3>2, <3>3, <3>4, <3>5, RootLives, SaveLives, RevokeKills DEF TokenSteps
  <2>4. CASE UNCHANGED vars
    BY <2>4, SameTokens DEF vars, tvars
  <2> QED
    BY Zenon, <2>1, <2>2, <2>3, <2>4 DEF Next
<1> QED
  BY <1>1, <1>2, Inductive, PTL DEF Spec, LivesOnce, Life!LifeSpec
-----------------------------------------------------------------------------
(* The lockout.  What the stretches before the current one allowed is      *)
(* behind; in the current one the counter in use has seen every failure,   *)
(* and once it has reached the threshold only the requests that were past  *)
(* the lock check are left.                                                *)

\* The requests whose check may still count against the address.
Guessing == {w \in Workers : At(w, "login") /\ job[w].method # "ldap"}

PerStretch == Threshold - 1 + Cardinality(Workers)
Behind == (Stretches - 1) * PerStretch

CountTypes ==
  /\ up \in BOOLEAN /\ outages \in Nat /\ (~up => outages # 0)
  /\ streak \in Nat
  /\ fail \in [Places -> [n : Nat, until : Nat]]
  /\ locked \in [Places -> Nat]
  /\ \A p \in Places : fail[p].until <= now + LockTTL

\* The counter that is in use outlives the other one, has seen the failures
\* of this stretch, and has set the lock when it reached the threshold.
Stretch(c) ==
  /\ now < c.until
  /\ \A p \in Places : fail[p].until <= c.until
  /\ streak <= Behind + c.n
  /\ c.n >= Threshold =>
       /\ c.until <= locked["fallback"]
       /\ streak + Cardinality(Guessing) <= Behind + PerStretch

GuessInv == CountTypes /\ (streak <= Behind \/ Stretch(fail[Counter]))

\* The budget is a natural number and grows with every switch.
LEMMA BudgetTypes ==
  ASSUME CountTypes
  PROVE  /\ Stretches \in Nat /\ Stretches - 1 \in Nat /\ PerStretch \in Nat /\ Behind \in Nat
         /\ Stretches * PerStretch = Behind + PerStretch
         /\ Cardinality(Workers) \in Nat
<1>1. Cardinality(Workers) \in Nat
  BY FS_CardinalityType, TokensAssumption
<1>2. PerStretch \in Nat
  BY <1>1, LoginsAssumption DEF PerStretch
<1>3. Stretches \in Nat /\ Stretches - 1 \in Nat
  <2>1. CASE up
    <3>1. Stretches = 2 * outages + 1
      BY <2>1 DEF Stretches
    <3> QED
      BY <3>1 DEF CountTypes
  <2>2. CASE ~up
    <3>1. Stretches = 2 * outages + 0
      BY <2>2 DEF Stretches
    <3> QED
      BY <3>1, <2>2 DEF CountTypes
  <2> QED
    BY <2>1, <2>2
<1>4. \A s, q \in Nat : s - 1 \in Nat => (s - 1) * q \in Nat /\ s * q = (s - 1) * q + q
  OBVIOUS
<1> QED
  BY <1>1, <1>2, <1>3, <1>4 DEF Behind

\* The requests under way are as many as the workers at most.
LEMMA GuessingCounts ==
  /\ IsFiniteSet(Guessing) /\ Cardinality(Guessing) \in Nat
  /\ Cardinality(Guessing) <= Cardinality(Workers)
<1>1. Guessing \subseteq Workers
  BY DEF Guessing
<1> QED
  BY <1>1, FS_Subset, FS_CardinalityType, TokensAssumption

\* The invariant keeps the bound.
LEMMA GuessBounds == ASSUME GuessInv PROVE GuessBound
<1>1. /\ Behind \in Nat /\ PerStretch \in Nat /\ Stretches * PerStretch = Behind + PerStretch
      /\ PerStretch = Threshold - 1 + Cardinality(Workers) /\ Cardinality(Workers) \in Nat
  BY BudgetTypes DEF GuessInv, PerStretch
<1>2. streak \in Nat /\ Cardinality(Guessing) \in Nat /\ Threshold \in Nat
  BY GuessingCounts, LoginsAssumption DEF GuessInv, CountTypes
<1>3. streak <= Behind + PerStretch
  <2>1. CASE streak <= Behind
    BY <1>1, <1>2, <2>1
  <2>2. CASE Stretch(fail[Counter])
    <3>1. fail[Counter].n \in Nat
      BY DEF GuessInv, CountTypes, Counter, Places
    <3> QED
      BY <1>1, <1>2, <2>2, <3>1 DEF Stretch
  <2> QED
    BY <2>1, <2>2 DEF GuessInv
<1> QED
  BY <1>1, <1>3 DEF GuessBound, PerStretch

\* No failure is counted at first.
LEMMA GuessInitially == ASSUME LoginsInit PROVE GuessInv
<1>1. CountTypes
  BY LoginsAssumption DEF LoginsInit, TokensInit, CountTypes, NoCount, Places
<1> QED
  BY <1>1, BudgetTypes DEF GuessInv, LoginsInit

\* Reading the clock, the counters and the server alike, and with no more
\* requests under way unless the lock let them in, the invariant stands.
LEMMA GuessKept ==
  ASSUME GuessInv, now \in Nat, UNCHANGED <<now, up, outages, fail, locked, streak>>,
         Guessing' \subseteq Guessing \/ ~IsLocked
  PROVE  GuessInv'
<1>1. CountTypes' /\ Behind' = Behind /\ PerStretch' = PerStretch /\ Counter' = Counter
  BY DEF GuessInv, CountTypes, Behind, Stretches, PerStretch, Counter
<1>2. CASE streak <= Behind
  BY <1>1, <1>2 DEF GuessInv
<1>3. CASE Stretch(fail[Counter])
  <2> DEFINE c == fail[Counter]
  <2>1. c.n \in Nat /\ c.until \in Nat /\ locked["fallback"] \in Nat
    BY DEF GuessInv, CountTypes, Counter, Places
  <2>2. /\ now < c.until /\ (\A p \in Places : fail[p].until <= c.until) /\ streak <= Behind + c.n
        /\ c.n >= Threshold =>
             c.until <= locked["fallback"] /\ streak + Cardinality(Guessing) <= Behind + PerStretch
    BY <1>3 DEF Stretch
  <2>3. ASSUME c.n >= Threshold PROVE streak + Cardinality(Guessing') <= Behind + PerStretch
    <3>1. IsLocked
      BY <2>1, <2>2, <2>3 DEF IsLocked, Live
    <3>2. Cardinality(Guessing') <= Cardinality(Guessing) /\ Cardinality(Guessing') \in Nat
      BY <3>1, GuessingCounts, FS_Subset, FS_CardinalityType
    <3>3. streak \in Nat /\ Behind \in Nat /\ PerStretch \in Nat /\ Cardinality(Guessing) \in Nat
      BY BudgetTypes, GuessingCounts DEF GuessInv, CountTypes
    <3> QED
      BY <2>2, <2>3, <3>2, <3>3
  <2>4. Stretch(c)'
    BY Zenon, <1>1, <2>2, <2>3 DEF Stretch
  <2> QED
    BY <1>1, <2>4 DEF GuessInv
<1> QED
  BY <1>2, <1>3 DEF GuessInv

\* A success empties the counters that it reaches.
LEMMA GuessCleared ==
  ASSUME GuessInv, RecordSuccess, now \in Nat, UNCHANGED <<now, up, outages>>
  PROVE  GuessInv'
<1>1. CountTypes'
  <2>1. fail' \in [Places -> [n : Nat, until : Nat]]
    BY DEF GuessInv, CountTypes, RecordSuccess, Put2, NoCount
  <2>2. locked' \in [Places -> Nat] /\ streak' \in Nat
    BY DEF GuessInv, CountTypes, RecordSuccess, Put2
  <2>3. ASSUME NEW p \in Places PROVE fail'[p].until <= now' + LockTTL
    <3>1. fail'[p] = fail[p] \/ fail'[p] = [n |-> 0, until |-> 0]
      BY Zenon DEF RecordSuccess, Put2, NoCount
    <3>2. fail[p].until <= now + LockTTL /\ now' = now
      BY Zenon DEF GuessInv, CountTypes
    <3> QED
      BY <3>1, <3>2, LoginsAssumption
  <2> QED
    BY Zenon, <2>1, <2>2, <2>3 DEF GuessInv, CountTypes
<1>2. Behind' \in Nat /\ streak' = 0
  BY <1>1, BudgetTypes DEF RecordSuccess, Behind, PerStretch, Stretches, GuessInv, CountTypes
<1> QED
  BY <1>1, <1>2 DEF GuessInv

\* The server goes or comes back: a new stretch with a budget of its own.
LEMMA GuessSwitched ==
  ASSUME GuessInv, Outage
  PROVE  GuessInv'
<1>1. UNCHANGED <<now, fail, locked, streak>> /\ up' = ~up /\ outages' = IF up THEN outages + 1 ELSE outages
  BY DEF Outage, tvars, lockout
<1>2. CountTypes'
  BY <1>1 DEF GuessInv, CountTypes
<1>3. Stretches' - 1 = Stretches
  <2>0. outages \in Nat
    BY DEF GuessInv, CountTypes
  <2>1. CASE up
    <3>1. Stretches = 2 * outages + 1 /\ Stretches' = 2 * (outages + 1) + 0
      BY Zenon, <1>1, <2>1 DEF Stretches
    <3> QED
      BY <2>0, <3>1
  <2>2. CASE ~up
    <3>1. Stretches = 2 * outages + 0 /\ Stretches' = 2 * outages + 1
      BY Zenon, <1>1, <2>2 DEF Stretches
    <3> QED
      BY <2>0, <3>1
  <2> QED
    BY <2>1, <2>2
<1>4. Behind' = Stretches * (Threshold - 1 + Cardinality(Workers))
  BY <1>3 DEF Behind, PerStretch
<1>5. streak' <= Behind'
  BY <1>1, <1>4, GuessBounds DEF GuessBound
<1> QED
  BY <1>2, <1>5 DEF GuessInv

\* A second: while a failure of this stretch counts, so does the counter.
LEMMA GuessAged ==
  ASSUME GuessInv, Second, now \in Nat
  PROVE  GuessInv'
<1>1. /\ now' = now + 1 /\ UNCHANGED <<up, outages, fail, locked, job>>
      /\ streak' = IF \A p \in Places : now' >= fail[p].until THEN 0 ELSE streak
  BY DEF Second, Tick
<1>2. CountTypes'
  <2>1. streak' \in Nat
    BY Zenon, <1>1 DEF GuessInv, CountTypes
  <2>2. ASSUME NEW p \in Places PROVE fail'[p].until <= now' + LockTTL
    <3>1. fail'[p].until = fail[p].until /\ now' = now + 1 /\ fail[p].until <= now + LockTTL
      BY Zenon, <1>1 DEF GuessInv, CountTypes
    <3>2. fail[p].until \in Nat
      BY DEF GuessInv, CountTypes
    <3> QED
      BY <3>1, <3>2, LoginsAssumption
  <2> QED
    BY Zenon, <1>1, <2>1, <2>2 DEF GuessInv, CountTypes
<1>3. Behind' = Behind /\ PerStretch' = PerStretch /\ Counter' = Counter /\ Guessing' = Guessing /\ Behind \in Nat
  BY <1>1, BudgetTypes DEF GuessInv, Behind, Stretches, PerStretch, Counter, Guessing, At
<1>4. CASE streak' = 0 \/ streak <= Behind
  BY <1>1, <1>2, <1>3, <1>4 DEF GuessInv
<1>5. CASE streak' = streak /\ (\E p \in Places : ~(now' >= fail[p].until)) /\ Stretch(fail[Counter])
  <2> DEFINE c == fail[Counter]
  <2>1. c.until \in Nat /\ \A p \in Places : fail[p].until \in Nat /\ fail[p].until <= c.until
    BY <1>5 DEF GuessInv, CountTypes, Counter, Places, Stretch
  <2>2. now' < c.until
    BY <1>1, <1>5, <2>1
  <2>3. Stretch(c)'
    BY Zenon, <1>1, <1>3, <1>5, <2>2 DEF Stretch
  <2> QED
    BY <1>2, <1>3, <1>1, <2>3 DEF GuessInv
<1> QED
  BY <1>1, <1>4, <1>5 DEF GuessInv

\* Incr: one more while the entry lives, one after that, for LockTTL from now.
LEMMA CountedFields ==
  ASSUME now \in Nat, NEW old \in [n : Nat, until : Nat]
  PROVE  /\ Incr(old) \in [n : Nat, until : Nat] /\ Incr(old).until = now + LockTTL
         /\ Incr(old).n = IF now < old.until THEN old.n + 1 ELSE 1
<1> DEFINE x == IF now < old.until THEN old.n + 1 ELSE 1
           y == now + LockTTL
<1>1. x \in Nat
  <2>1. old.n \in Nat
    OBVIOUS
  <2> QED
    BY <2>1
<1>2. y \in Nat
  BY LoginsAssumption
<1>3. Incr(old) = [n |-> x, until |-> y]
  BY Zenon DEF Incr
<1> HIDE DEF x, y
<1>4. /\ Incr(old) \in [n : Nat, until : Nat] /\ Incr(old).until = y /\ Incr(old).n = x
  BY <1>1, <1>2, <1>3
<1> QED
  BY Zenon, <1>4 DEF x, y

\* A failure is counted, and at the threshold the lock is set.
LEMMA GuessCounted ==
  ASSUME GuessInv, now \in Nat, RecordFailure, UNCHANGED <<now, up, outages>>,
         NEW w \in Guessing, Guessing' \subseteq Guessing \ {w}
  PROVE  GuessInv'
<1> DEFINE k == Counter
           c == Incr(fail[k])
           old == fail[k]
<1>1. /\ fail' = [fail EXCEPT ![k] = c] /\ streak' = streak + 1
      /\ locked' = IF c.n >= Threshold THEN Put2(locked, now + LockTTL) ELSE locked
  BY Zenon DEF RecordFailure
<1>2. k \in Places /\ old \in [n : Nat, until : Nat]
  BY DEF Counter, Places, GuessInv, CountTypes
<1>3. /\ c \in [n : Nat, until : Nat] /\ c.until = now + LockTTL
      /\ c.n = IF now < old.until THEN old.n + 1 ELSE 1
  BY Zenon, <1>2, CountedFields
<1> HIDE DEF c
<1>4. CountTypes'
  <2>1. fail' \in [Places -> [n : Nat, until : Nat]]
    BY <1>1, <1>2, <1>3 DEF GuessInv, CountTypes
  <2>2. locked' \in [Places -> Nat]
    BY <1>1, LoginsAssumption DEF Put2, GuessInv, CountTypes
  <2>3. \A p \in Places : fail'[p].until <= now' + LockTTL
    BY <1>1, <1>2, <1>3, LoginsAssumption DEF GuessInv, CountTypes
  <2>4. streak' \in Nat
    BY <1>1 DEF GuessInv, CountTypes
  <2> QED
    BY Zenon, <2>1, <2>2, <2>3, <2>4 DEF GuessInv, CountTypes
<1>5. Behind' = Behind /\ PerStretch' = PerStretch /\ Counter' = k /\ fail'[k] = c
  BY <1>1, <1>2 DEF Behind, Stretches, PerStretch, Counter, GuessInv, CountTypes
<1>6. \A p \in Places : fail'[p].until <= c.until
  BY <1>3, <1>4 DEF CountTypes
<1>7. /\ streak \in Nat /\ Behind \in Nat /\ PerStretch \in Nat /\ old.n \in Nat /\ c.n \in Nat
      /\ PerStretch = Threshold - 1 + Cardinality(Workers) /\ Cardinality(Workers) \in Nat
      /\ Threshold \in Nat \ {0}
  BY <1>2, <1>3, BudgetTypes, LoginsAssumption DEF GuessInv, CountTypes, PerStretch
<1>8. streak' <= Behind + c.n
  <2>1. CASE streak <= Behind
    BY <1>1, <1>3, <1>7, <2>1
  <2>2. CASE Stretch(old)
    BY <1>1, <1>3, <1>7, <2>2 DEF Stretch
  <2> QED
    BY <2>1, <2>2 DEF GuessInv
<1>9. ASSUME c.n >= Threshold
      PROVE  c.until <= locked'["fallback"] /\ streak' + Cardinality(Guessing') <= Behind + PerStretch
  <2>1. locked'["fallback"] = now + LockTTL
    BY <1>1, <1>9 DEF Put2, Reached, Places
  <2>2. /\ Cardinality(Guessing') \in Nat /\ Cardinality(Guessing) \in Nat
        /\ Cardinality(Guessing') <= Cardinality(Guessing) - 1
        /\ Cardinality(Guessing) <= Cardinality(Workers)
    <3>1. IsFiniteSet(Guessing \ {w}) /\ Cardinality(Guessing \ {w}) = Cardinality(Guessing) - 1
      BY GuessingCounts, FS_RemoveElement
    <3> QED
      BY <3>1, GuessingCounts, FS_Subset, FS_CardinalityType
  <2>3. streak + Cardinality(Guessing) <= Behind + PerStretch
    <3>1. CASE streak <= Behind
      BY <1>7, <2>2, <3>1
    <3>2. CASE Stretch(old) /\ old.n >= Threshold
      BY <3>2 DEF Stretch
    <3>3. CASE Stretch(old) /\ ~(old.n >= Threshold)
      <4>1. streak <= Behind + old.n
        BY <3>3 DEF Stretch
      <4> QED
        BY <1>7, <2>2, <3>3, <4>1
    <3> QED
      BY Zenon, <3>1, <3>2, <3>3 DEF GuessInv
  <2> QED
    BY <1>1, <1>3, <1>7, <2>1, <2>2, <2>3
<1>10. now < c.until
  BY <1>3, LoginsAssumption
<1>11. Stretch(fail[Counter])'
  BY Zenon, <1>5, <1>6, <1>8, <1>9, <1>10 DEF Stretch
<1> QED
  BY Zenon, <1>4, <1>11 DEF GuessInv

\* A step under way: who guesses, and what the lock let in.
LEMMA GuessingMoves ==
  ASSUME job \in [Workers -> Jobs], NEW w \in Workers, NEW j, job' = [job EXCEPT ![w] = j]
  PROVE  /\ Guessing' \subseteq Guessing \cup {w}
         /\ j.at # "login" \/ j.method = "ldap" => Guessing' \subseteq Guessing \ {w}
<1>1. job'[w] = j /\ \A v \in Workers \ {w} : job'[v] = job[v]
  OBVIOUS
<1> QED
  BY Zenon, <1>1 DEF Guessing, At

\* Every step keeps the invariant.
LEMMA GuessPreserved ==
  ASSUME IInv, GuessInv, [Next]_vars
  PROVE  GuessInv'
<1>0. now \in Nat /\ job \in [Workers -> Jobs] /\ Idle.at # "login"
  BY DEF IInv, Shapes, Idle
<1>1. CASE Second
  BY <1>0, <1>1, GuessAged
<1>2. CASE ClearLockout
  BY Zenon, <1>0, <1>2, GuessCleared DEF ClearLockout, tvars
<1>3. CASE RevokeIdentity
  <2>1. UNCHANGED <<now, up, outages, fail, locked, streak, job>>
    BY Zenon, <1>3 DEF RevokeIdentity, tvars, lockout
  <2>2. Guessing' \subseteq Guessing
    BY Zenon, <2>1 DEF Guessing, At
  <2> QED
    BY Zenon, <1>0, <2>1, <2>2, GuessKept
<1>4. CASE Outage
  BY <1>4, GuessSwitched
<1>5. ASSUME NEW w \in Workers, NEW m \in Methods, Login(w, m) PROVE GuessInv'
  <2>1. /\ UNCHANGED <<now, up, outages, fail, locked, streak>>
        /\ IsLocked => m = "ldap"
        /\ job' = [job EXCEPT ![w] = [at |-> "login", method |-> m]]
    BY Zenon, <1>5 DEF Login, lvars, Become
  <2> DEFINE j == [at |-> "login", method |-> m]
  <2>2. j.method = m
    OBVIOUS
  <2> HIDE DEF j
  <2>3. IsLocked => Guessing' \subseteq Guessing \ {w}
    BY Zenon, <1>0, <2>1, <2>2, GuessingMoves DEF j
  <2> QED
    BY Zenon, <1>0, <2>1, <2>3, GuessKept
<1>6. ASSUME NEW w \in Workers, Check(w) PROVE GuessInv'
  <2>1. /\ At(w, "login") /\ UNCHANGED <<now, up, outages>>
        /\ \E v \in Verdicts[job[w].method] :
             /\ IF v = "address" THEN RecordFailure ELSE UNCHANGED lockout
             /\ job' = [job EXCEPT ![w] = IF v = "ok" THEN [at |-> "accepted", method |-> job[w].method] ELSE Idle]
    BY Zenon, <1>6 DEF Check, Become
  <2>2. PICK v \in Verdicts[job[w].method] :
             /\ IF v = "address" THEN RecordFailure ELSE UNCHANGED lockout
             /\ job' = [job EXCEPT ![w] = IF v = "ok" THEN [at |-> "accepted", method |-> job[w].method] ELSE Idle]
    BY Zenon, <2>1
  <2> DEFINE j == IF v = "ok" THEN [at |-> "accepted", method |-> job[w].method] ELSE Idle
  <2>3. j.at # "login"
    BY <1>0
  <2> HIDE DEF j
  <2>4. Guessing' \subseteq Guessing \ {w}
    BY Zenon, <1>0, <2>2, <2>3, GuessingMoves DEF j
  <2>5. CASE v = "address"
    <3>1. job[w].method # "ldap"
      <4>1. job[w].method \in Methods
        BY Zenon, <2>1, Carried DEF IInv
      <4>2. \A a \in SUBSET Facts : LoginLDAP(a) # "address"
        BY DEF LoginLDAP
      <4>3. "ldap" \in Methods => "address" \notin Verdicts["ldap"]
        BY <4>2 DEF Verdicts, Verdict
      <4> QED
        BY Zenon, <2>5, <2>2, <4>1, <4>3
    <3>2. w \in Guessing
      BY Zenon, <2>1, <3>1 DEF Guessing
    <3> QED
      BY Zenon, <1>0, <2>1, <2>2, <2>4, <2>5, <3>2, GuessCounted
  <2>6. CASE v # "address"
    <3>1. UNCHANGED <<fail, locked, streak>> /\ Guessing' \subseteq Guessing
      BY Zenon, <2>2, <2>4, <2>6 DEF lockout
    <3> QED
      BY Zenon, <1>0, <2>1, <3>1, GuessKept
  <2> QED
    BY <2>5, <2>6
<1>7. ASSUME NEW w \in Workers, Identify(w) \/ Register(w) PROVE GuessInv'
  <2>1. UNCHANGED <<now, up, outages, fail, locked, streak>>
    BY Zenon, <1>7 DEF Identify, Register, lvars, lockout
  <2>2. PICK j : job' = [job EXCEPT ![w] = j] /\ j.at # "login"
    <3> DEFINE m == job[w].method
               a == [at |-> "issue", method |-> m]
               b == [at |-> "register", method |-> m]
    <3>1. a.at # "login" /\ b.at # "login"
      OBVIOUS
    <3>2. job' = [job EXCEPT ![w] = a] \/ job' = [job EXCEPT ![w] = b] \/ job' = [job EXCEPT ![w] = Idle]
      BY Zenon, <1>7 DEF Identify, Register, Become
    <3> HIDE DEF a, b
    <3> QED
      BY Zenon, <1>0, <3>1, <3>2
  <2>3. Guessing' \subseteq Guessing
    BY Zenon, <1>0, <2>2, GuessingMoves
  <2> QED
    BY Zenon, <1>0, <2>1, <2>3, GuessKept
<1>8. ASSUME NEW w \in Workers, Grant(w) PROVE GuessInv'
  <2>1. /\ UNCHANGED <<now, up, outages>> /\ job' = [job EXCEPT ![w] = Idle]
        /\ RecordSuccess \/ UNCHANGED lockout
    BY Zenon, <1>8 DEF Grant, Become
  <2>2. Guessing' \subseteq Guessing
    BY Zenon, <1>0, <2>1, GuessingMoves
  <2>3. CASE RecordSuccess
    BY Zenon, <1>0, <2>1, <2>3, GuessCleared
  <2>4. CASE UNCHANGED lockout
    <3>1. UNCHANGED <<fail, locked, streak>>
      BY Zenon, <2>4 DEF lockout
    <3> QED
      BY Zenon, <1>0, <2>1, <2>2, <3>1, GuessKept
  <2> QED
    BY <2>1, <2>3, <2>4
<1>9. CASE TokenSteps
  <2>1. UNCHANGED <<now, up, outages, fail, locked, streak>>
    <3>1. UNCHANGED <<up, outages, fail, locked, streak>>
      BY Zenon, <1>9 DEF TokenSteps, lvars
    <3>2. now' = now
      BY Zenon, <1>9 DEF TokenSteps, RegisterRoot, RenewSave, Put, Wipe, CreateToken, RenewToken, Renew, Hold,
         Enter, RevokeToken, DelegateAgent
    <3> QED
      BY Zenon, <3>1, <3>2
  <2>2. Guessing' \subseteq Guessing
    <3>1. UNCHANGED job \/ \E w \in Workers : \E j : job' = [job EXCEPT ![w] = j] /\ j.at # "login"
      <4>1. CASE RegisterRoot
        BY Zenon, <4>1 DEF RegisterRoot
      <4>2. ASSUME NEW w \in Workers, RenewSave(w) \/ Put(w) \/ Wipe(w)
            PROVE  \E u \in Workers : \E j : job' = [job EXCEPT ![u] = j] /\ j.at # "login"
        BY Zenon, <1>0, <4>2 DEF RenewSave, Put, Wipe, Become
      <4>3. ASSUME NEW w \in Workers, NEW t \in TokenIds, RenewToken(w, t) \/ Enter(w, t) \/ RevokeToken(w, t)
            PROVE  \E u \in Workers : \E j : job' = [job EXCEPT ![u] = j] /\ j.at # "login"
        <5> DEFINE R(e) == [at |-> "renew", token |-> t, record |-> [tokens[t] EXCEPT !.expires = e]]
                   U == [at |-> "use", token |-> t]
                   Z == [at |-> "wipe", token |-> t]
        <5>1. U.at # "login" /\ Z.at # "login" /\ \A e : R(e).at # "login"
          OBVIOUS
        <5>2. \/ \E e : job' = [job EXCEPT ![w] = R(e)]
              \/ job' = [job EXCEPT ![w] = U] \/ job' = [job EXCEPT ![w] = Z]
          BY Zenon, <4>3 DEF RenewToken, Renew, Hold, Enter, RevokeToken, Become
        <5> HIDE DEF R, U, Z
        <5> QED
          BY Zenon, <5>1, <5>2
      <4>4. ASSUME NEW w \in Workers, NEW p \in TokenIds, NEW t \in TokenIds, CreateToken(w, t) \/ DelegateAgent(w, p, t)
            PROVE  UNCHANGED job
        BY Zenon, <4>4 DEF CreateToken, DelegateAgent
      <4> QED
        BY Zenon, <1>9, <4>1, <4>2, <4>3, <4>4 DEF TokenSteps
    <3>2. CASE UNCHANGED job
      BY Zenon, <3>2 DEF Guessing, At
    <3>3. ASSUME NEW w \in Workers, NEW j, job' = [job EXCEPT ![w] = j] /\ j.at # "login"
          PROVE  Guessing' \subseteq Guessing
      BY Zenon, <1>0, <3>3, GuessingMoves
    <3> QED
      BY Zenon, <3>1, <3>2, <3>3
  <2> QED
    BY Zenon, <1>0, <2>1, <2>2, GuessKept
<1>10. CASE UNCHANGED vars
  <2>1. UNCHANGED <<now, up, outages, fail, locked, streak, job>>
    BY Zenon, <1>10 DEF vars, tvars, lvars
  <2>2. Guessing' \subseteq Guessing
    BY Zenon, <2>1 DEF Guessing, At
  <2> QED
    BY Zenon, <1>0, <2>1, <2>2, GuessKept
<1> QED
  BY Zenon, <1>1, <1>2, <1>3, <1>4, <1>5, <1>6, <1>7, <1>8, <1>9, <1>10 DEF Next, LoginsNext

\* However logins interleave and the cache server fails, an address gets
\* fewer wrong guesses than Threshold for every stretch of counting in one
\* place, plus what was past the lock check (IsLocked, RecordFailure, Incr).
THEOREM GuessBoundAlways == Spec => []GuessBound
<1>1. LoginsInit => GuessInv
  BY GuessInitially
<1>2. IInv /\ GuessInv /\ [Next]_vars => GuessInv'
  BY GuessPreserved
<1>3. GuessInv => GuessBound
  BY GuessBounds
<1> QED
  BY <1>1, <1>2, <1>3, Inductive, PTL DEF Spec
=============================================================================
