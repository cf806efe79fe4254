----------------------------- MODULE RaftProofs -----------------------------
(***************************************************************************)
(* The replicated store, for every set of nodes, CAs, roles, policies,     *)
(* leases, identities and times, any length of the log and any audit limit *)
(* of a snapshot: a replica that restarted or was sent a snapshot holds    *)
(* what one holds that applied every command (statemachine.go, handlers.go *)
(* and backup/).  The argument: what a snapshot leaves out (labels,        *)
(* tokens, identities, and an audit log that is too long) never decides    *)
(* about what it carries.  So "s follows r" - the same tables, and the     *)
(* same audit log if that fits - is kept by every handler, and an export   *)
(* that validates follows the store that it was made of.                   *)
(***************************************************************************)
EXTENDS RaftStore

-----------------------------------------------------------------------------
(* Stores, and what it is that one follows another.                        *)

\* The values of the tables, and of a committed command.
Row == [label : BOOLEAN, destroyed : BOOLEAN]
Numbers == {D \in SUBSET Nat : \E n \in Nat : D \subseteq 1 .. n}
Rows == UNION {[D -> Row] : D \in Numbers}
Lease == [there : BOOLEAN, revoked : BOOLEAN, token : BOOLEAN]
Entry == [at : Times, hash : Seq(Times)]

Stores ==
  [ca : SUBSET CAs, pki : [PKIRoles -> CAs \cup {NoCA}], cert : SUBSET CAs,
   policy : SUBSET Policies, role : [Roles -> SUBSET Policies], secret : Rows,
   lease : [Leases -> Lease], identity : [Identities -> {"none", "active", "revoked"}],
   audit : Seq(Entry)]

Logged == Command \cup [op : {"snapshot.import"}, snapshot : Stores]

\* Rows of the same numbers, destroyed on both sides or on neither.
Alike(x, y) == DOMAIN x = DOMAIN y /\ \A v \in DOMAIN x : x[v].destroyed = y[v].destroyed

\* Two stores agree in what a snapshot carries, the audit log aside.
Same(s, r) ==
  /\ s.ca = r.ca /\ s.pki = r.pki /\ s.cert = r.cert /\ s.policy = r.policy /\ s.role = r.role
  /\ Alike(s.secret, r.secret)
  /\ \A l \in Leases : s.lease[l].there = r.lease[l].there /\ s.lease[l].revoked = r.lease[l].revoked

\* ... and in the audit log, if that fits into a snapshot.
Logs(s, r) == Len(r.audit) <= AuditLimit => s.audit = r.audit

\* How many numbers there are up to n.
LEMMA IntervalSize ==
  ASSUME NEW n \in Nat
  PROVE  IsFiniteSet(1 .. n) /\ Cardinality(1 .. n) = n
<1>1. 1 \in Int /\ n \in Int /\ (IF 1 > n THEN 0 ELSE n - 1 + 1) = n
  OBVIOUS
<1> QED
  BY <1>1, FS_Interval

\* ListAudit names every entry once: the k-th place exists.
LEMMA PlaceExists ==
  ASSUME NEW audit \in Seq(Entry), NEW k \in 1 .. Len(audit)
  PROVE  ListPosition(audit, k) \in DOMAIN audit
<1> DEFINE n == Len(audit)
           Earlier(i) == {j \in DOMAIN audit : Before(audit, j, i)}
           rank == [i \in 1 .. n |-> Cardinality(Earlier(i))]
           Ranks == 0 .. n - 1
<1>1. DOMAIN audit = 1 .. n /\ n \in Nat /\ \A i \in 1 .. n : audit[i].at \in Nat
  <2>1. DOMAIN audit = 1 .. n /\ n \in Nat /\ \A i \in 1 .. n : audit[i] \in Entry
    OBVIOUS
  <2> QED
    BY <2>1 DEF Entry, Times
<1>2. \A i \in 1 .. n : IsFiniteSet(Earlier(i)) /\ Earlier(i) \subseteq 1 .. n /\ i \notin Earlier(i)
  <2> SUFFICES ASSUME NEW i \in 1 .. n
               PROVE IsFiniteSet(Earlier(i)) /\ Earlier(i) \subseteq 1 .. n /\ i \notin Earlier(i)
    BY Zenon
  <2>1. Earlier(i) \subseteq 1 .. n
    BY <1>1
  <2>2. i \notin Earlier(i)
    BY <1>1 DEF Before
  <2>3. IsFiniteSet(1 .. n)
    BY <1>1, FS_Interval
  <2> QED
    BY <2>1, <2>2, <2>3, FS_Subset
<1>3. \A i \in 1 .. n : Cardinality(Earlier(i)) \in Ranks
  <2> SUFFICES ASSUME NEW i \in 1 .. n PROVE Cardinality(Earlier(i)) \in Ranks
    OBVIOUS
  <2>1. Earlier(i) \subseteq (1 .. n) \ {i}
    BY Zenon, <1>2
  <2>2. IsFiniteSet((1 .. n) \ {i}) /\ Cardinality((1 .. n) \ {i}) = n - 1
    <3>1. IsFiniteSet(1 .. n) /\ Cardinality(1 .. n) = n
      BY <1>1, IntervalSize
    <3> QED
      BY Zenon, <3>1, FS_RemoveElement
  <2>3. Cardinality(Earlier(i)) \in Nat /\ Cardinality(Earlier(i)) <= n - 1
    BY <1>2, <2>1, <2>2, FS_Subset, FS_CardinalityType
  <2> QED
    BY <1>1, <2>3
<1>4. \A i, j \in 1 .. n : Before(audit, i, j) => Cardinality(Earlier(i)) # Cardinality(Earlier(j))
  <2> SUFFICES ASSUME NEW i \in 1 .. n, NEW j \in 1 .. n, Before(audit, i, j)
               PROVE Cardinality(Earlier(i)) # Cardinality(Earlier(j))
    OBVIOUS
  <2>1. Earlier(i) \subseteq Earlier(j)
    BY <1>1 DEF Before
  <2>2. i \in Earlier(j) /\ i \notin Earlier(i)
    BY Zenon, <1>1, <1>2
  <2>3. Earlier(i) # Earlier(j)
    BY <2>2
  <2> HIDE DEF Earlier
  <2> QED
    BY <1>2, <2>1, <2>3, FS_Subset
<1>5. \A i, j \in 1 .. n : i # j => Before(audit, i, j) \/ Before(audit, j, i)
  BY <1>1 DEF Before
<1> SUFFICES \E i \in DOMAIN audit : Cardinality(Earlier(i)) = k - 1
  BY Zenon DEF ListPosition
<1> SUFFICES ASSUME \A i \in 1 .. n : Cardinality(Earlier(i)) # k - 1 PROVE FALSE
  BY Zenon, <1>1
<1> HIDE DEF Earlier, n
<1>6. rank \in [1 .. n -> Ranks \ {k - 1}]
  BY <1>3
<1>7. IsFiniteSet(Ranks) /\ Cardinality(Ranks) = n
  <2>1. 0 \in Int /\ n - 1 \in Int /\ (IF 0 > n - 1 THEN 0 ELSE n - 1 - 0 + 1) = n
    BY <1>1
  <2> QED
    BY <2>1, FS_Interval
<1>8. IsFiniteSet(Ranks \ {k - 1}) /\ Cardinality(Ranks \ {k - 1}) = n - 1
  <2>1. k - 1 \in Ranks
    BY <1>1 DEF n
  <2> QED
    BY Zenon, <1>7, <2>1, FS_RemoveElement
<1>9. IsFiniteSet(1 .. n) /\ Cardinality(1 .. n) = n
  BY <1>1, IntervalSize
<1>10. Cardinality(Ranks \ {k - 1}) < Cardinality(1 .. n)
  BY <1>1, <1>8, <1>9
<1>11. \E x, y \in 1 .. n : x # y /\ rank[x] = rank[y]
  <2> DEFINE S == 1 .. n
             T == Ranks \ {k - 1}
  <2>1. IsFiniteSet(S) /\ IsFiniteSet(T) /\ Cardinality(T) < Cardinality(S) /\ rank \in [S -> T]
    BY <1>6, <1>8, <1>9, <1>10
  <2> HIDE DEF rank, S, T
  <2>2. \E x, y \in S : x # y /\ rank[x] = rank[y]
    BY <2>1, FS_PigeonHole
  <2> QED
    BY <2>2 DEF S
<1> QED
  BY <1>4, <1>5, <1>11

\* A listing is a log of entries of that log.
LEMMA ListedType ==
  ASSUME NEW audit \in Seq(Entry), NEW limit \in Nat
  PROVE  ListAudit(audit, limit) \in Seq(Entry)
<1> DEFINE m == IF Len(audit) < limit THEN Len(audit) ELSE limit
<1>1. m \in Nat /\ m <= Len(audit) /\ Len(audit) \in Nat
  OBVIOUS
<1>2. \A k \in 1 .. m : ListPosition(audit, k) \in DOMAIN audit
  <2>1. \A k \in 1 .. m : k \in 1 .. Len(audit)
    BY <1>1
  <2> QED
    BY Zenon, <2>1, PlaceExists
<1>3. \A k \in 1 .. m : audit[ListPosition(audit, k)] \in Entry
  BY <1>2
<1>4. ListAudit(audit, limit) = [k \in 1 .. m |-> audit[ListPosition(audit, k)]]
  BY Zenon DEF ListAudit
<1> HIDE DEF m
<1>5. ListAudit(audit, limit) \in [1 .. m -> Entry]
  BY Zenon, <1>3, <1>4
<1> QED
  BY <1>1, <1>5

\* A hash tells how many entries it covers, so a listing whose chain holds is
\* in append order: it is the log, if it is not cut short.
LEMMA ListedInOrder ==
  ASSUME NEW audit \in Seq(Entry), NEW limit \in Nat, Len(audit) <= limit,
         ValidChain(audit), ValidChain(ListAudit(audit, limit))
  PROVE  ListAudit(audit, limit) = audit
<1> DEFINE n == Len(audit)
           L == ListAudit(audit, limit)
<1>1. n \in Nat /\ DOMAIN audit = 1 .. n
  OBVIOUS
<1>2. L = [k \in 1 .. n |-> audit[ListPosition(audit, k)]]
  <2>1. n <= limit
    BY Zenon
  <2>2. n < limit \/ (~(n < limit) /\ limit = n)
    <3> HIDE DEF n, L
    <3> QED
      BY ONLY <1>1, <2>1, limit \in Nat
  <2> QED
    BY Zenon, <2>2 DEF ListAudit
<1>3. ASSUME NEW k \in 1 .. n PROVE L[k] = audit[k]
  <2> DEFINE p == ListPosition(audit, k)
  <2>1. p \in 1 .. n /\ L[k] = audit[p]
    BY <1>1, <1>2, PlaceExists
  <2>2. audit[p].hash = [i \in 1 .. p |-> audit[i].at]
    BY Zenon, <1>1, <2>1 DEF ValidChain
  <2>3. L[k].hash = [i \in 1 .. k |-> L[i].at]
    <3>1. DOMAIN L = 1 .. n
      BY <1>2
    <3> QED
      BY Zenon, <3>1 DEF ValidChain
  <2> HIDE DEF p, L
  <2>4. DOMAIN audit[p].hash = 1 .. p /\ DOMAIN L[k].hash = 1 .. k
    BY Zenon, <2>2, <2>3
  <2>5. 1 .. p = 1 .. k
    BY Zenon, <2>1, <2>4
  <2>6. p = k
    BY <1>1, <2>1, <2>5
  <2> QED
    BY <2>1, <2>6
<1> HIDE DEF L
<1>4. DOMAIN L = 1 .. n /\ L = [k \in 1 .. n |-> L[k]]
  BY <1>2
<1>5. audit = [k \in 1 .. n |-> audit[k]]
  BY <1>1
<1> QED
  BY <1>3, <1>4, <1>5 DEF L

\* s follows r: it is what r is, up to what a snapshot leaves out.
Follows(s, r) ==
  s \in Stores /\ r \in Stores /\ Same(s, r) /\ Logs(s, r) /\ ValidChain(s.audit)

\* A change of the CAs on both sides.
LEMMA SetCA ==
  ASSUME NEW s, NEW r, Follows(s, r), NEW x \in SUBSET CAs
  PROVE  Follows([s EXCEPT !.ca = x], [r EXCEPT !.ca = x])
<1> DEFINE t == [s EXCEPT !.ca = x]
           u == [r EXCEPT !.ca = x]
<1>1. s \in Stores /\ r \in Stores /\ Same(s, r) /\ Logs(s, r) /\ ValidChain(s.audit)
  BY Zenon DEF Follows
<1>2. /\ t \in Stores /\ t.ca = x /\ t.pki = s.pki /\ t.cert = s.cert /\ t.policy = s.policy
      /\ t.role = s.role /\ t.secret = s.secret /\ t.lease = s.lease /\ t.identity = s.identity /\ t.audit = s.audit
  BY Zenon, <1>1 DEF Stores
<1>3. /\ u \in Stores /\ u.ca = x /\ u.pki = r.pki /\ u.cert = r.cert /\ u.policy = r.policy
      /\ u.role = r.role /\ u.secret = r.secret /\ u.lease = r.lease /\ u.identity = r.identity /\ u.audit = r.audit
  BY Zenon, <1>1 DEF Stores
<1> HIDE DEF t, u
<1>4. Same(t, u)
  BY Zenon, <1>1, <1>2, <1>3 DEF Same
<1>5. Logs(t, u) /\ ValidChain(t.audit)
  BY Zenon, <1>1, <1>2, <1>3 DEF Logs
<1> QED
  BY Zenon, <1>2, <1>3, <1>4, <1>5 DEF Follows, t, u

\* A change of the PKI roles on both sides.
LEMMA SetPKI ==
  ASSUME NEW s, NEW r, Follows(s, r), NEW x \in [PKIRoles -> CAs \cup {NoCA}]
  PROVE  Follows([s EXCEPT !.pki = x], [r EXCEPT !.pki = x])
<1> DEFINE t == [s EXCEPT !.pki = x]
           u == [r EXCEPT !.pki = x]
<1>1. s \in Stores /\ r \in Stores /\ Same(s, r) /\ Logs(s, r) /\ ValidChain(s.audit)
  BY Zenon DEF Follows
<1>2. /\ t \in Stores /\ t.pki = x /\ t.ca = s.ca /\ t.cert = s.cert /\ t.policy = s.policy
      /\ t.role = s.role /\ t.secret = s.secret /\ t.lease = s.lease /\ t.identity = s.identity /\ t.audit = s.audit
  BY Zenon, <1>1 DEF Stores
<1>3. /\ u \in Stores /\ u.pki = x /\ u.ca = r.ca /\ u.cert = r.cert /\ u.policy = r.policy
      /\ u.role = r.role /\ u.secret = r.secret /\ u.lease = r.lease /\ u.identity = r.identity /\ u.audit = r.audit
  BY Zenon, <1>1 DEF Stores
<1> HIDE DEF t, u
<1>4. Same(t, u)
  BY Zenon, <1>1, <1>2, <1>3 DEF Same
<1>5. Logs(t, u) /\ ValidChain(t.audit)
  BY Zenon, <1>1, <1>2, <1>3 DEF Logs
<1> QED
  BY Zenon, <1>2, <1>3, <1>4, <1>5 DEF Follows, t, u

\* A change of the issued certificates on both sides.
LEMMA SetIssued ==
  ASSUME NEW s, NEW r, Follows(s, r), NEW x \in SUBSET CAs
  PROVE  Follows([s EXCEPT !.cert = x], [r EXCEPT !.cert = x])
<1> DEFINE t == [s EXCEPT !.cert = x]
           u == [r EXCEPT !.cert = x]
<1>1. s \in Stores /\ r \in Stores /\ Same(s, r) /\ Logs(s, r) /\ ValidChain(s.audit)
  BY Zenon DEF Follows
<1>2. /\ t \in Stores /\ t.cert = x /\ t.ca = s.ca /\ t.pki = s.pki /\ t.policy = s.policy
      /\ t.role = s.role /\ t.secret = s.secret /\ t.lease = s.lease /\ t.identity = s.identity /\ t.audit = s.audit
  BY Zenon, <1>1 DEF Stores
<1>3. /\ u \in Stores /\ u.cert = x /\ u.ca = r.ca /\ u.pki = r.pki /\ u.policy = r.policy
      /\ u.role = r.role /\ u.secret = r.secret /\ u.lease = r.lease /\ u.identity = r.identity /\ u.audit = r.audit
  BY Zenon, <1>1 DEF Stores
<1> HIDE DEF t, u
<1>4. Same(t, u)
  BY Zenon, <1>1, <1>2, <1>3 DEF Same
<1>5. Logs(t, u) /\ ValidChain(t.audit)
  BY Zenon, <1>1, <1>2, <1>3 DEF Logs
<1> QED
  BY Zenon, <1>2, <1>3, <1>4, <1>5 DEF Follows, t, u

\* A change of the policies on both sides.
LEMMA SetPolicies ==
  ASSUME NEW s, NEW r, Follows(s, r), NEW x \in SUBSET Policies
  PROVE  Follows([s EXCEPT !.policy = x], [r EXCEPT !.policy = x])
<1> DEFINE t == [s EXCEPT !.policy = x]
           u == [r EXCEPT !.policy = x]
<1>1. s \in Stores /\ r \in Stores /\ Same(s, r) /\ Logs(s, r) /\ ValidChain(s.audit)
  BY Zenon DEF Follows
<1>2. /\ t \in Stores /\ t.policy = x /\ t.ca = s.ca /\ t.pki = s.pki /\ t.cert = s.cert
      /\ t.role = s.role /\ t.secret = s.secret /\ t.lease = s.lease /\ t.identity = s.identity /\ t.audit = s.audit
  BY Zenon, <1>1 DEF Stores
<1>3. /\ u \in Stores /\ u.policy = x /\ u.ca = r.ca /\ u.pki = r.pki /\ u.cert = r.cert
      /\ u.role = r.role /\ u.secret = r.secret /\ u.lease = r.lease /\ u.identity = r.identity /\ u.audit = r.audit
  BY Zenon, <1>1 DEF Stores
<1> HIDE DEF t, u
<1>4. Same(t, u)
  BY Zenon, <1>1, <1>2, <1>3 DEF Same
<1>5. Logs(t, u) /\ ValidChain(t.audit)
  BY Zenon, <1>1, <1>2, <1>3 DEF Logs
<1> QED
  BY Zenon, <1>2, <1>3, <1>4, <1>5 DEF Follows, t, u

\* A change of the roles on both sides.
LEMMA SetRoles ==
  ASSUME NEW s, NEW r, Follows(s, r), NEW x \in [Roles -> SUBSET Policies]
  PROVE  Follows([s EXCEPT !.role = x], [r EXCEPT !.role = x])
<1> DEFINE t == [s EXCEPT !.role = x]
           u == [r EXCEPT !.role = x]
<1>1. s \in Stores /\ r \in Stores /\ Same(s, r) /\ Logs(s, r) /\ ValidChain(s.audit)
  BY Zenon DEF Follows
<1>2. /\ t \in Stores /\ t.role = x /\ t.ca = s.ca /\ t.pki = s.pki /\ t.cert = s.cert
      /\ t.policy = s.policy /\ t.secret = s.secret /\ t.lease = s.lease /\ t.identity = s.identity /\ t.audit = s.audit
  BY Zenon, <1>1 DEF Stores
<1>3. /\ u \in Stores /\ u.role = x /\ u.ca = r.ca /\ u.pki = r.pki /\ u.cert = r.cert
      /\ u.policy = r.policy /\ u.secret = r.secret /\ u.lease = r.lease /\ u.identity = r.identity /\ u.audit = r.audit
  BY Zenon, <1>1 DEF Stores
<1> HIDE DEF t, u
<1>4. Same(t, u)
  BY Zenon, <1>1, <1>2, <1>3 DEF Same
<1>5. Logs(t, u) /\ ValidChain(t.audit)
  BY Zenon, <1>1, <1>2, <1>3 DEF Logs
<1> QED
  BY Zenon, <1>2, <1>3, <1>4, <1>5 DEF Follows, t, u

\* A change of the versions of the secret on both sides.
LEMMA SetSecret ==
  ASSUME NEW s, NEW r, Follows(s, r), NEW x \in Rows, NEW y \in Rows,
         Alike(x, y)
  PROVE  Follows([s EXCEPT !.secret = x], [r EXCEPT !.secret = y])
<1> DEFINE t == [s EXCEPT !.secret = x]
           u == [r EXCEPT !.secret = y]
<1>1. s \in Stores /\ r \in Stores /\ Same(s, r) /\ Logs(s, r) /\ ValidChain(s.audit)
  BY Zenon DEF Follows
<1>2. /\ t \in Stores /\ t.secret = x /\ t.ca = s.ca /\ t.pki = s.pki /\ t.cert = s.cert
      /\ t.policy = s.policy /\ t.role = s.role /\ t.lease = s.lease /\ t.identity = s.identity /\ t.audit = s.audit
  BY Zenon, <1>1 DEF Stores
<1>3. /\ u \in Stores /\ u.secret = y /\ u.ca = r.ca /\ u.pki = r.pki /\ u.cert = r.cert
      /\ u.policy = r.policy /\ u.role = r.role /\ u.lease = r.lease /\ u.identity = r.identity /\ u.audit = r.audit
  BY Zenon, <1>1 DEF Stores
<1> HIDE DEF t, u
<1>4. Same(t, u)
  BY Zenon, <1>1, <1>2, <1>3 DEF Same
<1>5. Logs(t, u) /\ ValidChain(t.audit)
  BY Zenon, <1>1, <1>2, <1>3 DEF Logs
<1> QED
  BY Zenon, <1>2, <1>3, <1>4, <1>5 DEF Follows, t, u

\* A change of the leases on both sides.
LEMMA SetLeases ==
  ASSUME NEW s, NEW r, Follows(s, r), NEW x \in [Leases -> Lease], NEW y \in [Leases -> Lease],
         \A l \in Leases : x[l].there = y[l].there /\ x[l].revoked = y[l].revoked
  PROVE  Follows([s EXCEPT !.lease = x], [r EXCEPT !.lease = y])
<1> DEFINE t == [s EXCEPT !.lease = x]
           u == [r EXCEPT !.lease = y]
<1>1. s \in Stores /\ r \in Stores /\ Same(s, r) /\ Logs(s, r) /\ ValidChain(s.audit)
  BY Zenon DEF Follows
<1>2. /\ t \in Stores /\ t.lease = x /\ t.ca = s.ca /\ t.pki = s.pki /\ t.cert = s.cert
      /\ t.policy = s.policy /\ t.role = s.role /\ t.secret = s.secret /\ t.identity = s.identity /\ t.audit = s.audit
  BY Zenon, <1>1 DEF Stores
<1>3. /\ u \in Stores /\ u.lease = y /\ u.ca = r.ca /\ u.pki = r.pki /\ u.cert = r.cert
      /\ u.policy = r.policy /\ u.role = r.role /\ u.secret = r.secret /\ u.identity = r.identity /\ u.audit = r.audit
  BY Zenon, <1>1 DEF Stores
<1> HIDE DEF t, u
<1>4. Same(t, u)
  BY Zenon, <1>1, <1>2, <1>3 DEF Same
<1>5. Logs(t, u) /\ ValidChain(t.audit)
  BY Zenon, <1>1, <1>2, <1>3 DEF Logs
<1> QED
  BY Zenon, <1>2, <1>3, <1>4, <1>5 DEF Follows, t, u

\* A change of the machine identities on both sides.
LEMMA SetIdentities ==
  ASSUME NEW s, NEW r, Follows(s, r), NEW x \in [Identities -> {"none", "active", "revoked"}], NEW y \in [Identities -> {"none", "active", "revoked"}]
  PROVE  Follows([s EXCEPT !.identity = x], [r EXCEPT !.identity = y])
<1> DEFINE t == [s EXCEPT !.identity = x]
           u == [r EXCEPT !.identity = y]
<1>1. s \in Stores /\ r \in Stores /\ Same(s, r) /\ Logs(s, r) /\ ValidChain(s.audit)
  BY Zenon DEF Follows
<1>2. /\ t \in Stores /\ t.identity = x /\ t.ca = s.ca /\ t.pki = s.pki /\ t.cert = s.cert
      /\ t.policy = s.policy /\ t.role = s.role /\ t.secret = s.secret /\ t.lease = s.lease /\ t.audit = s.audit
  BY Zenon, <1>1 DEF Stores
<1>3. /\ u \in Stores /\ u.identity = y /\ u.ca = r.ca /\ u.pki = r.pki /\ u.cert = r.cert
      /\ u.policy = r.policy /\ u.role = r.role /\ u.secret = r.secret /\ u.lease = r.lease /\ u.audit = r.audit
  BY Zenon, <1>1 DEF Stores
<1> HIDE DEF t, u
<1>4. Same(t, u)
  BY Zenon, <1>1, <1>2, <1>3 DEF Same
<1>5. Logs(t, u) /\ ValidChain(t.audit)
  BY Zenon, <1>1, <1>2, <1>3 DEF Logs
<1> QED
  BY Zenon, <1>2, <1>3, <1>4, <1>5 DEF Follows, t, u

\* A change of the audit log on both sides.
LEMMA SetAudit ==
  ASSUME NEW s, NEW r, Follows(s, r), NEW x \in Seq(Entry), NEW y \in Seq(Entry),
         ValidChain(x), Len(y) <= AuditLimit => x = y
  PROVE  Follows([s EXCEPT !.audit = x], [r EXCEPT !.audit = y])
<1> DEFINE t == [s EXCEPT !.audit = x]
           u == [r EXCEPT !.audit = y]
<1>1. s \in Stores /\ r \in Stores /\ Same(s, r) /\ Logs(s, r) /\ ValidChain(s.audit)
  BY Zenon DEF Follows
<1>2. /\ t \in Stores /\ t.audit = x /\ t.ca = s.ca /\ t.pki = s.pki /\ t.cert = s.cert
      /\ t.policy = s.policy /\ t.role = s.role /\ t.secret = s.secret /\ t.lease = s.lease /\ t.identity = s.identity
  BY Zenon, <1>1 DEF Stores
<1>3. /\ u \in Stores /\ u.audit = y /\ u.ca = r.ca /\ u.pki = r.pki /\ u.cert = r.cert
      /\ u.policy = r.policy /\ u.role = r.role /\ u.secret = r.secret /\ u.lease = r.lease /\ u.identity = r.identity
  BY Zenon, <1>1 DEF Stores
<1> HIDE DEF t, u
<1>4. Same(t, u)
  BY Zenon, <1>1, <1>2, <1>3 DEF Same
<1>5. Logs(t, u) /\ ValidChain(t.audit)
  BY Zenon, <1>1, <1>2, <1>3 DEF Logs
<1> QED
  BY Zenon, <1>2, <1>3, <1>4, <1>5 DEF Follows, t, u

-----------------------------------------------------------------------------
(* The versions of the secret.                                             *)

\* What Rows says of one of its members.
LEMMA RowsMember ==
  ASSUME NEW rows
  PROVE  rows \in Rows <=> \E n \in Nat : \E D \in SUBSET (1 .. n) : rows \in [D -> Row]
<1>1. rows \in Rows <=> \E D \in Numbers : rows \in [D -> Row]
  BY Zenon DEF Rows
<1>2. \A D : D \in Numbers <=> \E n \in Nat : D \in SUBSET (1 .. n)
  <2>1. \A n \in Nat : 1 .. n \subseteq Nat
    OBVIOUS
  <2> QED
    BY Zenon, <2>1 DEF Numbers
<1> QED
  BY Zenon, <1>1, <1>2

\* The rows after a write are rows.
LEMMA PutType ==
  ASSUME NEW rows \in Rows, NEW row \in Row, NEW keep \in Nat
  PROVE  PutAtomic(rows, row, keep) \in Rows
<1>1. PICK n \in Nat : \E D \in SUBSET (1 .. n) : rows \in [D -> Row]
  BY Zenon, RowsMember
<1>2. PICK D \in SUBSET (1 .. n) : rows \in [D -> Row]
  BY Zenon, <1>1
<1>3. DOMAIN rows = D /\ D \subseteq 1 .. n
  BY Zenon, <1>2
<1> DEFINE v == NextVersion(rows)
           A == Added(rows, row)
<1>4. v \in 1 .. n + 1
  <2>1. CASE D = {}
    BY <1>3, <2>1 DEF NextVersion
  <2>2. CASE D # {}
    <3>1. Max(D) \in 1 .. n
      BY Zenon, <1>3, <2>2, MaxOfBounded
    <3> QED
      BY <1>3, <2>2, <3>1 DEF NextVersion
  <2> QED
    BY <2>1, <2>2
<1> HIDE DEF v
<1>5. A = [w \in D \cup {v} |-> IF w = v THEN row ELSE rows[w]]
  BY Zenon, <1>3 DEF Added, v
<1>6. D \cup {v} \in SUBSET (1 .. n + 1) /\ n + 1 \in Nat
  BY <1>3, <1>4
<1>7. A \in [D \cup {v} -> Row]
  BY Zenon, <1>2, <1>5
<1> HIDE DEF A
<1>8. DOMAIN A = D \cup {v}
  BY Zenon, <1>7
<1>9. CASE keep > 0
  <2> DEFINE E == DOMAIN A \ Surplus(A, keep)
  <2>1. PutAtomic(rows, row, keep) = [w \in E |-> A[w]]
    BY Zenon, <1>9 DEF PutAtomic, Trim, A
  <2>2. E \in SUBSET (1 .. n + 1) /\ E \subseteq D \cup {v}
    BY <1>6, <1>8
  <2> HIDE DEF E
  <2>3. PutAtomic(rows, row, keep) \in [E -> Row]
    BY <1>7, <2>1, <2>2
  <2> QED
    BY Zenon, <1>6, <2>2, <2>3, RowsMember
<1>10. CASE ~(keep > 0)
  BY Zenon, <1>6, <1>7, <1>10, RowsMember DEF PutAtomic, A
<1> QED
  BY <1>9, <1>10

\* So are the rows after a version is destroyed.
LEMMA DestroyType ==
  ASSUME NEW rows \in Rows, NEW v \in DOMAIN rows
  PROVE  Destroy(rows, v) \in Rows
<1>1. PICK n \in Nat : \E D \in SUBSET (1 .. n) : rows \in [D -> Row]
  BY Zenon, RowsMember
<1>2. PICK D \in SUBSET (1 .. n) : rows \in [D -> Row]
  BY Zenon, <1>1
<1>3. Destroy(rows, v) \in [D -> Row]
  BY Zenon, <1>2 DEF Destroy, Row
<1> QED
  BY Zenon, <1>3, RowsMember

\* What decides about a write is the same for rows that are alike.
LEMMA AlikeDecides ==
  ASSUME NEW x, NEW y, Alike(x, y)
  PROVE  /\ Live(x) = Live(y) /\ NextVersion(x) = NextVersion(y)
         /\ \A cas : CasHolds(x, cas) <=> CasHolds(y, cas)
         /\ \A max : Surplus(x, max) = Surplus(y, max)
<1>1. Live(x) = Live(y)
  BY DEF Alike, Live
<1>2. NextVersion(x) = NextVersion(y)
  BY Zenon DEF Alike, NextVersion
<1>3. \A cas : CasHolds(x, cas) <=> CasHolds(y, cas)
  BY Zenon, <1>1 DEF CasHolds, HasLatest, Latest
<1>4. \A max : Surplus(x, max) = Surplus(y, max)
  BY Zenon, <1>1 DEF Surplus
<1> QED
  BY <1>1, <1>2, <1>3, <1>4

\* A write keeps rows alike.
LEMMA AlikePut ==
  ASSUME NEW x, NEW y, Alike(x, y), NEW row, NEW keep
  PROVE  Alike(PutAtomic(x, row, keep), PutAtomic(y, row, keep))
<1> DEFINE v == NextVersion(x)
           a == Added(x, row)
           b == Added(y, row)
<1>1. v = NextVersion(y) /\ DOMAIN x = DOMAIN y /\ \A w \in DOMAIN x : x[w].destroyed = y[w].destroyed
  BY Zenon, AlikeDecides DEF Alike
<1>2. a = [w \in DOMAIN x \cup {v} |-> IF w = v THEN row ELSE x[w]]
  BY Zenon DEF Added
<1>3. b = [w \in DOMAIN x \cup {v} |-> IF w = v THEN row ELSE y[w]]
  BY Zenon, <1>1 DEF Added
<1> HIDE DEF a, b, v
<1>4. Alike(a, b)
  BY <1>1, <1>2, <1>3 DEF Alike
<1>5. Surplus(a, keep) = Surplus(b, keep)
  BY Zenon, <1>4, AlikeDecides
<1>6. Alike(Trim(a, keep), Trim(b, keep))
  <2> DEFINE E == DOMAIN a \ Surplus(a, keep)
  <2>1. Trim(a, keep) = [w \in E |-> a[w]] /\ Trim(b, keep) = [w \in E |-> b[w]]
    BY Zenon, <1>4, <1>5 DEF Trim, Alike
  <2>2. \A w \in E : a[w].destroyed = b[w].destroyed
    BY Zenon, <1>4 DEF Alike
  <2> HIDE DEF E
  <2> QED
    BY <2>1, <2>2 DEF Alike
<1> QED
  BY Zenon, <1>4, <1>6 DEF PutAtomic, a, b

\* So does the destruction of a version.
LEMMA AlikeDestroy ==
  ASSUME NEW x \in Rows, NEW y \in Rows, Alike(x, y), NEW v \in DOMAIN x
  PROVE  Alike(Destroy(x, v), Destroy(y, v))
<1>1. \A w \in DOMAIN x : x[w] \in Row /\ y[w] \in Row
  <2>1. ASSUME NEW rows \in Rows, NEW w \in DOMAIN rows PROVE rows[w] \in Row
    <3>1. PICK n \in Nat : \E D \in SUBSET (1 .. n) : rows \in [D -> Row]
      BY Zenon, RowsMember
    <3> QED
      BY <3>1
  <2> QED
    BY <2>1 DEF Alike
<1> QED
  BY Zenon, <1>1 DEF Alike, Destroy, Row
-----------------------------------------------------------------------------
(* The handlers: what follows goes on to follow.                           *)

\* What it says that s follows r ...
LEMMA FollowsFields ==
  ASSUME NEW s, NEW r, Follows(s, r)
  PROVE  /\ s.ca = r.ca /\ s.pki = r.pki /\ s.cert = r.cert /\ s.policy = r.policy /\ s.role = r.role
         /\ Alike(s.secret, r.secret) /\ ValidChain(s.audit) /\ (Len(r.audit) <= AuditLimit => s.audit = r.audit)
         /\ \A l \in Leases : s.lease[l].there = r.lease[l].there /\ s.lease[l].revoked = r.lease[l].revoked
BY Zenon DEF Follows, Same, Logs

\* ... and of which types their tables are.
LEMMA FollowsTypes ==
  ASSUME NEW s, NEW r, Follows(s, r)
  PROVE  /\ s.ca \in SUBSET CAs /\ s.pki \in [PKIRoles -> CAs \cup {NoCA}] /\ s.cert \in SUBSET CAs
         /\ s.policy \in SUBSET Policies /\ s.role \in [Roles -> SUBSET Policies]
         /\ s.secret \in Rows /\ r.secret \in Rows /\ s.lease \in [Leases -> Lease] /\ r.lease \in [Leases -> Lease]
         /\ s.identity \in [Identities -> {"none", "active", "revoked"}]
         /\ r.identity \in [Identities -> {"none", "active", "revoked"}]
         /\ s.audit \in Seq(Entry) /\ r.audit \in Seq(Entry)
<1>1. s \in Stores /\ r \in Stores
  BY Zenon DEF Follows
<1> QED
  BY <1>1 DEF Stores

\* CARepository.Save and IssuedCertRepository.Save
LEMMA FollowCA ==
  ASSUME NEW s, NEW r, Follows(s, r), NEW c \in CAs
  PROVE  Follows(SaveCA(s, c), SaveCA(r, c)) /\ Follows(SaveIssued(s, c), SaveIssued(r, c))
<1>1. s.ca \cup {c} \in SUBSET CAs /\ s.cert \cup {c} \in SUBSET CAs
  BY FollowsTypes
<1>2. Follows(SaveCA(s, c), SaveCA(r, c))
  BY Zenon, <1>1, FollowsFields, SetCA DEF SaveCA
<1>3. Follows(SaveIssued(s, c), SaveIssued(r, c))
  BY Zenon, <1>1, FollowsFields, SetIssued DEF SaveIssued
<1> QED
  BY <1>2, <1>3

\* A PKI role is accepted by both or by neither.
LEMMA FollowPKIRole ==
  ASSUME NEW s, NEW r, Follows(s, r), NEW c \in CAs, NEW p \in PKIRoles
  PROVE  Follows(SavePKIRole(s, p, c), SavePKIRole(r, p, c))
<1>1. [s.pki EXCEPT ![p] = c] \in [PKIRoles -> CAs \cup {NoCA}]
  BY FollowsTypes
<1> QED
  BY Zenon, <1>1, FollowsFields, SetPKI DEF SavePKIRole

\* Policies come and go.
LEMMA FollowPolicy ==
  ASSUME NEW s, NEW r, Follows(s, r), NEW p \in Policies
  PROVE  Follows(SavePolicy(s, p), SavePolicy(r, p)) /\ Follows(DeletePolicy(s, p), DeletePolicy(r, p))
<1>1. s.policy \cup {p} \in SUBSET Policies /\ s.policy \ {p} \in SUBSET Policies
  BY FollowsTypes
<1>2. Follows(SavePolicy(s, p), SavePolicy(r, p))
  BY Zenon, <1>1, FollowsFields, SetPolicies DEF SavePolicy
<1>3. Follows(DeletePolicy(s, p), DeletePolicy(r, p))
  BY Zenon, <1>1, FollowsFields, SetPolicies DEF DeletePolicy
<1> QED
  BY <1>2, <1>3

\* So do roles; to delete one is to leave it no policies.
LEMMA FollowRole ==
  ASSUME NEW s, NEW r, Follows(s, r), NEW q \in Roles, NEW ps \in SUBSET Policies
  PROVE  Follows(SaveRole(s, q, ps), SaveRole(r, q, ps))
<1>1. [s.role EXCEPT ![q] = ps] \in [Roles -> SUBSET Policies]
  BY FollowsTypes
<1> QED
  BY Zenon, <1>1, FollowsFields, SetRoles DEF SaveRole

\* PutAtomic and DestroyVersion look at what is alike on both sides.
LEMMA FollowSecret ==
  ASSUME NEW s, NEW r, Follows(s, r), NEW cas, NEW keep \in Nat, NEW v
  PROVE  /\ Follows(PutSecret(s, cas, keep), PutSecret(r, cas, keep))
         /\ Follows(DestroySecret(s, v), DestroySecret(r, v))
<1> DEFINE row == [label |-> TRUE, destroyed |-> FALSE]
<1>1. row \in Row
  BY DEF Row
<1> HIDE DEF row
<1>2. s.secret \in Rows /\ r.secret \in Rows /\ Alike(s.secret, r.secret)
  BY Zenon, FollowsTypes, FollowsFields
<1>3. Follows(PutSecret(s, cas, keep), PutSecret(r, cas, keep))
  <2>1. PutAtomic(s.secret, row, keep) \in Rows /\ PutAtomic(r.secret, row, keep) \in Rows
    BY Zenon, <1>1, <1>2, PutType
  <2>2. Follows([s EXCEPT !.secret = PutAtomic(s.secret, row, keep)], [r EXCEPT !.secret = PutAtomic(r.secret, row, keep)])
    BY Zenon, <1>2, <2>1, AlikePut, SetSecret
  <2>3. CasHolds(s.secret, cas) <=> CasHolds(r.secret, cas)
    BY Zenon, <1>2, AlikeDecides
  <2> QED
    BY Zenon, <2>2, <2>3 DEF PutSecret, row
<1>4. Follows(DestroySecret(s, v), DestroySecret(r, v))
  <2>1. Live(s.secret) = Live(r.secret) /\ DOMAIN s.secret = DOMAIN r.secret
    BY Zenon, <1>2, AlikeDecides DEF Alike
  <2>2. CASE v \in Live(s.secret)
    <3>1. v \in DOMAIN s.secret /\ v \in DOMAIN r.secret
      BY Zenon, <2>1, <2>2 DEF Live
    <3>2. Destroy(s.secret, v) \in Rows /\ Destroy(r.secret, v) \in Rows
      BY Zenon, <1>2, <3>1, DestroyType
    <3>3. Follows([s EXCEPT !.secret = Destroy(s.secret, v)], [r EXCEPT !.secret = Destroy(r.secret, v)])
      BY Zenon, <1>2, <3>1, <3>2, AlikeDestroy, SetSecret
    <3> QED
      BY Zenon, <2>1, <2>2, <3>3 DEF DestroySecret, CanDestroy
  <2>3. CASE v \notin Live(s.secret)
    BY Zenon, <2>1, <2>3 DEF DestroySecret, CanDestroy
  <2> QED
    BY <2>2, <2>3
<1> QED
  BY <1>3, <1>4

\* Save overwrites a lease, Revoke marks one that is there.
LEMMA FollowLeases ==
  ASSUME NEW s, NEW r, Follows(s, r), NEW l \in Leases, NEW token \in BOOLEAN
  PROVE  /\ Follows(SaveLease(s, l, token), SaveLease(r, l, token))
         /\ Follows(RevokeLease(s, l), RevokeLease(r, l))
<1>1. /\ s.lease \in [Leases -> Lease] /\ r.lease \in [Leases -> Lease]
      /\ \A m \in Leases : s.lease[m].there = r.lease[m].there /\ s.lease[m].revoked = r.lease[m].revoked
  <2>1. s.lease \in [Leases -> Lease] /\ r.lease \in [Leases -> Lease]
    BY Zenon, FollowsTypes
  <2>2. \A m \in Leases : s.lease[m].there = r.lease[m].there /\ s.lease[m].revoked = r.lease[m].revoked
    BY ZenonT(60), FollowsFields
  <2> QED
    BY Zenon, <2>1, <2>2
<1>2. Follows(SaveLease(s, l, token), SaveLease(r, l, token))
  <2> DEFINE new == [there |-> TRUE, revoked |-> FALSE, token |-> token]
             x == [s.lease EXCEPT ![l] = new]
             y == [r.lease EXCEPT ![l] = new]
  <2>1. new \in Lease
    BY DEF Lease
  <2> HIDE DEF new
  <2>2. x \in [Leases -> Lease] /\ y \in [Leases -> Lease]
    BY Zenon, <1>1, <2>1
  <2>3. \A m \in Leases : x[m].there = y[m].there /\ x[m].revoked = y[m].revoked
    BY <1>1
  <2> HIDE DEF x, y
  <2>4. Follows([s EXCEPT !.lease = x], [r EXCEPT !.lease = y])
    BY Zenon, <2>2, <2>3, SetLeases
  <2> QED
    BY Zenon, <2>4 DEF SaveLease, x, y, new
<1>3. Follows(RevokeLease(s, l), RevokeLease(r, l))
  <2> DEFINE x == [s.lease EXCEPT ![l].revoked = TRUE]
             y == [r.lease EXCEPT ![l].revoked = TRUE]
  <2>1. x \in [Leases -> Lease] /\ y \in [Leases -> Lease]
    BY Zenon, <1>1 DEF Lease
  <2>2. \A m \in Leases : x[m].there = y[m].there /\ x[m].revoked = y[m].revoked
    BY ZenonT(60), <1>1 DEF Lease
  <2> HIDE DEF x, y
  <2>3. Follows([s EXCEPT !.lease = x], [r EXCEPT !.lease = y])
    BY Zenon, <2>1, <2>2, SetLeases
  <2> QED
    BY Zenon, <1>1, <2>3 DEF RevokeLease, x, y
<1> QED
  BY <1>2, <1>3

\* Machine identities are in no snapshot, so they need not be equal.
LEMMA FollowIdentities ==
  ASSUME NEW s, NEW r, Follows(s, r), NEW i \in Identities
  PROVE  /\ Follows(SaveIdentity(s, i), SaveIdentity(r, i))
         /\ Follows(RevokeIdentity(s, i), RevokeIdentity(r, i))
<1> DEFINE Kinds == {"none", "active", "revoked"}
<1>1. s.identity \in [Identities -> Kinds] /\ r.identity \in [Identities -> Kinds]
  BY Zenon, FollowsTypes
<1>2. \A k \in Kinds : [s.identity EXCEPT ![i] = k] \in [Identities -> Kinds] /\ [r.identity EXCEPT ![i] = k] \in [Identities -> Kinds]
  BY <1>1
<1>3. "active" \in Kinds /\ "revoked" \in Kinds
  OBVIOUS
<1>4. Follows(SaveIdentity(s, i), SaveIdentity(r, i))
  BY Zenon, <1>2, <1>3, SetIdentities DEF SaveIdentity
<1>5. /\ [s EXCEPT !.identity = s.identity] = s /\ [r EXCEPT !.identity = r.identity] = r
  BY FollowsTypes DEF Follows, Stores
<1>6. Follows(RevokeIdentity(s, i), RevokeIdentity(r, i))
  <2> DEFINE x == IF s.identity[i] = "none" THEN s.identity ELSE [s.identity EXCEPT ![i] = "revoked"]
             y == IF r.identity[i] = "none" THEN r.identity ELSE [r.identity EXCEPT ![i] = "revoked"]
  <2>1. x \in [Identities -> Kinds] /\ y \in [Identities -> Kinds]
    BY Zenon, <1>1, <1>2, <1>3
  <2>2. RevokeIdentity(s, i) = [s EXCEPT !.identity = x] /\ RevokeIdentity(r, i) = [r EXCEPT !.identity = y]
    BY Zenon, <1>5 DEF RevokeIdentity
  <2> HIDE DEF x, y
  <2>3. Follows([s EXCEPT !.identity = x], [r EXCEPT !.identity = y])
    BY Zenon, <2>1, SetIdentities
  <2> QED
    BY Zenon, <2>2, <2>3
<1> QED
  BY <1>4, <1>6

\* A sequence with one element more, as a function.
LEMMA AppendedAt ==
  ASSUME NEW q \in Seq(Times), NEW e \in Times, NEW n, Len(q) = n
  PROVE  Append(q, e) = [i \in 1 .. n + 1 |-> IF i = n + 1 THEN e ELSE q[i]]
<1> DEFINE z == Append(q, e)
           N == 1 .. n + 1
<1>1. n \in Nat /\ z \in Seq(Times) /\ Len(z) = n + 1
  OBVIOUS
<1>2. \A i \in N : z[i] = IF i = n + 1 THEN e ELSE q[i]
  BY <1>1
<1> HIDE DEF z
<1>3. DOMAIN z = N /\ z \in [N -> Times]
  BY <1>1
<1>4. z = [i \in N |-> z[i]]
  BY Zenon, <1>3
<1> HIDE DEF N
<1>5. [i \in N |-> z[i]] = [i \in N |-> IF i = n + 1 THEN e ELSE q[i]]
  BY Zenon, <1>2
<1> QED
  BY Zenon, <1>4, <1>5 DEF z, N

\* AppendAudit chains on the last entry of the log it finds.
LEMMA FollowAudit ==
  ASSUME NEW s, NEW r, Follows(s, r), NEW at \in Times
  PROVE  Follows(AppendAudit(s, at), AppendAudit(r, at))
<1> DEFINE Chained(audit) == Append(audit, [at |-> at, hash |-> Append(LatestHash(audit), at)])
           x == Chained(s.audit)
           y == Chained(r.audit)
<1>1. s.audit \in Seq(Entry) /\ r.audit \in Seq(Entry)
  BY Zenon, FollowsTypes
<1>2. ASSUME NEW audit \in Seq(Entry)
      PROVE  /\ LatestHash(audit) \in Seq(Times) /\ Chained(audit) \in Seq(Entry)
             /\ Len(Chained(audit)) = Len(audit) + 1 /\ Len(audit) \in Nat
  <2>1. LatestHash(audit) \in Seq(Times)
    <3>1. CASE audit = <<>>
      BY <3>1 DEF LatestHash
    <3>2. CASE audit # <<>>
      <4>1. audit[Len(audit)] \in Entry
        BY <3>2
      <4> QED
        BY <3>2, <4>1 DEF LatestHash, Entry
    <3> QED
      BY <3>1, <3>2
  <2>2. [at |-> at, hash |-> Append(LatestHash(audit), at)] \in Entry
    BY <2>1 DEF Entry
  <2> QED
    BY <2>1, <2>2
<1>3. ValidChain(x)
  <2> DEFINE a == s.audit
             n == Len(a)
             h == LatestHash(a)
             new == [at |-> at, hash |-> Append(h, at)]
  <2>1. n \in Nat /\ DOMAIN a = 1 .. n /\ h \in Seq(Times) /\ \A k \in 1 .. n : a[k].at \in Times
    <3>1. \A k \in 1 .. n : a[k] \in Entry
      BY <1>1
    <3>2. \A k \in 1 .. n : a[k].at \in Times
      BY <3>1 DEF Entry
    <3>3. n \in Nat /\ DOMAIN a = 1 .. n
      BY <1>1
    <3> QED
      BY Zenon, <1>1, <1>2, <3>2, <3>3
  <2>2. h = [i \in 1 .. n |-> a[i].at]
    <3>1. CASE n = 0
      BY <1>1, <2>1, <3>1 DEF LatestHash
    <3>2. CASE n # 0
      <4>1. ValidChain(a)
        BY Zenon, FollowsFields
      <4>2. a # <<>> /\ n \in DOMAIN a
        BY <1>1, <2>1, <3>2
      <4> QED
        BY Zenon, <4>1, <4>2 DEF LatestHash, ValidChain
    <3> QED
      BY <3>1, <3>2
  <2>3. Len(h) = n /\ \A i \in 1 .. n : h[i] = a[i].at
    BY <2>1, <2>2
  <2>4. x = Append(a, new)
    BY Zenon
  <2> HIDE DEF h, x
  <2>5. /\ DOMAIN x = 1 .. n + 1 /\ x[n + 1] = new /\ \A k \in 1 .. n : x[k] = a[k]
    <3>1. new \in Entry
      BY <2>1 DEF Entry
    <3> HIDE DEF new
    <3> QED
      BY <1>1, <2>4, <3>1
  <2>6. ASSUME NEW k \in 1 .. n + 1 PROVE x[k].hash = [i \in 1 .. k |-> x[i].at]
    <3>1. CASE k \in 1 .. n
      <4>1. a[k].hash = [i \in 1 .. k |-> a[i].at]
        <5>1. ValidChain(a)
          BY Zenon, FollowsFields
        <5> QED
          BY Zenon, <2>1, <3>1, <5>1 DEF ValidChain
      <4>2. \A i \in 1 .. k : x[i].at = a[i].at
        <5>1. \A i \in 1 .. k : i \in 1 .. n
          <6> HIDE DEF n
          <6> QED
            BY <2>1, <3>1
        <5> QED
          BY Zenon, <2>5, <5>1
      <4>3. [i \in 1 .. k |-> a[i].at] = [i \in 1 .. k |-> x[i].at]
        BY Zenon, <4>2
      <4> QED
        BY Zenon, <2>5, <3>1, <4>1, <4>3
    <3>2. CASE k = n + 1
      <4>1. x[k].hash = Append(h, at) /\ x[k].at = at
        BY <2>5, <3>2
      <4>2. Append(h, at) = [i \in 1 .. n + 1 |-> IF i = n + 1 THEN at ELSE h[i]]
        BY ZenonT(60), <2>1, <2>3, AppendedAt
      <4>3. \A i \in 1 .. n + 1 : x[i].at = IF i = n + 1 THEN at ELSE h[i]
        BY <2>1, <2>3, <2>5
      <4> QED
        BY Zenon, <3>2, <4>1, <4>2, <4>3
    <3> QED
      BY <2>1, <3>1, <3>2
  <2> QED
    BY Zenon, <2>5, <2>6 DEF ValidChain
<1>4. Len(y) <= AuditLimit => x = y
  <2>1. ASSUME Len(y) <= AuditLimit PROVE Len(r.audit) <= AuditLimit
    <3>1. Len(y) = Len(r.audit) + 1 /\ Len(r.audit) \in Nat /\ AuditLimit \in Nat
      BY <1>1, <1>2, RaftStoreAssumption
    <3> HIDE DEF y
    <3> QED
      BY <2>1, <3>1
  <2> QED
    BY Zenon, <2>1, FollowsFields
<1>5. x \in Seq(Entry) /\ y \in Seq(Entry)
  BY Zenon, <1>1, <1>2
<1> HIDE DEF x, y
<1>6. Follows([s EXCEPT !.audit = x], [r EXCEPT !.audit = y])
  BY Zenon, <1>3, <1>4, <1>5, SetAudit
<1> QED
  BY Zenon, <1>6 DEF AppendAudit, x, y

\* A snapshot that validates is imported by both or by neither.
LEMMA FollowImport ==
  ASSUME NEW s, NEW r, Follows(s, r), NEW b \in Stores
  PROVE  Follows(ImportSnapshot(s, b), ImportSnapshot(r, b))
<1>1. CASE Valid(b)
  <2>1. Same(b, b) /\ Logs(b, b)
    BY Zenon DEF Same, Alike, Logs
  <2>2. ValidChain(b.audit)
    BY Zenon, <1>1 DEF Valid
  <2>3. ImportSnapshot(s, b) = b /\ ImportSnapshot(r, b) = b
    BY Zenon, <1>1 DEF ImportSnapshot
  <2> QED
    BY Zenon, <2>1, <2>2, <2>3 DEF Follows
<1>2. CASE ~Valid(b)
  BY ZenonT(60), <1>2 DEF ImportSnapshot
<1> QED
  BY <1>1, <1>2

\* Store.Handle calls the handler that the command names.
LEMMA HandlerOf ==
  ASSUME NEW s, NEW c
  PROVE  /\ c.op = "ca.save" => Apply(s, c) = SaveCA(s, c.ca)
         /\ c.op = "issued.save" => Apply(s, c) = SaveIssued(s, c.ca)
         /\ c.op = "pki_role.save" => Apply(s, c) = SavePKIRole(s, c.role, c.ca)
         /\ c.op = "policy.save" => Apply(s, c) = SavePolicy(s, c.policy)
         /\ c.op = "policy.delete" => Apply(s, c) = DeletePolicy(s, c.policy)
         /\ c.op = "role.save" => Apply(s, c) = SaveRole(s, c.role, c.policies)
         /\ c.op = "role.delete" => Apply(s, c) = DeleteRole(s, c.role)
         /\ c.op = "secret.put" => Apply(s, c) = PutSecret(s, c.cas, c.keep)
         /\ c.op = "secret.destroy_version" => Apply(s, c) = DestroySecret(s, c.version)
         /\ c.op = "lease.save" => Apply(s, c) = SaveLease(s, c.lease, c.token)
         /\ c.op = "lease.revoke" => Apply(s, c) = RevokeLease(s, c.lease)
         /\ c.op = "machine_identity.save" => Apply(s, c) = SaveIdentity(s, c.identity)
         /\ c.op = "machine_identity.revoke" => Apply(s, c) = RevokeIdentity(s, c.identity)
         /\ c.op = "audit.append" => Apply(s, c) = AppendAudit(s, c.at)
         /\ c.op = "snapshot.import" => Apply(s, c) = ImportSnapshot(s, c.snapshot)
BY DEF Apply

\* A committed command keeps a store in step with the one it follows.
LEMMA FollowApply ==
  ASSUME NEW s, NEW r, Follows(s, r), NEW c \in Logged
  PROVE  Follows(Apply(s, c), Apply(r, c))
<1>1. CASE c \in [op : {"ca.save", "issued.save"}, ca : CAs]
  <2>1. c.ca \in CAs /\ (c.op = "ca.save" \/ c.op = "issued.save")
    BY <1>1
  <2> QED
    BY <2>1, HandlerOf, FollowCA
<1>2. CASE c \in [op : {"pki_role.save"}, role : PKIRoles, ca : CAs]
  <2>1. c.ca \in CAs /\ c.role \in PKIRoles /\ c.op = "pki_role.save"
    BY <1>2
  <2> QED
    BY <2>1, HandlerOf, FollowPKIRole
<1>3. CASE c \in [op : {"policy.save", "policy.delete"}, policy : Policies]
  <2>1. c.policy \in Policies /\ (c.op = "policy.save" \/ c.op = "policy.delete")
    BY ZenonT(60), <1>3
  <2> QED
    BY <2>1, HandlerOf, FollowPolicy
<1>4. CASE c \in [op : {"role.save"}, role : Roles, policies : (SUBSET Policies) \ {{}}]
  <2>1. c.role \in Roles /\ c.policies \in SUBSET Policies /\ c.op = "role.save"
    BY <1>4
  <2> QED
    BY <2>1, HandlerOf, FollowRole
<1>5. CASE c \in [op : {"role.delete"}, role : Roles]
  <2>1. c.role \in Roles /\ {} \in SUBSET Policies /\ c.op = "role.delete"
    BY <1>5
  <2>2. Follows(SaveRole(s, c.role, {}), SaveRole(r, c.role, {}))
    BY Zenon, <2>1, FollowRole
  <2> QED
    BY Zenon, <2>1, <2>2, HandlerOf DEF SaveRole, DeleteRole
<1>6. CASE c \in [op : {"secret.put"}, cas : Nat \cup {NoCas}, keep : Nat]
  <2>1. c.keep \in Nat /\ c.op = "secret.put"
    BY <1>6
  <2> QED
    BY <2>1, HandlerOf, FollowSecret
<1>7. CASE c \in [op : {"secret.destroy_version"}, version : Nat]
  <2>1. c.version \in Nat /\ c.op = "secret.destroy_version"
    BY <1>7
  <2> QED
    BY <2>1, HandlerOf, FollowSecret
<1>8. CASE c \in [op : {"lease.save"}, lease : Leases, token : BOOLEAN]
  <2>1. c.lease \in Leases /\ c.token \in BOOLEAN /\ c.op = "lease.save"
    BY <1>8
  <2> QED
    BY <2>1, HandlerOf, FollowLeases
<1>9. CASE c \in [op : {"lease.revoke"}, lease : Leases]
  <2>1. c.lease \in Leases /\ c.op = "lease.revoke"
    BY <1>9
  <2>2. Follows(RevokeLease(s, c.lease), RevokeLease(r, c.lease))
    BY Zenon, <2>1, FollowLeases
  <2> QED
    BY <2>1, <2>2, HandlerOf
<1>10. CASE c \in [op : {"machine_identity.save", "machine_identity.revoke"}, identity : Identities]
  <2>1. c.identity \in Identities /\ (c.op = "machine_identity.save" \/ c.op = "machine_identity.revoke")
    BY <1>10
  <2> QED
    BY <2>1, HandlerOf, FollowIdentities
<1>11. CASE c \in [op : {"audit.append"}, at : Times]
  <2>1. c.at \in Times /\ c.op = "audit.append"
    BY <1>11
  <2> QED
    BY <2>1, HandlerOf, FollowAudit
<1>12. CASE c \in [op : {"snapshot.import"}, snapshot : Stores]
  <2>1. c.snapshot \in Stores /\ c.op = "snapshot.import"
    BY <1>12
  <2> QED
    BY <2>1, HandlerOf, FollowImport
<1> QED
  BY ZenonT(60), <1>1, <1>2, <1>3, <1>4, <1>5, <1>6, <1>7, <1>8, <1>9, <1>10, <1>11, <1>12 DEF Logged, Command
-----------------------------------------------------------------------------
(* Snapshots.                                                              *)

\* What Export makes of a store, table by table.
LEMMA Exported ==
  ASSUME NEW s \in Stores, NEW incl \in BOOLEAN
  PROVE  LET d == Export(s, incl) IN
         /\ d.ca = s.ca /\ d.pki = s.pki /\ d.cert = s.cert /\ d.policy = s.policy /\ d.role = s.role
         /\ d.secret = [v \in DOMAIN s.secret |-> secretFromDomain(s.secret[v])]
         /\ d.lease = [l \in Leases |-> leaseFromDomain(s.lease[l])]
         /\ d.identity = [i \in Identities |-> "none"]
         /\ d.audit = IF incl THEN ListAudit(s.audit, AuditLimit) ELSE <<>>
         /\ DOMAIN d = DOMAIN s
<1> DEFINE a == [v \in DOMAIN s.secret |-> secretFromDomain(s.secret[v])]
           b == [l \in Leases |-> leaseFromDomain(s.lease[l])]
           c == [i \in Identities |-> "none"]
           e == IF incl THEN ListAudit(s.audit, AuditLimit) ELSE <<>>
           d == [s EXCEPT !.secret = a, !.lease = b, !.identity = c, !.audit = e]
<1>1. Export(s, incl) = d
  BY Zenon DEF Export
<1> HIDE DEF a, b, c, e
<1>2. /\ d.ca = s.ca /\ d.pki = s.pki /\ d.cert = s.cert /\ d.policy = s.policy /\ d.role = s.role
      /\ d.secret = a /\ d.lease = b /\ d.identity = c /\ d.audit = e /\ DOMAIN d = DOMAIN s
  BY DEF Stores
<1> HIDE DEF d
<1> QED
  BY Zenon, <1>1, <1>2 DEF a, b, c, e

\* An export is a store again.
LEMMA ExportedType ==
  ASSUME NEW s \in Stores, NEW incl \in BOOLEAN
  PROVE  Export(s, incl) \in Stores
<1> DEFINE a == [v \in DOMAIN s.secret |-> secretFromDomain(s.secret[v])]
           b == [l \in Leases |-> leaseFromDomain(s.lease[l])]
           c == [i \in Identities |-> "none"]
           e == IF incl THEN ListAudit(s.audit, AuditLimit) ELSE <<>>
<1>0. s.secret \in Rows /\ s.lease \in [Leases -> Lease] /\ s.audit \in Seq(Entry) /\ AuditLimit \in Nat
  BY RaftStoreAssumption DEF Stores
<1>1. a \in Rows
  <2>1. PICK n \in Nat : \E D \in SUBSET (1 .. n) : s.secret \in [D -> Row]
    BY Zenon, <1>0, RowsMember
  <2>2. PICK D \in SUBSET (1 .. n) : s.secret \in [D -> Row]
    BY Zenon, <2>1
  <2>3. a \in [D -> Row]
    BY <2>2 DEF secretFromDomain, Row
  <2> HIDE DEF a
  <2> QED
    BY Zenon, <2>3, RowsMember
<1>2. b \in [Leases -> Lease]
  BY Zenon, <1>0 DEF leaseFromDomain, Lease
<1>3. c \in [Identities -> {"none", "active", "revoked"}]
  OBVIOUS
<1>4. e \in Seq(Entry)
  <2>1. <<>> \in Seq(Entry)
    OBVIOUS
  <2> QED
    BY Zenon, <1>0, <2>1, ListedType
<1> DEFINE d == [s EXCEPT !.secret = a, !.lease = b, !.identity = c, !.audit = e]
<1>5. Export(s, incl) = d
  BY Zenon DEF Export
<1> HIDE DEF a, b, c, e
<1>6. d \in Stores
  BY Zenon, <1>1, <1>2, <1>3, <1>4 DEF Stores
<1> QED
  BY Zenon, <1>5, <1>6

\* It has the tables of the store that it was made of ...
LEMMA ExportSame ==
  ASSUME NEW s \in Stores, NEW r, Same(s, r), NEW incl \in BOOLEAN
  PROVE  Same(Export(s, incl), r)
<1> DEFINE d == Export(s, incl)
<1>1. /\ d.ca = s.ca /\ d.pki = s.pki /\ d.cert = s.cert /\ d.policy = s.policy /\ d.role = s.role
      /\ d.secret = [v \in DOMAIN s.secret |-> secretFromDomain(s.secret[v])]
      /\ d.lease = [l \in Leases |-> leaseFromDomain(s.lease[l])]
  BY Zenon, Exported
<1> HIDE DEF d
<1>2. Alike(d.secret, r.secret)
  <2>1. Alike(s.secret, r.secret)
    BY Zenon DEF Same
  <2> QED
    BY <1>1, <2>1 DEF Alike, secretFromDomain
<1>3. ASSUME NEW l \in Leases PROVE d.lease[l].there = r.lease[l].there /\ d.lease[l].revoked = r.lease[l].revoked
  <2>1. s.lease[l] \in Lease
    BY DEF Stores
  <2>2. d.lease[l] = [s.lease[l] EXCEPT !.token = FALSE]
    BY Zenon, <1>1 DEF leaseFromDomain
  <2>3. d.lease[l].there = s.lease[l].there /\ d.lease[l].revoked = s.lease[l].revoked
    BY <2>1, <2>2 DEF Lease
  <2> QED
    BY Zenon, <2>3 DEF Same
<1> QED
  BY Zenon, <1>1, <1>2, <1>3 DEF Same, d

\* ... and, where it validates, its audit log.
LEMMA ExportLogs ==
  ASSUME NEW s, NEW r, Follows(s, r), Valid(Export(s, TRUE))
  PROVE  Logs(Export(s, TRUE), r)
<1> DEFINE d == Export(s, TRUE)
<1> SUFFICES ASSUME Len(r.audit) <= AuditLimit PROVE d.audit = r.audit
  BY Zenon DEF Logs
<1>1. s \in Stores /\ ValidChain(s.audit) /\ s.audit = r.audit /\ s.audit \in Seq(Entry)
  BY Zenon, FollowsTypes, FollowsFields DEF Follows
<1>2. d.audit = ListAudit(s.audit, AuditLimit)
  BY Zenon, <1>1, Exported
<1>3. ValidChain(ListAudit(s.audit, AuditLimit))
  BY Zenon, <1>2 DEF Valid
<1>4. AuditLimit \in Nat
  BY RaftStoreAssumption
<1> QED
  BY Zenon, <1>1, <1>2, <1>3, <1>4, ListedInOrder

\* Stores with the same tables export the same.
LEMMA SameTables ==
  ASSUME NEW s \in Stores, NEW r \in Stores, Same(s, r)
  PROVE  Tables(s) = Tables(r)
<1> DEFINE a(t) == [v \in DOMAIN t.secret |-> secretFromDomain(t.secret[v])]
           b(t) == [l \in Leases |-> leaseFromDomain(t.lease[l])]
<1>1. a(s) = a(r)
  <2>1. Alike(s.secret, r.secret)
    BY Zenon DEF Same
  <2> QED
    BY Zenon, <2>1 DEF Alike, secretFromDomain
<1>2. b(s) = b(r)
  <2>1. \A l \in Leases : /\ s.lease[l] \in Lease /\ r.lease[l] \in Lease
                          /\ s.lease[l].there = r.lease[l].there /\ s.lease[l].revoked = r.lease[l].revoked
    <3>1. s.lease \in [Leases -> Lease] /\ r.lease \in [Leases -> Lease]
      BY DEF Stores
    <3> QED
      BY Zenon, <3>1 DEF Same
  <2>2. \A l \in Leases : leaseFromDomain(s.lease[l]) = leaseFromDomain(r.lease[l])
    BY Zenon, <2>1 DEF leaseFromDomain, Lease
  <2> QED
    BY Zenon, <2>2
<1> DEFINE c == [i \in Identities |-> "none"]
           T(t) == [t EXCEPT !.secret = a(t), !.lease = b(t), !.identity = c, !.audit = <<>>]
<1>3. Tables(s) = T(s) /\ Tables(r) = T(r)
  BY Zenon DEF Tables, Export
<1>4. s.ca = r.ca /\ s.pki = r.pki /\ s.cert = r.cert /\ s.policy = r.policy /\ s.role = r.role
  BY Zenon DEF Same
<1> HIDE DEF a, b, c
<1>5. T(s) = T(r)
  BY Zenon, <1>1, <1>2, <1>4 DEF Stores
<1> QED
  BY Zenon, <1>3, <1>5
-----------------------------------------------------------------------------
(* The inductive invariant.                                                *)

\* The store after i commands is what the i-th command made of the one before,
\* and every one of them has an audit log whose chain is whole.
History ==
  /\ ref[1] = NewStore
  /\ \A i \in 1 .. Len(log) : ref[i + 1] = Apply(ref[i], log[i])
  /\ \A i \in 1 .. Len(ref) : ValidChain(ref[i].audit)

\* A replica follows the history at the place it has applied.
Replica(n) ==
  LET r == ref[applied[n] + 1]
  IN  Same(store[n], r) /\ Logs(store[n], r) /\ ValidChain(store[n].audit)

\* So does a snapshot at its index: in the tables always, in the audit log
\* where it validates.  One that does not may have its entries out of order.
Saved(n) ==
  LET r == ref[snap[n].index + 1]
  IN  Same(snap[n].data, r) /\ (Valid(snap[n].data) => Logs(snap[n].data, r))

RaftShape == History /\ \A n \in Nodes : Replica(n) /\ Saved(n)

\* Types, and that nothing is ahead of the committed log.
RaftTypes ==
  /\ log \in Seq(Logged) /\ ref \in Seq(Stores) /\ Len(ref) = Len(log) + 1
  /\ store \in [Nodes -> Stores] /\ backups \subseteq Stores
  /\ applied \in [Nodes -> Nat] /\ \A n \in Nodes : applied[n] <= Len(log)
  /\ snap \in [Nodes -> [index : Nat, data : Stores]]
  /\ \A n \in Nodes : snap[n].index <= Len(log)

RaftInv == RaftTypes /\ RaftShape

\* The empty store is a store, and follows itself.
LEMMA EmptyFollows == Follows(NewStore, NewStore)
<1>1. NoRows \in Rows
  <2>1. NoRows \in [{} -> Row] /\ 0 \in Nat /\ {} \in SUBSET (1 .. 0)
    BY DEF NoRows
  <2> HIDE DEF NoRows
  <2> QED
    BY Zenon, <2>1, RowsMember
<1>2. NewStore \in Stores
  <2> HIDE DEF NoRows
  <2> QED
    BY <1>1 DEF NewStore, Stores, NoLease, Lease
<1>3. Same(NewStore, NewStore) /\ Logs(NewStore, NewStore)
  BY Zenon DEF Same, Logs, Alike
<1>4. ValidChain(NewStore.audit)
  BY DEF NewStore, ValidChain
<1> QED
  BY Zenon, <1>2, <1>3, <1>4 DEF Follows

\* A store of the history follows itself, a replica follows its place.
LEMMA InvFollows ==
  ASSUME RaftInv
  PROVE  /\ \A i \in 1 .. Len(ref) : ref[i] \in Stores /\ Follows(ref[i], ref[i])
         /\ \A n \in Nodes : applied[n] + 1 \in 1 .. Len(ref) /\ Follows(store[n], ref[applied[n] + 1])
         /\ \A n \in Nodes : snap[n].index + 1 \in 1 .. Len(ref) /\ snap[n].data \in Stores /\ snap[n].index \in Nat
<1>1. \A i \in 1 .. Len(ref) : ref[i] \in Stores
  BY DEF RaftInv, RaftTypes
<1>2. \A i \in 1 .. Len(ref) : Follows(ref[i], ref[i])
  BY Zenon, <1>1 DEF RaftInv, RaftShape, History, Follows, Same, Logs, Alike
<1>3. ASSUME NEW n \in Nodes PROVE applied[n] + 1 \in 1 .. Len(ref) /\ snap[n].index + 1 \in 1 .. Len(ref)
  BY DEF RaftInv, RaftTypes
<1>4. ASSUME NEW n \in Nodes PROVE snap[n].data \in Stores /\ snap[n].index \in Nat /\ store[n] \in Stores
  BY DEF RaftInv, RaftTypes
<1>5. \A n \in Nodes : Follows(store[n], ref[applied[n] + 1])
  BY Zenon, <1>1, <1>3, <1>4 DEF RaftInv, RaftShape, Replica, Follows
<1> QED
  BY Zenon, <1>1, <1>2, <1>3, <1>4, <1>5

\* Initially.
LEMMA RaftInit == Init => RaftInv
<1> SUFFICES ASSUME Init PROVE RaftInv
  OBVIOUS
<1>1. NewStore \in Stores /\ Same(NewStore, NewStore) /\ Logs(NewStore, NewStore) /\ ValidChain(NewStore.audit)
  BY Zenon, EmptyFollows DEF Follows
<1>2. RaftTypes
  BY <1>1 DEF Init, RaftTypes, NoSnap
<1>3. History
  BY <1>1 DEF Init, History
<1>4. ASSUME NEW n \in Nodes PROVE Replica(n) /\ Saved(n)
  <2>1. store[n] = NewStore /\ ref[applied[n] + 1] = NewStore
    BY DEF Init
  <2>2. snap[n].data = NewStore /\ ref[snap[n].index + 1] = NewStore
    BY DEF Init, NoSnap
  <2> QED
    BY Zenon, <1>1, <2>1, <2>2 DEF Replica, Saved
<1> QED
  BY Zenon, <1>2, <1>3, <1>4 DEF RaftInv, RaftShape

\* A commit leaves the history in place and adds what the command makes of
\* its end.
LEMMA Committed ==
  ASSUME RaftInv, NEW c \in Logged, Commit(c)
  PROVE  RaftInv'
<1> DEFINE next == Apply(Current, c)
<1>1. log \in Seq(Logged) /\ ref \in Seq(Stores) /\ Len(ref) = Len(log) + 1 /\ Len(log) \in Nat
  BY DEF RaftInv, RaftTypes
<1>2. Len(ref) \in 1 .. Len(ref)
  BY <1>1
<1>3. Follows(next, next)
  BY Zenon, <1>2, InvFollows, FollowApply DEF Current
<1>4. next \in Stores /\ ValidChain(next.audit)
  BY Zenon, <1>3 DEF Follows
<1>5. /\ log' = Append(log, c) /\ ref' = Append(ref, next) /\ store' = store /\ applied' = applied
      /\ snap' = snap /\ backups' = backups
  BY Zenon DEF Commit
<1>6. next = Apply(ref[Len(log) + 1], c)
  BY <1>1 DEF Current
<1> HIDE DEF next
<1>7. /\ log' \in Seq(Logged) /\ ref' \in Seq(Stores) /\ Len(log') = Len(log) + 1 /\ Len(ref') = Len(ref) + 1
      /\ ref'[Len(ref) + 1] = next /\ log'[Len(log) + 1] = c
  BY SMTT(30), <1>1, <1>4, <1>5
<1>8. /\ \A i \in 1 .. Len(ref) : ref'[i] = ref[i]
      /\ \A i \in 1 .. Len(log) : log'[i] = log[i]
  BY <1>1, <1>4, <1>5
<1>9. RaftTypes'
  <2>1. \A n \in Nodes : applied'[n] <= Len(log') /\ snap'[n].index <= Len(log')
    BY SMTT(30), <1>1, <1>5, <1>7 DEF RaftInv, RaftTypes
  <2>2. Len(ref') = Len(log') + 1
    BY <1>1, <1>7
  <2> QED
    BY Zenon, <1>5, <1>7, <2>1, <2>2 DEF RaftInv, RaftTypes
<1>10. History'
  <2>1. ref'[1] = NewStore
    <3>1. 1 \in 1 .. Len(ref)
      BY <1>1
    <3> QED
      BY Zenon, <1>8, <3>1 DEF RaftInv, RaftShape, History
  <2>2. ASSUME NEW i \in 1 .. Len(log') PROVE ref'[i + 1] = Apply(ref'[i], log'[i])
    <3>1. CASE i \in 1 .. Len(log)
      <4>1. i \in 1 .. Len(ref) /\ i + 1 \in 1 .. Len(ref)
        BY <1>1, <3>1
      <4> QED
        BY Zenon, <1>8, <3>1, <4>1 DEF RaftInv, RaftShape, History
    <3>2. CASE i = Len(log) + 1
      <4>1. i \in 1 .. Len(ref) /\ i + 1 = Len(ref) + 1
        BY <1>1, <3>2
      <4>2. ref'[i + 1] = next /\ log'[i] = c /\ ref'[i] = ref[i]
        BY Zenon, <1>7, <1>8, <3>2, <4>1
      <4> QED
        BY Zenon, <1>6, <3>2, <4>2
    <3> QED
      BY SMTT(30), <1>1, <1>7, <3>1, <3>2
  <2>3. ASSUME NEW i \in 1 .. Len(ref') PROVE ValidChain(ref'[i].audit)
    <3>1. CASE i \in 1 .. Len(ref)
      BY Zenon, <1>8, <3>1 DEF RaftInv, RaftShape, History
    <3>2. CASE i = Len(ref) + 1
      BY Zenon, <1>4, <1>7, <3>2
    <3> QED
      BY SMTT(30), <1>1, <1>7, <3>1, <3>2
  <2> QED
    BY Zenon, <2>1, <2>2, <2>3 DEF History
<1>11. ASSUME NEW n \in Nodes PROVE Replica(n)' /\ Saved(n)'
  <2>1. applied[n] + 1 \in 1 .. Len(ref) /\ snap[n].index + 1 \in 1 .. Len(ref)
    BY Zenon, InvFollows
  <2>2. ref'[applied[n] + 1] = ref[applied[n] + 1] /\ ref'[snap[n].index + 1] = ref[snap[n].index + 1]
    BY Zenon, <1>8, <2>1
  <2>3. Replica(n) /\ Saved(n)
    BY Zenon DEF RaftInv, RaftShape
  <2> QED
    BY Zenon, <1>5, <2>2, <2>3 DEF Replica, Saved
<1> QED
  BY Zenon, <1>9, <1>10, <1>11 DEF RaftInv, RaftShape

\* A snapshot p that can stand on a disk.
Sound(p) ==
  /\ p \in [index : Nat, data : Stores] /\ p.index <= Len(log)
  /\ Same(p.data, ref[p.index + 1]) /\ (Valid(p.data) => Logs(p.data, ref[p.index + 1]))

\* One replica gets another memory, another snapshot, or both.
LEMMA Moved ==
  ASSUME RaftInv, NEW n \in Nodes, NEW k \in 0 .. Len(log), NEW s, Follows(s, ref[k + 1]), NEW p, Sound(p),
         store' = [store EXCEPT ![n] = s], applied' = [applied EXCEPT ![n] = k], snap' = [snap EXCEPT ![n] = p],
         log' = log, ref' = ref, backups' \subseteq Stores
  PROVE  RaftInv'
<1>1. /\ log \in Seq(Logged) /\ ref \in Seq(Stores) /\ Len(ref) = Len(log) + 1 /\ Len(log) \in Nat
      /\ store \in [Nodes -> Stores] /\ applied \in [Nodes -> Nat] /\ snap \in [Nodes -> [index : Nat, data : Stores]]
  BY DEF RaftInv, RaftTypes
<1>2. s \in Stores /\ k \in Nat /\ k <= Len(log) /\ p \in [index : Nat, data : Stores] /\ p.index <= Len(log)
  <2>1. s \in Stores /\ p \in [index : Nat, data : Stores] /\ p.index <= Len(log)
    BY Zenon DEF Follows, Sound
  <2> QED
    BY <1>1, <2>1
<1>3. /\ store'[n] = s /\ applied'[n] = k /\ snap'[n] = p
      /\ \A m \in Nodes \ {n} : store'[m] = store[m] /\ applied'[m] = applied[m] /\ snap'[m] = snap[m]
  BY <1>1
<1>4. /\ store' \in [Nodes -> Stores] /\ applied' \in [Nodes -> Nat]
      /\ snap' \in [Nodes -> [index : Nat, data : Stores]]
  BY Zenon, <1>1, <1>2
<1>5. RaftTypes'
  <2>1. \A m \in Nodes : applied'[m] <= Len(log) /\ snap'[m].index <= Len(log)
    BY Zenon, <1>2, <1>3 DEF RaftInv, RaftTypes
  <2> QED
    BY Zenon, <1>1, <1>4, <2>1 DEF RaftTypes
<1>6. History'
  <2>1. History
    BY Zenon DEF RaftInv, RaftShape
  <2> QED
    BY Zenon, <2>1 DEF History
<1>7. ASSUME NEW m \in Nodes PROVE Replica(m)' /\ Saved(m)'
  <2>1. CASE m = n
    BY Zenon, <1>3, <2>1 DEF Replica, Saved, Follows, Sound
  <2>2. CASE m # n
    <3>1. Replica(m) /\ Saved(m)
      BY Zenon DEF RaftInv, RaftShape
    <3>2. store'[m] = store[m] /\ applied'[m] = applied[m] /\ snap'[m] = snap[m]
      BY Zenon, <1>3, <2>2
    <3> QED
      BY Zenon, <3>1, <3>2 DEF Replica, Saved
  <2> QED
    BY Zenon, <2>1, <2>2
<1> QED
  BY Zenon, <1>5, <1>6, <1>7 DEF RaftInv, RaftShape

\* What every replica has can stay as it is.
LEMMA AsItIs ==
  ASSUME RaftInv, NEW n \in Nodes
  PROVE  /\ store = [store EXCEPT ![n] = store[n]] /\ applied = [applied EXCEPT ![n] = applied[n]]
         /\ snap = [snap EXCEPT ![n] = snap[n]] /\ Sound(snap[n]) /\ backups \subseteq Stores
         /\ applied[n] \in 0 .. Len(log) /\ Follows(store[n], ref[applied[n] + 1])
<1>1. /\ store \in [Nodes -> Stores] /\ applied \in [Nodes -> Nat] /\ snap \in [Nodes -> [index : Nat, data : Stores]]
      /\ Len(log) \in Nat /\ backups \subseteq Stores
  BY DEF RaftInv, RaftTypes
<1>2. /\ store = [store EXCEPT ![n] = store[n]] /\ applied = [applied EXCEPT ![n] = applied[n]]
      /\ snap = [snap EXCEPT ![n] = snap[n]]
  BY <1>1
<1>3. applied[n] \in 0 .. Len(log)
  BY <1>1 DEF RaftInv, RaftTypes
<1>4. Sound(snap[n])
  BY Zenon, <1>1 DEF RaftInv, RaftTypes, RaftShape, Saved, Sound
<1> QED
  BY Zenon, <1>1, <1>2, <1>3, <1>4, InvFollows

\* Update: the replica applies the command that the history applied there.
LEMMA Updated ==
  ASSUME RaftInv, NEW n \in Nodes, Update(n)
  PROVE  RaftInv'
<1> DEFINE k == applied[n] + 1
           s == Apply(store[n], log[k])
<1>1. /\ applied[n] < Len(log) /\ log' = log /\ ref' = ref /\ snap' = snap /\ backups' = backups
      /\ store' = [store EXCEPT ![n] = Apply(@, log[applied[n] + 1])]
      /\ applied' = [applied EXCEPT ![n] = @ + 1]
  BY Zenon DEF Update
<1>2. k \in 1 .. Len(log) /\ k \in 0 .. Len(log) /\ log[k] \in Logged
  BY <1>1 DEF RaftInv, RaftTypes
<1>3. store' = [store EXCEPT ![n] = s] /\ applied' = [applied EXCEPT ![n] = k]
  BY <1>1
<1>4. Follows(s, Apply(ref[k], log[k]))
  BY Zenon, <1>2, InvFollows, FollowApply
<1>5. ref[k + 1] = Apply(ref[k], log[k])
  <2> HIDE DEF k
  <2> QED
    BY Zenon, <1>2 DEF RaftInv, RaftShape, History
<1>6. Follows(s, ref[k + 1])
  BY Zenon, <1>4, <1>5
<1>7. snap' = [snap EXCEPT ![n] = snap[n]] /\ Sound(snap[n]) /\ backups' \subseteq Stores
  BY Zenon, <1>1, AsItIs
<1>8. log' = log /\ ref' = ref /\ k \in 0 .. Len(log)
  BY Zenon, <1>1, <1>2
<1> HIDE DEF k, s
<1> QED
  BY Zenon, <1>3, <1>6, <1>7, <1>8, Moved

\* SaveSnapshot: the export of a replica that follows can stand on its disk.
LEMMA SnapshotSaved ==
  ASSUME RaftInv, NEW n \in Nodes, SaveSnapshot(n)
  PROVE  RaftInv'
<1> DEFINE p == [index |-> applied[n], data |-> Export(store[n], TRUE)]
<1>1. /\ log' = log /\ ref' = ref /\ store' = store /\ applied' = applied /\ backups' = backups
      /\ snap' = [snap EXCEPT ![n] = p]
  BY Zenon DEF SaveSnapshot
<1>2. /\ Follows(store[n], ref[applied[n] + 1]) /\ store[n] \in Stores /\ Same(store[n], ref[applied[n] + 1])
      /\ applied[n] \in 0 .. Len(log) /\ Len(log) \in Nat
  <2>1. Len(log) \in Nat
    BY DEF RaftInv, RaftTypes
  <2> QED
    BY Zenon, <2>1, AsItIs DEF Follows
<1>3. /\ Export(store[n], TRUE) \in Stores /\ Same(Export(store[n], TRUE), ref[applied[n] + 1])
      /\ (Valid(Export(store[n], TRUE)) => Logs(Export(store[n], TRUE), ref[applied[n] + 1]))
  BY Zenon, <1>2, ExportedType, ExportSame, ExportLogs
<1>4. p \in [index : Nat, data : Stores] /\ p.index <= Len(log) /\ p.index = applied[n] /\ p.data = Export(store[n], TRUE)
  <2> DEFINE e == Export(store[n], TRUE)
  <2>1. e \in Stores /\ applied[n] \in Nat /\ applied[n] <= Len(log)
    BY Zenon, <1>3 DEF RaftInv, RaftTypes
  <2> HIDE DEF e
  <2>2. [index |-> applied[n], data |-> e] \in [index : Nat, data : Stores]
    BY <2>1
  <2>3. p.index = applied[n] /\ p.data = Export(store[n], TRUE)
    BY Zenon
  <2> QED
    BY Zenon, <2>1, <2>2, <2>3 DEF e
<1> HIDE DEF p
<1>5. Sound(p)
  BY Zenon, <1>3, <1>4 DEF Sound
<1> QED
  BY Zenon, <1>1, <1>5, AsItIs, Moved

\* Stop: an empty store follows the history where it starts.
LEMMA Stopped ==
  ASSUME RaftInv, NEW n \in Nodes, NEW how, Stop(n, how), NEW p, Sound(p), snap' = [snap EXCEPT ![n] = p],
         log' = log, ref' = ref, backups' = backups
  PROVE  RaftInv'
<1>1. store' = [store EXCEPT ![n] = NewStore] /\ applied' = [applied EXCEPT ![n] = 0]
  BY Zenon DEF Stop
<1>2. 0 \in 0 .. Len(log) /\ 0 + 1 = 1
  BY DEF RaftInv, RaftTypes
<1>3. Follows(NewStore, ref[0 + 1])
  BY Zenon, <1>2, EmptyFollows DEF RaftInv, RaftShape, History
<1> QED
  BY Zenon, <1>1, <1>2, <1>3, AsItIs, Moved

\* RecoverFromSnapshot: a snapshot that validates follows the history at its
\* index; one that does not leaves an empty store.
LEMMA Recovered ==
  ASSUME RaftInv, NEW n \in Nodes, NEW p, Sound(p), RecoverFromSnapshot(n, p), snap' = [snap EXCEPT ![n] = p],
         log' = log, ref' = ref, backups' = backups
  PROVE  RaftInv'
<1>1. CASE Valid(p.data)
  <2>1. p \in [index : Nat, data : Stores] /\ p.index <= Len(log)
    BY Zenon DEF Sound
  <2>2. p.index \in 0 .. Len(log) /\ p.data \in Stores /\ p.index + 1 \in 1 .. Len(ref)
    BY <2>1 DEF RaftInv, RaftTypes
  <2>3. Follows(p.data, ref[p.index + 1])
    <3>1. ref[p.index + 1] \in Stores
      BY Zenon, <2>2, InvFollows
    <3> QED
      BY Zenon, <1>1, <2>2, <3>1 DEF Sound, Follows, Valid
  <2>4. store' = [store EXCEPT ![n] = p.data] /\ applied' = [applied EXCEPT ![n] = p.index]
    BY Zenon, <1>1 DEF RecoverFromSnapshot, ImportSnapshot
  <2> QED
    BY Zenon, <2>2, <2>3, <2>4, AsItIs, Moved
<1>2. CASE ~Valid(p.data)
  <2>1. Stop(n, "failed")
    BY Zenon, <1>2 DEF RecoverFromSnapshot
  <2> QED
    BY Zenon, <2>1, Stopped
<1> QED
  BY Zenon, <1>1, <1>2

\* Every step keeps the invariant.
LEMMA RaftNext ==
  ASSUME RaftInv, [Next]_vars
  PROVE  RaftInv'
<1>1. ASSUME NEW c \in Cmds, Propose(c) PROVE RaftInv'
  <2>1. c \in Logged /\ Commit(c)
    BY Zenon, <1>1, RaftStoreAssumption DEF Propose, Logged
  <2> QED
    BY Zenon, <2>1, Committed
<1>2. ASSUME CreateBackup PROVE RaftInv'
  <2>1. PICK n \in Nodes, a \in BOOLEAN : ExportBackup(n, a)
    BY Zenon, <1>2 DEF CreateBackup
  <2>2. /\ log' = log /\ ref' = ref /\ store' = store /\ applied' = applied /\ snap' = snap
        /\ backups' = backups \cup {Export(store[n], a)}
    BY Zenon, <2>1 DEF ExportBackup
  <2>3. Export(store[n], a) \in Stores
    BY Zenon, AsItIs, ExportedType DEF Follows
  <2>4. backups' \subseteq Stores
    BY Zenon, <2>2, <2>3, AsItIs
  <2>5. /\ store' = [store EXCEPT ![n] = store[n]] /\ applied' = [applied EXCEPT ![n] = applied[n]]
        /\ snap' = [snap EXCEPT ![n] = snap[n]] /\ Sound(snap[n])
        /\ applied[n] \in 0 .. Len(log) /\ Follows(store[n], ref[applied[n] + 1]) /\ log' = log /\ ref' = ref
    BY Zenon, <2>2, AsItIs
  <2> QED
    BY Zenon, <2>4, <2>5, Moved
<1>3. ASSUME RestoreBackup PROVE RaftInv'
  <2>1. PICK b \in backups : Commit([op |-> "snapshot.import", snapshot |-> b])
    BY Zenon, <1>3 DEF RestoreBackup, ProposeImport
  <2>2. b \in Stores
    BY Zenon DEF RaftInv, RaftTypes
  <2>3. [op |-> "snapshot.import", snapshot |-> b] \in Logged
    BY <2>2 DEF Logged
  <2> QED
    BY Zenon, <2>1, <2>3, Committed
<1>4. ASSUME NEW n \in Nodes, Crash(n) PROVE RaftInv'
  BY Zenon, <1>4, AsItIs, Stopped DEF Crash
<1>5. ASSUME NEW n \in Nodes, Restart(n) PROVE RaftInv'
  <2>1. RecoverFromSnapshot(n, snap[n]) /\ log' = log /\ ref' = ref /\ snap' = snap /\ backups' = backups
    BY Zenon, <1>5 DEF Restart
  <2> QED
    BY Zenon, <2>1, AsItIs, Recovered
<1>6. ASSUME NEW n \in Nodes, NEW m \in Nodes, InstallSnapshot(n, m) PROVE RaftInv'
  <2>1. /\ RecoverFromSnapshot(n, snap[m]) /\ log' = log /\ ref' = ref /\ backups' = backups
        /\ snap' = [snap EXCEPT ![n] = snap[m]]
    BY Zenon, <1>6 DEF InstallSnapshot
  <2> QED
    BY Zenon, <2>1, AsItIs, Recovered
<1>7. ASSUME UNCHANGED vars PROVE RaftInv'
  BY Zenon, <1>7 DEF vars, RaftInv, RaftTypes, RaftShape, History, Replica, Saved
<1> QED
  BY ZenonT(60), <1>1, <1>2, <1>3, <1>4, <1>5, <1>6, <1>7, Updated, SnapshotSaved DEF Next

\* ReplayEquivalence follows.
LEMMA RaftInvImplies ==
  ASSUME RaftInv
  PROVE  ReplayEquivalence
<1> SUFFICES ASSUME NEW n \in Nodes
             PROVE  /\ Tables(store[n]) = Tables(ref[applied[n] + 1])
                    /\ Len(ref[applied[n] + 1].audit) <= AuditLimit => store[n].audit = ref[applied[n] + 1].audit
  BY Zenon DEF ReplayEquivalence
<1>1. Follows(store[n], ref[applied[n] + 1])
  BY Zenon, InvFollows
<1> QED
  BY Zenon, <1>1, SameTables DEF Follows, Logs

\* For every value of the constants: whatever replicas stop, restart, are
\* sent snapshots or import backups, each holds what the full history gives,
\* in all that a snapshot carries (Update, RecoverFromSnapshot).
THEOREM ReplayEquivalenceAlways == Spec => []ReplayEquivalence
<1>1. Init => RaftInv
  BY RaftInit
<1>2. RaftInv /\ [Next]_vars => RaftInv'
  BY RaftNext
<1>3. RaftInv => ReplayEquivalence
  BY RaftInvImplies
<1> QED
  BY <1>1, <1>2, <1>3, PTL DEF Spec
=============================================================================
