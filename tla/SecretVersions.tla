--------------------------- MODULE SecretVersions ---------------------------
(***************************************************************************)
(* The versioned secret repository, repository/memory/secret_repository.go.*)
(* Every engine of the vault that stores sealed data (KV, cubbyhole, the   *)
(* wrapping metadata, transit keys, database and SSH credentials) goes     *)
(* through these operations, so they are operators on the rows of ONE path *)
(* and the engine modules apply them to their own variables.               *)
(*                                                                         *)
(* The rows of a path are a function from the version numbers that exist   *)
(* to records with at least the field "destroyed"; the path has no rows    *)
(* when the domain is empty.  A row that retention removed is gone from    *)
(* the domain, a destroyed row stays in it.                                *)
(*                                                                         *)
(* Each operation runs under the repository mutex and, on a cluster, as a  *)
(* single Raft command: one application of an operator is one atomic step. *)
(***************************************************************************)
EXTENDS Integers, FiniteSets, FiniteSetsExt, FiniteSetTheorems, TLAPS

\* casVersion == nil: the write is unconditional.  A request may carry 0,
\* which no version equals.
NoCas == -1

NoRows == [v \in {} |-> {}]

\* The versions that are not destroyed.
Live(rows) == {v \in DOMAIN rows : ~rows[v].destroyed}

\* Faulty variant: destroyed rows not counted.
NextVersionOfLive(rows) == IF Live(rows) = {} THEN 1 ELSE Max(Live(rows)) + 1

\* nextVersionLocked: one above the largest existing number, destroyed rows
\* included.
NextVersion(rows) == IF DOMAIN rows = {} THEN 1 ELSE Max(DOMAIN rows) + 1

\* GetLatest and latestNonDestroyedLocked: found, and which.
HasLatest(rows) == Live(rows) # {}
Latest(rows) == Max(Live(rows))

\* GetVersion finds a destroyed row as well.
HasVersion(rows, v) == v \in DOMAIN rows

\* trimVersionsLocked: the oldest live rows beyond the newest "max".
Surplus(rows, max) ==
  {v \in Live(rows) : Cardinality({w \in Live(rows) : w > v}) >= max}
Trim(rows, max) == [v \in DOMAIN rows \ Surplus(rows, max) |-> rows[v]]

\* Faulty variant: any existing version satisfies the CAS test.
CasHoldsLoose(rows, cas) == cas = NoCas \/ (HasLatest(rows) /\ cas \in DOMAIN rows)

\* PutAtomic: the CAS test, then the new row under the next number, then
\* retention when it is asked for.
CasHolds(rows, cas) == cas = NoCas \/ (HasLatest(rows) /\ Latest(rows) = cas)
Added(rows, row) ==
  [v \in DOMAIN rows \cup {NextVersion(rows)} |->
     IF v = NextVersion(rows) THEN row ELSE rows[v]]
PutAtomic(rows, row, max) ==
  IF max > 0 THEN Trim(Added(rows, row), max) ELSE Added(rows, row)

\* DestroyVersion: fails on a missing or an already destroyed row.
CanDestroy(rows, v) == v \in Live(rows)
Destroy(rows, v) == [rows EXCEPT ![v].destroyed = TRUE]
-----------------------------------------------------------------------------
(* What holds of these operators for all rows, numbers and retention       *)
(* limits: the proofs about the engines cite it instead of expanding them. *)

\* Version numbers of a path lie in 1..n and, once something was written,
\* the newest number n is still present.
Dense(rows, n) ==
  /\ DOMAIN rows \subseteq 1 .. n
  /\ n > 0 => n \in DOMAIN rows

\* A bounded, non-empty set of numbers has a maximum, so Max is defined on
\* the versions of a path.
LEMMA MaxOfBounded ==
  ASSUME NEW S, NEW n \in Nat, S \subseteq 1 .. n, S # {}
  PROVE  Max(S) \in S /\ \A y \in S : y <= Max(S)
<1> DEFINE U == {u \in Nat : \A s \in S : s <= u}
<1>1. U \subseteq Nat /\ n \in U
  OBVIOUS
<1>2. PICK m \in U : \A y \in U : ~(<<y, m>> \in OpToRel(<, Nat))
  BY Zenon, <1>1, WFMin, NatLessThanWellFounded
<1>3. \A y \in U : ~(y < m)
  BY Zenon, <1>1, <1>2 DEF OpToRel
<1>4. m \in S
  <2> SUFFICES ASSUME m \notin S PROVE FALSE
    OBVIOUS
  <2>1. \A s \in S : s <= m - 1 /\ s >= 1
    OBVIOUS
  <2>2. m - 1 \in Nat
    <3>1. PICK s \in S : TRUE
      BY Zenon
    <3> QED BY <3>1, <2>1
  <2>3. m - 1 \in U
    BY <2>1, <2>2
  <2> QED BY <2>3, <1>3
<1>5. \A s \in S : s <= m
  OBVIOUS
<1>6. \E x \in S : \A y \in S : x >= y
  BY <1>4, <1>5
<1>7. Max(S) \in S /\ \A y \in S : Max(S) >= y
  BY Zenon, <1>6 DEF Max
<1> QED BY <1>7

\* The next number is one above the newest, destroyed rows included.
LEMMA NextVersionDense ==
  ASSUME NEW rows, NEW n \in Nat, Dense(rows, n)
  PROVE  NextVersion(rows) = n + 1
<1>1. CASE n = 0
  BY <1>1 DEF NextVersion, Dense
<1>2. CASE n > 0
  <2>1. n \in DOMAIN rows /\ \A y \in DOMAIN rows : n >= y
    BY <1>2 DEF Dense
  <2>2. Max(DOMAIN rows) \in DOMAIN rows /\ \A y \in DOMAIN rows : y <= Max(DOMAIN rows)
    BY <2>1, MaxOfBounded DEF Dense
  <2> QED BY <2>1, <2>2 DEF NextVersion, Dense
<1> QED BY <1>1, <1>2

\* The newest live version is live and no live version is above it.
LEMMA LatestIsNewest ==
  ASSUME NEW rows, NEW n \in Nat, Dense(rows, n), HasLatest(rows)
  PROVE  Latest(rows) \in Live(rows) /\ \A v \in Live(rows) : v <= Latest(rows)
BY MaxOfBounded DEF Dense, HasLatest, Latest, Live

\* PutAtomic adds exactly one row, under the next number; every other row
\* that is left is unchanged, and retention never removes the new row.
LEMMA PutAtomicRows ==
  ASSUME NEW rows, NEW n \in Nat, Dense(rows, n),
         NEW row, ~row.destroyed, NEW max \in Nat
  PROVE  /\ Dense(PutAtomic(rows, row, max), n + 1)
         /\ PutAtomic(rows, row, max)[n + 1] = row
         /\ \A v \in DOMAIN PutAtomic(rows, row, max) \ {n + 1} :
              v \in DOMAIN rows /\ PutAtomic(rows, row, max)[v] = rows[v]
<1> DEFINE A == Added(rows, row)
           P == PutAtomic(rows, row, max)
<1>1. NextVersion(rows) = n + 1
  BY NextVersionDense
<1>2. /\ DOMAIN A = DOMAIN rows \cup {n + 1}
      /\ A[n + 1] = row
      /\ \A v \in DOMAIN rows : v # n + 1 => A[v] = rows[v]
  BY <1>1 DEF Added
<1>3. Dense(A, n + 1)
  BY <1>2 DEF Dense
<1>4. CASE max > 0
  <2>1. P = Trim(A, max)
    BY <1>4 DEF PutAtomic
  <2>2. {w \in Live(A) : w > n + 1} = {}
    BY <1>3 DEF Live, Dense
  <2>3. n + 1 \notin Surplus(A, max)
    BY <2>2, <1>4, FS_EmptySet DEF Surplus
  <2>4. /\ DOMAIN P \subseteq DOMAIN A /\ n + 1 \in DOMAIN P
        /\ \A v \in DOMAIN P : P[v] = A[v]
    BY <2>1, <2>3, <1>2 DEF Trim
  <2> HIDE DEF A, P
  <2>5. Dense(P, n + 1)
    BY <2>4, <1>3 DEF Dense
  <2> QED BY <2>4, <2>5, <1>2 DEF P, A
<1>5. CASE max = 0
  BY <1>5, <1>2, <1>3 DEF PutAtomic
<1> QED BY <1>4, <1>5

\* Destroying a row keeps its number and everything else about the rows.
LEMMA DestroyRows ==
  ASSUME NEW rows, NEW n \in Nat, Dense(rows, n), NEW v \in DOMAIN rows
  PROVE  /\ Dense(Destroy(rows, v), n)
         /\ DOMAIN Destroy(rows, v) = DOMAIN rows
         /\ \A w \in DOMAIN rows \ {v} : Destroy(rows, v)[w] = rows[w]
         /\ Destroy(rows, v)[v] = [rows[v] EXCEPT !.destroyed = TRUE]
BY DEF Dense, Destroy

\* Retention of one version leaves the new row as the only live one.
LEMMA PutAtomicOne ==
  ASSUME NEW rows, NEW n \in Nat, Dense(rows, n), NEW row, ~row.destroyed
  PROVE  Live(PutAtomic(rows, row, 1)) = {n + 1}
<1> DEFINE A == Added(rows, row)
           P == PutAtomic(rows, row, 1)
<1>1. NextVersion(rows) = n + 1
  BY NextVersionDense
<1>2. /\ DOMAIN A = DOMAIN rows \cup {n + 1} /\ A[n + 1] = row
  BY <1>1 DEF Added
<1>3. Live(A) \subseteq 1 .. n + 1 /\ n + 1 \in Live(A)
  BY <1>2 DEF Live, Dense
<1>4. P = Trim(A, 1) /\ P = [v \in DOMAIN A \ Surplus(A, 1) |-> A[v]]
  BY DEF PutAtomic, Trim
<1>5. \A v \in Live(A) \ {n + 1} : v \in Surplus(A, 1)
  <2> SUFFICES ASSUME NEW v \in Live(A) \ {n + 1} PROVE v \in Surplus(A, 1)
    OBVIOUS
  <2> DEFINE Above == {w \in Live(A) : w > v}
  <2>1. n + 1 \in Above
    BY <1>3
  <2>2. IsFiniteSet(Above)
    <3>1. IsFiniteSet(1 .. n + 1)
      BY FS_Interval
    <3>2. Above \subseteq 1 .. n + 1
      BY <1>3
    <3> QED BY <3>1, <3>2, FS_Subset
  <2>3. Cardinality(Above) \in Nat /\ Cardinality(Above) # 0
    BY <2>1, <2>2, FS_CardinalityType, FS_EmptySet
  <2>4. Cardinality(Above) >= 1
    BY <2>3
  <2> QED BY <2>4 DEF Surplus
<1>6. n + 1 \in DOMAIN P /\ P[n + 1] = row
  BY PutAtomicRows DEF Dense
<1>7. \A v \in Live(P) : v \in Live(A) /\ v \notin Surplus(A, 1)
  <2> HIDE DEF A
  <2> QED BY <1>4 DEF Live
<1>8. n + 1 \in Live(P)
  BY <1>6 DEF Live
<1> HIDE DEF A, P
<1>9. Live(P) = {n + 1}
  BY <1>5, <1>7, <1>8
<1> QED BY <1>9 DEF P
=============================================================================
