------------------------------ MODULE KVProofs ------------------------------
(***************************************************************************)
(* For every set of nodes, workers and paths, with and without Valkey, and *)
(* for every retention limit: version numbers are never reused, CAS        *)
(* writers never overwrite each other, and the cache is never wrong.       *)
(***************************************************************************)
EXTENDS KV

\* One path on its own: numbers are dense up to the number of writes, the
\* row of number v holds the v-th payload and was written on an older base.
PathOK(r, n) ==
  /\ Dense(r, n)
  /\ \A v \in DOMAIN r : r[v] \in Row /\ r[v].data = v /\ r[v].base < v

DistinctBases(r) ==
  \A v, w \in Live(r) : (v # w /\ r[v].base = r[w].base) => r[v].base = NoCas

\* What a reader carries to the cache is the payload its key stands for.
Honest(p, v, e) == IF v = 0 THEN e \in 1 .. puts[p] ELSE e = v

IInv ==
  /\ TypeOK
  /\ \A p \in Paths : PathOK(rows[p], puts[p]) /\ DistinctBases(rows[p])
  /\ CacheHonest
  /\ \A w \in Workers : req[w].at \in {"check", "fill"} =>
       Honest(req[w].path, req[w].ver, req[w].got)

\* A write on top of the latest version keeps the path in order: the live
\* versions are at most the base, so none of them was written on that base.
LEMMA PutKeepsPath ==
  ASSUME NEW r, NEW n \in Nat, PathOK(r, n), DistinctBases(r), n < MaxPuts,
         MaxPuts \in Nat, NEW cas \in Versions \cup {NoCas}, CasHolds(r, cas),
         NEW ttl \in BOOLEAN, NEW max \in Nat
  PROVE  LET row == [data |-> n + 1, base |-> cas, ttl |-> ttl,
                     expired |-> FALSE, destroyed |-> FALSE]
         IN  /\ PathOK(PutAtomic(r, row, max), n + 1)
             /\ DistinctBases(PutAtomic(r, row, max))
<1> DEFINE row == [data |-> n + 1, base |-> cas, ttl |-> ttl,
                   expired |-> FALSE, destroyed |-> FALSE]
           P == PutAtomic(r, row, max)
<1>1. /\ Dense(P, n + 1) /\ P[n + 1] = row
      /\ \A v \in DOMAIN P \ {n + 1} : v \in DOMAIN r /\ P[v] = r[v]
  BY PutAtomicRows DEF PathOK
<1>2. row \in Row
  BY DEF Row, Versions
<1>3. cas # NoCas => HasLatest(r) /\ Latest(r) = cas
  BY DEF CasHolds
<1>4. cas # NoCas => \A v \in Live(r) : v <= cas
  BY Zenon, <1>3, LatestIsNewest DEF PathOK
<1>5. cas < n + 1
  BY <1>3, LatestIsNewest DEF PathOK, Dense, Live, NoCas
<1> HIDE DEF P
<1>6. PathOK(P, n + 1)
  BY <1>1, <1>2, <1>5 DEF PathOK
<1>7. DistinctBases(P)
  <2> SUFFICES ASSUME NEW v \in Live(P), NEW w \in Live(P), v # w,
                      P[v].base = P[w].base, P[v].base # NoCas
               PROVE  FALSE
    BY Zenon DEF DistinctBases
  <2>1. \A x \in Live(P) \ {n + 1} : x \in Live(r) /\ P[x] = r[x] /\ x \in Nat
    BY <1>1 DEF Live, PathOK, Dense
  <2>2. CASE v # n + 1 /\ w # n + 1
    BY Zenon, <2>1, <2>2 DEF DistinctBases
  <2>3. ASSUME NEW x \in Live(r), r[x].base = cas, cas # NoCas PROVE FALSE
    <3>1. x <= cas /\ r[x].base < x /\ x \in Nat /\ r[x] \in Row
      BY <1>4, <2>3 DEF PathOK, Live, Dense
    <3> QED BY <3>1, <2>3 DEF Row, Versions, NoCas
  <2>4. CASE v = n + 1
    BY <2>4, <2>1, <2>3, <1>1
  <2>5. CASE w = n + 1
    <3>1. P[v].base = cas /\ cas # NoCas
      BY <2>5, <1>1
    <3>2. v \in Live(r) /\ r[v].base = cas
      BY Zenon, <2>5, <2>1, <3>1
    <3> QED BY Zenon, <3>1, <3>2, <2>3
  <2> QED BY <2>2, <2>4, <2>5
<1> QED BY Zenon, <1>6, <1>7 DEF P

\* Marking a row destroyed or expired keeps the path in order.
LEMMA MarkKeepsPath ==
  ASSUME NEW r, NEW n \in Nat, PathOK(r, n), DistinctBases(r), NEW v \in DOMAIN r,
         NEW s, DOMAIN s = DOMAIN r, \A w \in DOMAIN r \ {v} : s[w] = r[w],
         \/ s[v] = [r[v] EXCEPT !.destroyed = TRUE]
         \/ s[v] = [r[v] EXCEPT !.expired = TRUE]
  PROVE  PathOK(s, n) /\ DistinctBases(s)
<1>1. /\ s[v] \in Row /\ s[v].data = r[v].data /\ s[v].base = r[v].base
      /\ s[v].destroyed = r[v].destroyed \/ s[v].destroyed
  BY ZenonT(60) DEF PathOK, Row
<1>2. Live(s) \subseteq Live(r)
  BY <1>1 DEF Live
<1>3. \A w \in DOMAIN s : s[w] \in Row /\ s[w].data = r[w].data /\ s[w].base = r[w].base
  BY <1>1 DEF PathOK
<1>4. PathOK(s, n)
  BY <1>3 DEF PathOK, Dense
<1>5. DistinctBases(s)
  BY <1>2, <1>3 DEF DistinctBases, Live
<1> QED BY Zenon, <1>4, <1>5

\* Nothing is stored or cached at first.
LEMMA InitOK == Init => IInv
<1> SUFFICES ASSUME Init PROVE IInv
  OBVIOUS
<1> USE KVAssumption DEF Init
<1>1. Idle \in Request /\ Idle.at = "idle"
  BY DEF Idle, Request, Labels, Versions, Miss
<1>2. DOMAIN NoRows = {}
  BY DEF NoRows
<1>3. TypeOK
  BY <1>1, <1>2 DEF TypeOK, Versions, Miss
<1>4. \A p \in Paths : PathOK(rows[p], puts[p]) /\ DistinctBases(rows[p])
  BY <1>2 DEF PathOK, DistinctBases, Dense, Live
<1>5. CacheHonest
  BY Zenon DEF CacheHonest, Keys
<1> QED BY <1>1, <1>3, <1>4, <1>5 DEF IInv

\* A step that leaves the repository and the cache alone and gives one
\* worker a well-formed request, honest if it is about to fill the cache.
LEMMA QuietStep ==
  ASSUME IInv, NEW w \in Workers, NEW r \in Request,
         req' = [req EXCEPT ![w] = r],
         UNCHANGED <<rows, puts, cache>>, gen' \in [Nodes -> [Paths -> Nat]],
         r.at \in {"check", "fill"} => Honest(r.path, r.ver, r.got)
  PROVE  IInv'
<1>1. req' \in [Workers -> Request]
  BY Zenon DEF IInv, TypeOK
<1>2. TypeOK'
  BY Zenon, <1>1 DEF IInv, TypeOK
<1>3. \A x \in Workers : req'[x] = IF x = w THEN r ELSE req[x]
  BY Zenon DEF IInv, TypeOK
<1>4. \A x \in Workers : req'[x].at \in {"check", "fill"} =>
         Honest(req'[x].path, req'[x].ver, req'[x].got)
  BY Zenon, <1>3 DEF IInv
<1>5. CacheHonest'
  BY Zenon DEF IInv, CacheHonest
<1>6. \A p \in Paths : PathOK(rows'[p], puts'[p]) /\ DistinctBases(rows'[p])
  BY Zenon DEF IInv
<1> QED BY Zenon, <1>2, <1>4, <1>5, <1>6 DEF IInv, Honest

\* The records the handlers start from are requests.
LEMMA IdleOK == Idle \in Request /\ Idle.at = "idle"
BY KVAssumption DEF Idle, Request, Labels, Versions, Miss

\* The steps of a read up to its answer.
LEMMA ReadStep ==
  ASSUME IInv, NEW w \in Workers,
         \/ \E p \in Paths, v \in Asked : ReadBegin(w, p, v)
         \/ ReadLookup(w) \/ ReadEngine(w) \/ ReadCheck(w)
  PROVE  IInv'
<1> USE KVAssumption, IdleOK
<1>0. req[w] \in Request /\ gen \in [Nodes -> [Paths -> Nat]] /\ NodeOf[w] \in Nodes
  BY DEF IInv, TypeOK
<1>f. ASSUME Finish(w), UNCHANGED <<rows, puts, cache, gen>> PROVE IInv'
  BY Zenon, <1>0, <1>f, QuietStep DEF Finish
<1>1. ASSUME NEW p \in Paths, NEW v \in Asked, ReadBegin(w, p, v) PROVE IInv'
  <2> DEFINE r == [Idle EXCEPT !.at = "lookup", !.path = p, !.ver = v,
                               !.gen = gen[NodeOf[w]][p]]
  <2>a. gen[NodeOf[w]][p] \in Nat
    BY SMTT(30), <1>0
  <2>b. v \in Versions
    BY ZenonT(60) DEF Versions
  <2>0. gen[NodeOf[w]][p] \in Nat /\ v \in Versions /\ "lookup" \in Labels
    BY Zenon, <2>a, <2>b DEF Labels
  <2>1. r \in Request /\ r.at = "lookup"
    BY Zenon, <2>0 DEF Request
  <2> QED BY Zenon, <1>0, <1>1, <2>1, QuietStep DEF ReadBegin, Start
<1>2. ASSUME ReadLookup(w) PROVE IInv'
  <2> DEFINE r == [req[w] EXCEPT !.at = "engine"]
  <2>1. r \in Request /\ r.at = "engine"
    BY Zenon, <1>0 DEF Request, Labels
  <2>2. CASE Goto(w, "engine")
    BY Zenon, <1>0, <1>2, <2>1, <2>2, QuietStep DEF ReadLookup, Goto
  <2> QED BY Zenon, <1>2, <1>f, <2>2 DEF ReadLookup
<1>3. ASSUME ReadEngine(w) PROVE IInv'
  <2> DEFINE p == req[w].path  v == req[w].ver  e == Readable(p, v)
             r == [req[w] EXCEPT !.at = "check", !.got = e]
  <2>1. p \in Paths /\ v \in Versions /\ puts[p] \in 0 .. MaxPuts /\ PathOK(rows[p], puts[p])
    BY Zenon, <1>0 DEF IInv, TypeOK, Request
  <2>2. e = Miss \/ (e \in Versions /\ Honest(p, v, e))
    <3>1. ASSUME NEW x, HasVersion(rows[p], x)
          PROVE  rows[p][x].data = x /\ x \in 1 .. puts[p]
      BY Zenon, <2>1, <3>1 DEF HasVersion, PathOK, Dense
    <3> HIDE DEF p, v
    <3>2. CASE v = 0 /\ HasLatest(rows[p])
      BY <2>1, <3>1, <3>2 DEF Readable, Honest, Versions, Miss
    <3>3. CASE ~(v = 0 /\ HasLatest(rows[p]))
      BY Zenon, <2>1, <3>1, <3>3 DEF Readable, Honest, Versions, Miss
    <3> QED BY Zenon, <3>2, <3>3
  <2>3. CASE e = Miss
    BY Zenon, <1>3, <2>3, <1>f DEF ReadEngine
  <2>4. CASE e # Miss
    <3>1. req' = [req EXCEPT ![w] = r] /\ UNCHANGED <<rows, puts, cache, gen>>
      BY Zenon, <1>3, <2>4 DEF ReadEngine
    <3>2. e \in Versions /\ Honest(p, v, e)
      BY Zenon, <2>2, <2>4
    <3> HIDE DEF e
    <3>3. r \in Request /\ r.path = p /\ r.ver = v /\ r.got = e
      BY Zenon, <1>0, <3>2 DEF Request, Labels
    <3> QED BY Zenon, <1>0, <3>1, <3>2, <3>3, QuietStep
  <2> QED BY Zenon, <2>3, <2>4
<1>4. ASSUME ReadCheck(w) PROVE IInv'
  <2> DEFINE r == [req[w] EXCEPT !.at = "fill"]
  <2>1. /\ r \in Request /\ r.path = req[w].path /\ r.ver = req[w].ver
        /\ r.got = req[w].got
    BY Zenon, <1>0 DEF Request, Labels
  <2>2. CASE Goto(w, "fill")
    <3>1. Honest(r.path, r.ver, r.got)
      BY Zenon, <1>4, <2>1 DEF ReadCheck, At, IInv
    <3> QED BY Zenon, <1>0, <1>4, <2>1, <2>2, <3>1, QuietStep DEF ReadCheck, Goto
  <2> QED BY Zenon, <1>4, <1>f, <2>2 DEF ReadCheck
<1> QED BY Zenon, <1>1, <1>2, <1>3, <1>4

\* A step that changes the rows of one path, and possibly counts a write,
\* while workers keep their request or leave the fill phase.
LEMMA RepoStep ==
  ASSUME IInv, NEW p \in Paths, NEW s, NEW n \in 0 .. MaxPuts,
         n \in {puts[p], puts[p] + 1}, PathOK(s, n), DistinctBases(s),
         rows' = [rows EXCEPT ![p] = s], puts' = [puts EXCEPT ![p] = n],
         UNCHANGED <<cache, gen>>, req' \in [Workers -> Request],
         \A w \in Workers : req'[w] = req[w] \/ req'[w].at \notin {"check", "fill"}
  PROVE  IInv'
<1> USE KVAssumption
<1>1. /\ DOMAIN rows = Paths /\ puts \in [Paths -> 0 .. MaxPuts]
      /\ \A q \in Paths : rows'[q] = IF q = p THEN s ELSE rows[q]
      /\ \A q \in Paths : puts'[q] = IF q = p THEN n ELSE puts[q]
      /\ DOMAIN rows' = Paths /\ puts' \in [Paths -> 0 .. MaxPuts]
  BY Zenon DEF IInv, TypeOK
<1>2. \A q \in Paths : PathOK(rows'[q], puts'[q]) /\ DistinctBases(rows'[q])
  BY Zenon, <1>1 DEF IInv
<1>3. TypeOK'
  BY Zenon, <1>1, <1>2 DEF IInv, TypeOK, PathOK, Dense
<1>4. \A q \in Paths : puts[q] <= puts'[q] /\ puts[q] \in Nat /\ puts'[q] \in Nat
  BY <1>1
<1>5. CacheHonest'
  BY <1>4 DEF IInv, CacheHonest
<1>6. (\A w \in Workers : req[w].at \in {"check", "fill"} =>
         Honest(req[w].path, req[w].ver, req[w].got))'
  BY <1>4 DEF IInv, Honest, TypeOK, Request
<1> QED BY Zenon, <1>2, <1>3, <1>5, <1>6 DEF IInv

\* A step that only removes cache entries or stores an honest one.
LEMMA CacheStep ==
  ASSUME IInv, cache' \in [Places -> [Keys -> Versions]],
         \A s \in Places, p \in Paths, v \in Versions :
           \/ cache'[s][<<p, v>>] \in {cache[s][<<p, v>>], Miss}
           \/ Honest(p, v, cache'[s][<<p, v>>]),
         UNCHANGED <<rows, puts, gen>>, req' \in [Workers -> Request],
         \A w \in Workers : req'[w] = req[w] \/ req'[w].at \notin {"check", "fill"}
  PROVE  IInv'
<1>1. TypeOK'
  BY Zenon DEF IInv, TypeOK
<1>2. CacheHonest'
  BY DEF IInv, CacheHonest, Honest
<1>3. (\A w \in Workers : req[w].at \in {"check", "fill"} =>
         Honest(req[w].path, req[w].ver, req[w].got))'
  BY Zenon DEF IInv, Honest
<1>4. (\A p \in Paths : PathOK(rows[p], puts[p]) /\ DistinctBases(rows[p]))'
  BY Zenon DEF IInv
<1> QED BY ZenonT(60), <1>1, <1>2, <1>3, <1>4 DEF IInv

\* The steps that change the stored rows.
LEMMA WriteStep ==
  ASSUME IInv, NEW w \in Workers,
         \/ \E p \in Paths, cas \in Versions \cup {NoCas}, keep \in Keeps, ttl \in TTLs :
              Put(w, p, cas, keep, ttl)
         \/ \E p \in Paths, v \in Versions : DestroyVersion(w, p, v)
         \/ \E p \in Paths : DeleteBegin(w, p)
         \/ DeleteDestroy(w)
  PROVE  IInv'
<1> USE KVAssumption, IdleOK
<1>0. /\ req \in [Workers -> Request] /\ req[w] \in Request /\ DOMAIN rows = Paths
      /\ puts \in [Paths -> 0 .. MaxPuts]
      /\ \A p \in Paths : PathOK(rows[p], puts[p]) /\ DistinctBases(rows[p])
      /\ gen \in [Nodes -> [Paths -> Nat]]
  BY Zenon DEF IInv, TypeOK
<1>1. ASSUME NEW p \in Paths
      PROVE  LET r == [Idle EXCEPT !.at = "bump", !.path = p]
             IN  r \in Request /\ r.at = "bump"
  BY Zenon DEF Request, Labels
<1>2. ASSUME NEW p \in Paths, NEW r \in Request, r.at \notin {"check", "fill"},
             NEW v \in DOMAIN rows[p],
             rows' = [rows EXCEPT ![p] = Destroy(@, v)],
             UNCHANGED <<puts, cache, gen>>, req' = [req EXCEPT ![w] = r]
      PROVE  IInv'
  <2> DEFINE s == Destroy(rows[p], v)
  <2>0. puts[p] \in Nat /\ PathOK(rows[p], puts[p]) /\ DistinctBases(rows[p])
    BY <1>0
  <2>1. PathOK(s, puts[p]) /\ DistinctBases(s)
    <3>1. /\ DOMAIN s = DOMAIN rows[p]
          /\ \A x \in DOMAIN rows[p] \ {v} : s[x] = rows[p][x]
          /\ s[v] = [rows[p][v] EXCEPT !.destroyed = TRUE]
      BY <2>0, DestroyRows DEF PathOK
    <3> HIDE DEF s
    <3> QED BY Zenon, <2>0, <3>1, MarkKeepsPath
  <2>2. puts' = [puts EXCEPT ![p] = puts[p]] /\ puts[p] \in 0 .. MaxPuts
    BY Zenon, <1>0, <1>2
  <2>3. req' \in [Workers -> Request] /\
        \A x \in Workers : req'[x] = req[x] \/ req'[x].at \notin {"check", "fill"}
    BY Zenon, <1>0, <1>2
  <2> HIDE DEF s
  <2>4. rows' = [rows EXCEPT ![p] = s]
    BY <1>2 DEF s
  <2> QED BY Zenon, <1>2, <2>1, <2>2, <2>3, <2>4, RepoStep
<1>3. ASSUME NEW p \in Paths, NEW cas \in Versions \cup {NoCas}, NEW keep \in Keeps,
             NEW ttl \in TTLs, Put(w, p, cas, keep, ttl)
      PROVE  IInv'
  <2> DEFINE n == puts[p]
             row == [data |-> n + 1, base |-> cas, ttl |-> ttl,
                     expired |-> FALSE, destroyed |-> FALSE]
             s == PutAtomic(rows[p], row, Keep(keep))
             r == [Idle EXCEPT !.at = "bump", !.path = p]
  <2>1. n \in Nat /\ n < MaxPuts /\ Keep(keep) \in Nat /\ n + 1 \in 0 .. MaxPuts
    <3>1. n \in 0 .. MaxPuts /\ n < MaxPuts
      BY Zenon, <1>0, <1>3 DEF Put
    <3> QED BY <3>1 DEF Keep
  <2>2. PathOK(s, n + 1) /\ DistinctBases(s)
    BY ZenonT(60), <1>0, <1>3, <2>1, PutKeepsPath DEF Put
  <2>3. /\ rows' = [rows EXCEPT ![p] = s] /\ puts' = [puts EXCEPT ![p] = n + 1]
        /\ UNCHANGED <<cache, gen>> /\ req' = [req EXCEPT ![w] = r]
    BY ZenonT(60), <1>3 DEF Put, Start
  <2>4. /\ req' \in [Workers -> Request]
        /\ \A x \in Workers : req'[x] = req[x] \/ req'[x].at \notin {"check", "fill"}
    BY ZenonT(60), <1>0, <1>1, <2>3
  <2> HIDE DEF s, n, r
  <2> QED BY ZenonT(60), <2>1, <2>2, <2>3, <2>4, RepoStep DEF n
<1>4. ASSUME NEW p \in Paths, NEW v \in Versions, DestroyVersion(w, p, v) PROVE IInv'
  BY ZenonT(60), <1>1, <1>2, <1>4 DEF DestroyVersion, CanDestroy, Live, Start
<1>5. ASSUME NEW p \in Paths, DeleteBegin(w, p) PROVE IInv'
  <2> DEFINE r == [Idle EXCEPT !.at = "delete", !.path = p, !.ver = Latest(rows[p])]
  <2>1. Latest(rows[p]) \in Versions
    <3>1. puts[p] \in 0 .. MaxPuts /\ Dense(rows[p], puts[p]) /\ HasLatest(rows[p])
      BY Zenon, <1>0, <1>5 DEF DeleteBegin, PathOK
    <3>2. Latest(rows[p]) \in DOMAIN rows[p]
      BY <3>1, LatestIsNewest DEF Live
    <3> QED BY SMTT(30), <3>1, <3>2 DEF Dense, Versions
  <2>2. r \in Request /\ r.at = "delete"
    BY Zenon, <2>1 DEF Request, Labels
  <2> QED BY Zenon, <1>0, <1>5, <2>2, QuietStep DEF DeleteBegin, Start
<1>6. ASSUME DeleteDestroy(w) PROVE IInv'
  <2>1. req[w].path \in Paths
    BY Zenon, <1>0 DEF Request
  <2>2. CASE CanDestroy(rows[req[w].path], req[w].ver)
    BY Zenon, <1>1, <1>2, <1>6, <2>1, <2>2 DEF DeleteDestroy, CanDestroy, Live
  <2>3. CASE ~CanDestroy(rows[req[w].path], req[w].ver)
    BY Zenon, <1>0, <1>6, <2>3, QuietStep DEF DeleteDestroy, Finish
  <2> QED BY Zenon, <2>2, <2>3
<1> QED BY ZenonT(60), <1>3, <1>4, <1>5, <1>6

\* The steps that drop cache entries after a write, or fill one after a
\* read.
LEMMA InvalidateStep ==
  ASSUME IInv, NEW w \in Workers,
         \/ BumpLoad(w) \/ BumpStore(w) \/ ListVersions(w)
         \/ DropLatestKey(w) \/ DropVersionKey(w) \/ ReadFill(w)
  PROVE  IInv'
<1> USE KVAssumption, IdleOK
<1>0. /\ req \in [Workers -> Request] /\ req[w] \in Request /\ NodeOf[w] \in Nodes
      /\ gen \in [Nodes -> [Paths -> Nat]] /\ req[w].path \in Paths
      /\ cache \in [Places -> [Keys -> Versions]] /\ DOMAIN rows[req[w].path] \subseteq Nat
  BY DEF IInv, TypeOK, Request
<1>1. ASSUME BumpLoad(w) PROVE IInv'
  <2> DEFINE r == [req[w] EXCEPT !.at = "store", !.gen = gen[NodeOf[w]][req[w].path]]
  <2>1. gen[NodeOf[w]][req[w].path] \in Nat
    BY <1>0
  <2>2. r \in Request /\ r.at = "store"
    BY Zenon, <1>0, <2>1 DEF Request, Labels
  <2>3. req' = [req EXCEPT ![w] = r] /\ UNCHANGED <<rows, puts, cache, gen>>
    BY Zenon, <1>1 DEF BumpLoad
  <2> HIDE DEF r
  <2> QED BY Zenon, <1>0, <2>2, <2>3, QuietStep
<1>2. ASSUME BumpStore(w) PROVE IInv'
  <2> DEFINE r == [req[w] EXCEPT !.at = "drop"]
  <2>1. r \in Request /\ r.at = "drop"
    BY Zenon, <1>0 DEF Request, Labels
  <2>2. gen' \in [Nodes -> [Paths -> Nat]]
    <3>1. req[w].gen \in Nat
      BY Zenon, <1>0 DEF Request
    <3>2. req[w].gen + 1 \in Nat
      BY <3>1
    <3> QED BY Zenon, <1>0, <1>2, <3>2 DEF BumpStore
  <2> QED BY Zenon, <1>2, <2>1, <2>2, QuietStep DEF BumpStore, Goto
<1>3. ASSUME ListVersions(w) PROVE IInv'
  <2> DEFINE r == [req[w] EXCEPT !.at = "sweep", !.todo = DOMAIN rows[req[w].path]]
  <2>1. r \in Request /\ r.at = "sweep"
    BY Zenon, <1>0 DEF Request, Labels
  <2>2. CASE Finish(w)
    BY Zenon, <1>0, <1>3, <2>2, QuietStep DEF ListVersions, Finish
  <2>3. CASE req' = [req EXCEPT ![w] = r]
    BY Zenon, <1>0, <1>3, <2>1, <2>3, QuietStep DEF ListVersions
  <2> QED BY Zenon, <1>3, <2>2, <2>3 DEF ListVersions
<1>4. ASSUME NEW v, NEW e \in Versions,
             e = Miss \/ Honest(req[w].path, v, e),
             cache' = CacheWith(NodeOf[w], {<<req[w].path, v>>}, e),
             UNCHANGED <<rows, puts, gen>>, NEW r \in Request,
             r.at \notin {"check", "fill"}, req' = [req EXCEPT ![w] = r]
      PROVE  IInv'
  <2>1. cache' \in [Places -> [Keys -> Versions]]
    BY Zenon, <1>0, <1>4 DEF CacheWith
  <2>2. \A s \in Places, p \in Paths, x \in Versions :
          \/ cache'[s][<<p, x>>] \in {cache[s][<<p, x>>], Miss}
          \/ Honest(p, x, cache'[s][<<p, x>>])
    BY Zenon, <1>0, <1>4 DEF CacheWith, Keys
  <2>3. /\ req' \in [Workers -> Request]
        /\ \A x \in Workers : req'[x] = req[x] \/ req'[x].at \notin {"check", "fill"}
    BY Zenon, <1>0, <1>4
  <2> QED BY Zenon, <1>4, <2>1, <2>2, <2>3, CacheStep
<1>5. ASSUME DropLatestKey(w) PROVE IInv'
  <2> DEFINE r == [req[w] EXCEPT !.at = "list"]
  <2>1. r \in Request /\ r.at = "list"
    BY Zenon, <1>0 DEF Request, Labels
  <2>2. /\ cache' = CacheWith(NodeOf[w], {<<req[w].path, 0>>}, Miss)
        /\ UNCHANGED <<rows, puts, gen>> /\ req' = [req EXCEPT ![w] = r]
    BY Zenon, <1>5 DEF DropLatestKey, CacheDelete, Goto
  <2>3. Miss \in Versions
    BY DEF Versions, Miss
  <2> HIDE DEF r
  <2> QED BY Zenon, <1>4, <2>1, <2>2, <2>3
<1>6. ASSUME DropVersionKey(w) PROVE IInv'
  <2> DEFINE v == Min(req[w].todo)
             r == [req[w] EXCEPT !.todo = @ \ {v}]
  <2> HIDE DEF v
  <2>1. r \in Request /\ r.at = "sweep"
    BY Zenon, <1>0, <1>6 DEF Request, DropVersionKey, At
  <2>2. /\ cache' = CacheWith(NodeOf[w], {<<req[w].path, v>>}, Miss)
        /\ UNCHANGED <<rows, puts, gen>>
        /\ \/ req' = [req EXCEPT ![w] = Idle]
           \/ req' = [req EXCEPT ![w] = r]
    BY Zenon, <1>6 DEF DropVersionKey, CacheDelete, Finish, v
  <2>3. Miss \in Versions
    BY DEF Versions, Miss
  <2> QED BY Zenon, <1>4, <2>1, <2>2, <2>3
<1>7. ASSUME ReadFill(w) PROVE IInv'
  <2> DEFINE e == req[w].got
  <2>1. e \in Versions /\ Honest(req[w].path, req[w].ver, e)
    BY Zenon, <1>0, <1>7 DEF ReadFill, At, IInv, Request
  <2>2. /\ cache' = CacheWith(NodeOf[w], {<<req[w].path, req[w].ver>>}, e)
        /\ UNCHANGED <<rows, puts, gen>> /\ req' = [req EXCEPT ![w] = Idle]
    BY Zenon, <1>7 DEF ReadFill, CacheSet, Finish
  <2> QED BY Zenon, <1>4, <2>1, <2>2
<1> QED BY ZenonT(60), <1>1, <1>2, <1>3, <1>5, <1>6, <1>7

\* A row or a cache entry runs out.
LEMMA TimeStep ==
  ASSUME IInv,
         \/ \E p \in Paths, v \in Versions : RowExpires(p, v)
         \/ \E s \in Places, k \in Keys : EntryExpires(s, k)
  PROVE  IInv'
<1> USE KVAssumption
<1>0. /\ req \in [Workers -> Request] /\ DOMAIN rows = Paths
      /\ puts \in [Paths -> 0 .. MaxPuts]
      /\ \A p \in Paths : PathOK(rows[p], puts[p]) /\ DistinctBases(rows[p])
      /\ cache \in [Places -> [Keys -> Versions]]
  BY DEF IInv, TypeOK
<1>1. ASSUME NEW p \in Paths, NEW v \in Versions, RowExpires(p, v) PROVE IInv'
  <2> DEFINE s == [rows[p] EXCEPT ![v].expired = TRUE]
  <2>1. v \in DOMAIN rows[p] /\ rows[p][v] \in Row
    BY Zenon, <1>0, <1>1 DEF RowExpires, PathOK
  <2>2. /\ DOMAIN s = DOMAIN rows[p]
        /\ \A x \in DOMAIN rows[p] \ {v} : s[x] = rows[p][x]
        /\ s[v] = [rows[p][v] EXCEPT !.expired = TRUE]
    BY Zenon, <2>1
  <2>3. rows' = [rows EXCEPT ![p] = s]
    BY <1>1 DEF RowExpires
  <2> HIDE DEF s
  <2>4. PathOK(s, puts[p]) /\ DistinctBases(s)
    <3>1. puts[p] \in Nat /\ PathOK(rows[p], puts[p]) /\ DistinctBases(rows[p])
      BY <1>0
    <3> QED BY Zenon, <3>1, <2>1, <2>2, MarkKeepsPath
  <2>5. puts' = [puts EXCEPT ![p] = puts[p]] /\ puts[p] \in 0 .. MaxPuts
    BY Zenon, <1>0, <1>1 DEF RowExpires
  <2> QED BY Zenon, <1>0, <1>1, <2>3, <2>4, <2>5, RepoStep DEF RowExpires
<1>2. ASSUME NEW s \in Places, NEW k \in Keys, EntryExpires(s, k) PROVE IInv'
  <2>1. cache' \in [Places -> [Keys -> Versions]]
    BY <1>0, <1>2 DEF EntryExpires, Versions, Miss
  <2>2. \A x \in Places, p \in Paths, v \in Versions :
          cache'[x][<<p, v>>] \in {cache[x][<<p, v>>], Miss}
    BY <1>0, <1>2 DEF EntryExpires, Keys
  <2> QED BY Zenon, <1>0, <1>2, <2>1, <2>2, CacheStep DEF EntryExpires
<1> QED BY Zenon, <1>1, <1>2

\* Every step keeps the invariant.
LEMMA NextOK == IInv /\ [Next]_vars => IInv'
<1> SUFFICES ASSUME IInv, [Next]_vars PROVE IInv'
  OBVIOUS
<1>1. CASE UNCHANGED vars
  BY <1>1 DEF vars, IInv, TypeOK, CacheHonest, Honest
<1>2. ASSUME NEW w \in Workers, Continue(w) PROVE IInv'
  BY ZenonT(60), <1>2, ReadStep, WriteStep, InvalidateStep DEF Continue
<1> QED BY ZenonT(60), <1>1, <1>2, ReadStep, WriteStep, TimeStep DEF Next

\* The inductive invariant gives the three properties.
LEMMA IInvImplies == IInv => VersionsUnique /\ NoLostUpdate /\ CacheHonest
<1> SUFFICES ASSUME IInv PROVE VersionsUnique /\ NoLostUpdate
  BY ZenonT(60) DEF IInv
<1>1. VersionsUnique
  BY NextVersionDense, KVAssumption DEF IInv, TypeOK, PathOK, VersionsUnique
<1> QED BY ZenonT(60), <1>1 DEF IInv, DistinctBases, NoLostUpdate

\* Version numbers of a secret are never reused, for any retention limits
\* and any interleaving of writers, destroyers and readers.
THEOREM VersionsUniqueAlways == Spec => []VersionsUnique
BY InitOK, NextOK, IInvImplies, PTL DEF Spec

\* Check-and-set writers never overwrite each other.
THEOREM NoLostUpdateAlways == Spec => []NoLostUpdate
BY InitOK, NextOK, IInvImplies, PTL DEF Spec

\* No cache, on any node, ever holds a payload under the wrong version.
THEOREM CacheHonestAlways == Spec => []CacheHonest
BY InitOK, NextOK, IInvImplies, PTL DEF Spec

\* The type invariant.
THEOREM TypeOKAlways == Spec => []TypeOK
<1>1. IInv => TypeOK
  BY DEF IInv
<1> QED BY <1>1, InitOK, NextOK, PTL DEF Spec
=============================================================================
