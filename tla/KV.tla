--------------------------------- MODULE KV ---------------------------------
(***************************************************************************)
(* The KV v2 secrets engine (engine/secrets/kvv2.go) behind the secrets    *)
(* service with its read-through cache (service/secrets.go,                *)
(* cache/valkey.go), on a cluster of vault nodes.                          *)
(*                                                                         *)
(* The repository is shared by the nodes and each of its operations is     *)
(* atomic.  The cache is not: a node has its own in-process store, the     *)
(* nodes with a Valkey URL share Valkey, and the per-path generation that  *)
(* guards a fill is private to a node.  A request runs on one node and     *)
(* takes one step per call it makes to the repository, to the cache or to  *)
(* the generation map, so requests interleave between those calls.         *)
(*                                                                         *)
(* A payload is the number of the write that stored it: sealing, JSON,     *)
(* labels, tenant path scoping and audit records are abstracted away.      *)
(***************************************************************************)
EXTENDS SecretVersions

CONSTANTS
  Nodes,       \* vault processes
  Workers,     \* request goroutines
  NodeOf,      \* the node a worker runs on
  Paths,       \* secret paths
  Connected,   \* the nodes with a Valkey URL in their configuration
  Remote,      \* the shared Valkey store (a model value)
  Keeps,       \* retention limits requests ask for (0: the default)
  DefaultKeep, \* defaultMaxVersions
  TTLs,        \* whether a request may set a TTL, a subset of BOOLEAN
  Asked,       \* versions readers ask for (0: the latest)
  MaxPuts      \* bound on the writes to one path

ASSUME KVAssumption ==
  /\ NodeOf \in [Workers -> Nodes]
  /\ Remote \notin Nodes
  /\ Paths # {}
  /\ Connected \subseteq Nodes
  /\ Keeps \subseteq Nat
  /\ DefaultKeep \in Nat \ {0}
  /\ TTLs \subseteq BOOLEAN
  /\ Asked \subseteq 0 .. MaxPuts
  /\ MaxPuts \in Nat

VARIABLES
  rows,    \* the repository: the rows of every path
  puts,    \* history: how many writes a path has taken
  cache,   \* cache entry of every store, path and version key
  gen,     \* cacheGen of every node and path
  req      \* the request every worker is executing

vars == <<rows, puts, cache, gen, req>>

Miss == 0
Versions == 0 .. MaxPuts          \* 0 asks for the latest
Keys == Paths \X Versions
Places == Nodes \cup {Remote}

Idle == [at |-> "idle", path |-> CHOOSE p \in Paths : TRUE,
         ver |-> 0, gen |-> 0, got |-> Miss, todo |-> {}]

Init ==
  /\ rows = [p \in Paths |-> NoRows]
  /\ puts = [p \in Paths |-> 0]
  /\ cache = [s \in Places |-> [k \in Keys |-> Miss]]
  /\ gen = [n \in Nodes |-> [p \in Paths |-> 0]]
  /\ req = [w \in Workers |-> Idle]

At(w, label) == req[w].at = label
Goto(w, label) == req' = [req EXCEPT ![w].at = label]
Finish(w) == req' = [req EXCEPT ![w] = Idle]
Start(w, r) == At(w, "idle") /\ req' = [req EXCEPT ![w] = r]
-----------------------------------------------------------------------------
(* The cache, cache/valkey.go: Valkey first, then the in-process store.    *)

Stores(n) == IF n \in Connected THEN {Remote, n} ELSE {n}

CacheGet(n, k) ==
  IF n \in Connected /\ cache[Remote][k] # Miss THEN cache[Remote][k] ELSE cache[n][k]

CacheWith(n, ks, e) ==
  [s \in Places |-> [k \in Keys |->
     IF s \in Stores(n) /\ k \in ks THEN e ELSE cache[s][k]]]

CacheSet(n, k, e) == cache' = CacheWith(n, {k}, e)
CacheDelete(n, k) == cache' = CacheWith(n, {k}, Miss)
-----------------------------------------------------------------------------
(* Reads, SecretsService.getVersion.                                       *)

\* readGen is taken before the cache is consulted.
ReadBegin(w, p, v) ==
  /\ Start(w, [Idle EXCEPT !.at = "lookup", !.path = p, !.ver = v,
                           !.gen = gen[NodeOf[w]][p]])
  /\ UNCHANGED <<rows, puts, cache, gen>>

\* A cache hit answers the request.
ReadLookup(w) ==
  /\ At(w, "lookup")
  /\ IF CacheGet(NodeOf[w], <<req[w].path, req[w].ver>>) # Miss
       THEN Finish(w) ELSE Goto(w, "engine")
  /\ UNCHANGED <<rows, puts, cache, gen>>

\* KVV2Engine.GetVersion: the version asked for, or the newest live one;
\* a missing, a destroyed or an expired row is an error.
Readable(p, v) ==
  LET which == IF v = 0 /\ HasLatest(rows[p]) THEN Latest(rows[p]) ELSE v
  IN  IF /\ HasVersion(rows[p], which)
         /\ ~rows[p][which].destroyed
         /\ ~rows[p][which].expired
      THEN rows[p][which].data ELSE Miss

ReadEngine(w) ==
  /\ At(w, "engine")
  /\ LET r == Readable(req[w].path, req[w].ver)
     IN  IF r = Miss THEN Finish(w)
         ELSE req' = [req EXCEPT ![w].at = "check", ![w].got = r]
  /\ UNCHANGED <<rows, puts, cache, gen>>

\* The fill is skipped when the generation moved since the read began.
ReadCheck(w) ==
  /\ At(w, "check")
  /\ IF gen[NodeOf[w]][req[w].path] = req[w].gen
       THEN Goto(w, "fill") ELSE Finish(w)
  /\ UNCHANGED <<rows, puts, cache, gen>>

ReadFill(w) ==
  /\ At(w, "fill")
  /\ CacheSet(NodeOf[w], <<req[w].path, req[w].ver>>, req[w].got)
  /\ Finish(w)
  /\ UNCHANGED <<rows, puts, gen>>
-----------------------------------------------------------------------------
(* Writes: the engine call, then invalidateCache.                          *)

Keep(k) == IF k = 0 THEN DefaultKeep ELSE k

\* KVV2Engine.Put.  A CAS mismatch is an error and changes nothing.
Put(w, p, cas, keep, ttl) ==
  /\ puts[p] < MaxPuts
  /\ CasHolds(rows[p], cas)
  /\ rows' = [rows EXCEPT ![p] =
       PutAtomic(@, [data |-> puts[p] + 1, base |-> cas, ttl |-> ttl,
                     expired |-> FALSE, destroyed |-> FALSE], Keep(keep))]
  /\ puts' = [puts EXCEPT ![p] = @ + 1]
  /\ Start(w, [Idle EXCEPT !.at = "bump", !.path = p])
  /\ UNCHANGED <<cache, gen>>

\* KVV2Engine.DestroyVersion.
DestroyVersion(w, p, v) ==
  /\ CanDestroy(rows[p], v)
  /\ rows' = [rows EXCEPT ![p] = Destroy(@, v)]
  /\ Start(w, [Idle EXCEPT !.at = "bump", !.path = p])
  /\ UNCHANGED <<puts, cache, gen>>

\* KVV2Engine.Delete reads the latest version ...
DeleteBegin(w, p) ==
  /\ HasLatest(rows[p])
  /\ Start(w, [Idle EXCEPT !.at = "delete", !.path = p, !.ver = Latest(rows[p])])
  /\ UNCHANGED <<rows, puts, cache, gen>>

\* ... and destroys that version, which may be gone or destroyed by now.
DeleteDestroy(w) ==
  /\ At(w, "delete")
  /\ LET p == req[w].path  v == req[w].ver
     IN  IF CanDestroy(rows[p], v)
           THEN /\ rows' = [rows EXCEPT ![p] = Destroy(@, v)]
                /\ req' = [req EXCEPT ![w] = [Idle EXCEPT !.at = "bump", !.path = p]]
           ELSE Finish(w) /\ UNCHANGED rows
  /\ UNCHANGED <<puts, cache, gen>>

\* bumpCacheGen loads the generation and stores the successor: two calls.
BumpLoad(w) ==
  /\ At(w, "bump")
  /\ req' = [req EXCEPT ![w].at = "store", ![w].gen = gen[NodeOf[w]][req[w].path]]
  /\ UNCHANGED <<rows, puts, cache, gen>>

BumpStore(w) ==
  /\ At(w, "store")
  /\ gen' = [gen EXCEPT ![NodeOf[w]][req[w].path] = req[w].gen + 1]
  /\ Goto(w, "drop")
  /\ UNCHANGED <<rows, puts, cache>>

\* The key of the latest version first ...
DropLatestKey(w) ==
  /\ At(w, "drop")
  /\ CacheDelete(NodeOf[w], <<req[w].path, 0>>)
  /\ Goto(w, "list")
  /\ UNCHANGED <<rows, puts, gen>>

\* ... then the key of every version that still exists, one by one.
ListVersions(w) ==
  /\ At(w, "list")
  /\ IF DOMAIN rows[req[w].path] = {} THEN Finish(w)
     ELSE req' = [req EXCEPT ![w].at = "sweep",
                             ![w].todo = DOMAIN rows[req[w].path]]
  /\ UNCHANGED <<rows, puts, cache, gen>>

DropVersionKey(w) ==
  /\ At(w, "sweep")
  /\ LET v == Min(req[w].todo)
     IN  /\ CacheDelete(NodeOf[w], <<req[w].path, v>>)
         /\ IF req[w].todo = {v} THEN Finish(w)
            ELSE req' = [req EXCEPT ![w].todo = @ \ {v}]
  /\ UNCHANGED <<rows, puts, gen>>
-----------------------------------------------------------------------------
(* Time.                                                                   *)

\* A row with a TTL passes its ExpiresAt.
RowExpires(p, v) ==
  /\ v \in DOMAIN rows[p] /\ rows[p][v].ttl /\ ~rows[p][v].expired
  /\ rows' = [rows EXCEPT ![p][v].expired = TRUE]
  /\ UNCHANGED <<puts, cache, gen, req>>

\* Faulty variant: in-process entries have no expiry.
EntryExpiresRemote(s, k) ==
  /\ s = Remote /\ cache[s][k] # Miss
  /\ cache' = [cache EXCEPT ![s][k] = Miss]
  /\ UNCHANGED <<rows, puts, gen, req>>

\* A cache entry reaches the end of its five minutes.
EntryExpires(s, k) ==
  /\ cache[s][k] # Miss
  /\ cache' = [cache EXCEPT ![s][k] = Miss]
  /\ UNCHANGED <<rows, puts, gen, req>>

Continue(w) ==
  \/ ReadLookup(w) \/ ReadEngine(w) \/ ReadCheck(w) \/ ReadFill(w)
  \/ DeleteDestroy(w) \/ BumpLoad(w) \/ BumpStore(w)
  \/ DropLatestKey(w) \/ ListVersions(w) \/ DropVersionKey(w)

Next ==
  \/ \E w \in Workers, p \in Paths, v \in Asked : ReadBegin(w, p, v)
  \/ \E w \in Workers, p \in Paths, cas \in Versions \cup {NoCas},
        keep \in Keeps, ttl \in TTLs : Put(w, p, cas, keep, ttl)
  \/ \E w \in Workers, p \in Paths, v \in Versions : DestroyVersion(w, p, v)
  \/ \E w \in Workers, p \in Paths : DeleteBegin(w, p)
  \/ \E w \in Workers : Continue(w)
  \/ \E p \in Paths, v \in Versions : RowExpires(p, v)
  \/ \E s \in Places, k \in Keys : EntryExpires(s, k)

Spec == Init /\ [][Next]_vars

\* Request goroutines run, and wall-clock time ends cache entries.
FairSpec ==
  /\ Spec
  /\ \A w \in Workers : WF_vars(Continue(w))
  /\ \A s \in Places, k \in Keys : WF_vars(EntryExpires(s, k))
-----------------------------------------------------------------------------
(* Properties.                                                             *)

Labels == {"idle", "lookup", "engine", "check", "fill", "delete", "bump",
           "store", "drop", "list", "sweep"}
Row == [data : Versions, base : Versions \cup {NoCas}, ttl : BOOLEAN,
        expired : BOOLEAN, destroyed : BOOLEAN]
Request == [at : Labels, path : Paths, ver : Versions, gen : Nat,
            got : Versions, todo : SUBSET Nat]

\* The shapes of the repository, the cache and the requests in flight.
TypeOK ==
  /\ DOMAIN rows = Paths
  /\ \A p \in Paths : DOMAIN rows[p] \subseteq 1 .. puts[p]
                    /\ \A v \in DOMAIN rows[p] : rows[p][v] \in Row
  /\ puts \in [Paths -> 0 .. MaxPuts]
  /\ cache \in [Places -> [Keys -> Versions]]
  /\ gen \in [Nodes -> [Paths -> Nat]]
  /\ req \in [Workers -> Request]

\* A version number is allocated once.  The k-th write to a path is version
\* k for ever, whatever retention removed and whatever was destroyed in
\* between: PutAtomic never hands out a number again, although it derives
\* the next one from the rows that are left.
VersionsUnique ==
  \A p \in Paths :
    /\ NextVersion(rows[p]) = puts[p] + 1
    /\ \A v \in DOMAIN rows[p] : rows[p][v].data = v

\* A cached answer to "version v" is the payload that was written as v, on
\* every node and in Valkey, and a cached answer to "latest" is a payload
\* this path really had: caching may be stale, never wrong.
CacheHonest ==
  \A s \in Places, p \in Paths, v \in Versions :
    cache[s][<<p, v>>] # Miss =>
      IF v = 0 THEN cache[s][<<p, v>>] \in 1 .. puts[p]
      ELSE cache[s][<<p, v>>] = v

\* Check-and-set writers do not overwrite each other: no two live versions
\* were written on top of the same base.
NoLostUpdate ==
  \A p \in Paths : \A v, w \in Live(rows[p]) :
    (v # w /\ rows[p][v].base = rows[p][w].base) => rows[p][v].base = NoCas

\* What a node would answer to "latest" from its cache is not stale.
FreshAt(n, p) ==
  LET e == CacheGet(n, <<p, 0>>)
  IN  e # Miss => /\ HasLatest(rows[p])
                  /\ e = rows[p][Latest(rows[p])].data
                  /\ ~rows[p][Latest(rows[p])].expired

\* Once writes stop, every node's cache stops serving stale data: stale
\* fills by slow readers are finitely many and their entries time out.
EventuallyFresh == <>[](\A n \in Nodes, p \in Paths : FreshAt(n, p))

\* docs/architecture/security-model.md on the generation counter:
\* "concurrent writes cannot repopulate stale values".  When no write to a
\* path is between its repository call and the end of its invalidation, a
\* cached "latest" is the latest version.
ConcurrentWritesCannotRepopulate ==
  \A n \in Nodes, p \in Paths :
    (\A w \in Workers : req[w].path = p =>
       req[w].at \notin {"bump", "store", "drop", "list", "sweep"}) =>
    LET e == CacheGet(n, <<p, 0>>)
    IN  e # Miss => HasLatest(rows[p]) /\ e = rows[p][Latest(rows[p])].data
=============================================================================
