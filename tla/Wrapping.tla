------------------------------ MODULE Wrapping ------------------------------
(***************************************************************************)
(* Response wrapping, service/wrapping.go over engine/secrets/cubbyhole.   *)
(*                                                                         *)
(* A payload is stored in the cubbyhole under a fresh wrapping token, and  *)
(* its metadata (unused, used) both in the shared repository and in a map  *)
(* of the node.  Unwrap marks the metadata used and then hands the payload *)
(* out.  The mutex of the service is private to a node: two nodes meet     *)
(* only in the repository, where marking is a check-and-set.               *)
(*                                                                         *)
(* One step is one repository call together with the process-local work    *)
(* next to it.  With Faults, a repository call may fail; a write that      *)
(* reports failure may still have been applied (a proposal that timed      *)
(* out).  With Restarts, a node may lose its map and its requests.         *)
(***************************************************************************)
EXTENDS SecretVersions

CONSTANTS
  Nodes,     \* vault processes
  Threads,   \* request goroutines
  NodeOf,    \* the node a goroutine runs on
  NoNode,    \* no node (a model value)
  Tokens,    \* wrapping tokens that may be minted
  Faults,    \* repository calls may fail
  Restarts   \* processes may restart

ASSUME WrappingAssumption ==
  /\ NodeOf \in [Threads -> Nodes]
  /\ NoNode \notin Nodes
  /\ Tokens # {}
  /\ Faults \in BOOLEAN
  /\ Restarts \in BOOLEAN

VARIABLES
  meta,      \* repository rows of sys/wrapping/meta/<token>
  payload,   \* the cubbyhole entry of the token is there
  expired,   \* the token is past its ExpiresAt
  wraps,     \* the process-local map of every node
  job,       \* what every goroutine is doing
  minter,    \* history: the node that minted the token, or NoNode
  issued,    \* history: the tokens that were returned to a client
  handed     \* history: how often each node handed out each payload

vars == <<meta, payload, expired, wraps, job, minter, issued, handed>>

\* An entry of the process-local map; "there" tells an entry from none.
Absent == [there |-> FALSE, used |-> FALSE, cas |-> NoCas]
Entry(used, cas) == [there |-> TRUE, used |-> used, cas |-> cas]

Idle == [at |-> "idle", tok |-> CHOOSE t \in Tokens : TRUE,
         cas |-> NoCas, gcid |-> CHOOSE t \in Tokens : TRUE, todo |-> {}]

Init ==
  /\ meta = [t \in Tokens |-> NoRows]
  /\ payload = [t \in Tokens |-> FALSE]
  /\ expired = [t \in Tokens |-> FALSE]
  /\ wraps = [n \in Nodes |-> [t \in Tokens |-> Absent]]
  /\ job = [th \in Threads |-> Idle]
  /\ minter = [t \in Tokens |-> NoNode]
  /\ issued = {}
  /\ handed = [n \in Nodes |-> [t \in Tokens |-> 0]]

At(th, label) == job[th].at = label
Become(th, j) == job' = [job EXCEPT ![th] = j]
Goto(th, label) == Become(th, [job[th] EXCEPT !.at = label])

\* s.mu of a node is held between two repository calls of these places.
LockHeld == {"mark", "gc", "gcdestroy", "gcdelete"}
Locked(n) == \E th \in Threads : NodeOf[th] = n /\ job[th].at \in LockHeld

\* A repository write is done and acknowledged, refused, or done although
\* the caller sees an error; a read may fail.
Writes == IF Faults THEN {"ok", "error", "lost"} ELSE {"ok"}
Reads == IF Faults THEN BOOLEAN ELSE {TRUE}

\* putMetaLocked on a row of the repository.
PutMeta(t, used) ==
  meta' = [meta EXCEPT ![t] = PutAtomic(@, [used |-> used, destroyed |-> FALSE], 1)]

\* cubby.Delete; its errors are ignored everywhere.
CubbyDelete(t, w) == payload' = [payload EXCEPT ![t] = @ /\ w = "error"]
-----------------------------------------------------------------------------
(* Wrap.                                                                   *)

\* Faulty variant: the token is derived from the payload, so not fresh.
WrapStoreAgain(th, t, w) ==
  /\ At(th, "idle")
  /\ minter' = [minter EXCEPT ![t] = NodeOf[th]]
  /\ payload' = [payload EXCEPT ![t] = w # "error"]
  /\ IF w = "ok" THEN Become(th, [Idle EXCEPT !.at = "putmeta", !.tok = t])
     ELSE UNCHANGED job
  /\ UNCHANGED <<meta, expired, wraps, issued, handed>>

\* A fresh random token; the payload goes to the cubbyhole.
WrapStore(th, t, w) ==
  /\ At(th, "idle") /\ minter[t] = NoNode
  /\ minter' = [minter EXCEPT ![t] = NodeOf[th]]
  /\ payload' = [payload EXCEPT ![t] = w # "error"]
  /\ IF w = "ok" THEN Become(th, [Idle EXCEPT !.at = "putmeta", !.tok = t])
     ELSE UNCHANGED job
  /\ UNCHANGED <<meta, expired, wraps, issued, handed>>

\* putMeta: the local entry first, then an unconditional write.
WrapMeta(th, w) ==
  /\ At(th, "putmeta") /\ ~Locked(NodeOf[th])
  /\ wraps' = [wraps EXCEPT ![NodeOf[th]][job[th].tok] = Entry(FALSE, NoCas)]
  /\ IF w = "error" THEN UNCHANGED meta ELSE PutMeta(job[th].tok, FALSE)
  /\ Goto(th, IF w = "ok" THEN "gclock" ELSE "undo")
  /\ UNCHANGED <<payload, expired, minter, issued, handed>>

\* The metadata could not be stored: take the payload back.
WrapUndo(th, w) ==
  /\ At(th, "undo")
  /\ CubbyDelete(job[th].tok, w)
  /\ Become(th, Idle)
  /\ UNCHANGED <<meta, expired, wraps, minter, issued, handed>>

\* gcExpiredLocked starts: the local entries that are used or expired.
GcLock(th) ==
  /\ At(th, "gclock") /\ ~Locked(NodeOf[th])
  /\ LET n == NodeOf[th]
     IN  Become(th, [job[th] EXCEPT !.at = "gc", !.todo =
           {t \in Tokens : wraps[n][t].there /\ (wraps[n][t].used \/ expired[t])}])
  /\ UNCHANGED <<meta, payload, expired, wraps, minter, issued, handed>>

\* One entry: forget it, look its metadata up ...
GcDrop(th, t, ok) ==
  /\ At(th, "gc") /\ t \in job[th].todo
  /\ wraps' = [wraps EXCEPT ![NodeOf[th]][t] = Absent]
  /\ LET found == ok /\ HasLatest(meta[t])
     IN  Become(th, [job[th] EXCEPT !.todo = @ \ {t}, !.gcid = t,
           !.at = IF found THEN "gcdestroy" ELSE "gcdelete",
           !.cas = IF found THEN Latest(meta[t]) ELSE NoCas])
  /\ UNCHANGED <<meta, payload, expired, minter, issued, handed>>

\* ... destroy the version that was found ...
GcDestroy(th, w) ==
  /\ At(th, "gcdestroy")
  /\ LET t == job[th].gcid  v == job[th].cas
     IN  meta' = IF CanDestroy(meta[t], v) /\ w # "error"
                 THEN [meta EXCEPT ![t] = Destroy(@, v)] ELSE meta
  /\ Goto(th, "gcdelete")
  /\ UNCHANGED <<payload, expired, wraps, minter, issued, handed>>

\* ... and delete the payload.
GcDelete(th, w) ==
  /\ At(th, "gcdelete")
  /\ CubbyDelete(job[th].gcid, w)
  /\ Goto(th, "gc")
  /\ UNCHANGED <<meta, expired, wraps, minter, issued, handed>>

\* The sweep is over; the client gets the token.
WrapReturn(th) ==
  /\ At(th, "gc") /\ job[th].todo = {}
  /\ issued' = issued \cup {job[th].tok}
  /\ Become(th, Idle)
  /\ UNCHANGED <<meta, payload, expired, wraps, minter, handed>>
-----------------------------------------------------------------------------
(* Unwrap and Lookup.                                                      *)

\* getMetaLocked: the repository, and the local entry when that fails.
GetMeta(n, t, ok) ==
  IF ok /\ HasLatest(meta[t])
    THEN Entry(meta[t][Latest(meta[t])].used, Latest(meta[t]))
    ELSE wraps[n][t]

\* What was read from the repository is remembered locally.
Remember(n, t, ok) ==
  wraps' = IF ok /\ HasLatest(meta[t])
           THEN [wraps EXCEPT ![n][t] = GetMeta(n, t, ok)] ELSE wraps

\* An unknown, a used or an expired token is refused.
Unwrap(th, t, ok) ==
  /\ At(th, "idle") /\ t \in issued /\ ~Locked(NodeOf[th])
  /\ LET m == GetMeta(NodeOf[th], t, ok)
     IN  IF m.there /\ ~m.used /\ ~expired[t]
         THEN Become(th, [Idle EXCEPT !.at = "mark", !.tok = t, !.cas = m.cas])
         ELSE UNCHANGED job
  /\ Remember(NodeOf[th], t, ok)
  /\ UNCHANGED <<meta, payload, expired, minter, issued, handed>>

\* Faulty variant: the CAS version not passed.
MarkNoCas(th, w) ==
  /\ At(th, "mark")
  /\ LET t == job[th].tok  cas == job[th].cas
         done == w # "error"
     IN  /\ wraps' = [wraps EXCEPT ![NodeOf[th]][t] = Entry(TRUE, cas)]
         /\ IF done THEN PutMeta(t, TRUE) ELSE UNCHANGED meta
         /\ IF done /\ w = "ok" THEN Goto(th, "fetch") ELSE Become(th, Idle)
  /\ UNCHANGED <<payload, expired, minter, issued, handed>>

\* putMetaLocked with Used set: the local entry is marked in any case, the
\* stored one under the CAS version that was read, if one was.
Mark(th, w) ==
  /\ At(th, "mark")
  /\ LET t == job[th].tok  cas == job[th].cas
         done == w # "error" /\ CasHolds(meta[t], cas)
     IN  /\ wraps' = [wraps EXCEPT ![NodeOf[th]][t] = Entry(TRUE, cas)]
         /\ IF done THEN PutMeta(t, TRUE) ELSE UNCHANGED meta
         /\ IF done /\ w = "ok" THEN Goto(th, "fetch") ELSE Become(th, Idle)
  /\ UNCHANGED <<payload, expired, minter, issued, handed>>

\* cubby.Get.
Fetch(th, ok) ==
  /\ At(th, "fetch")
  /\ IF ok /\ payload[job[th].tok] THEN Goto(th, "discard") ELSE Become(th, Idle)
  /\ UNCHANGED <<meta, payload, expired, wraps, minter, issued, handed>>

\* cubby.Delete; the payload goes to the client.
Discard(th, w) ==
  /\ At(th, "discard")
  /\ CubbyDelete(job[th].tok, w)
  /\ handed' = [handed EXCEPT ![NodeOf[th]][job[th].tok] = @ + 1]
  /\ Become(th, Idle)
  /\ UNCHANGED <<meta, expired, wraps, minter, issued>>

\* Lookup answers from the metadata and leaves what it read behind.
Lookup(th, t, ok) ==
  /\ At(th, "idle") /\ t \in issued /\ ~Locked(NodeOf[th])
  /\ Remember(NodeOf[th], t, ok)
  /\ UNCHANGED <<meta, payload, expired, job, minter, issued, handed>>
-----------------------------------------------------------------------------
Expire(t) ==
  /\ minter[t] # NoNode /\ ~expired[t]
  /\ expired' = [expired EXCEPT ![t] = TRUE]
  /\ UNCHANGED <<meta, payload, wraps, job, minter, issued, handed>>

\* A process restarts: its map and its requests are gone.
Restart(n) ==
  /\ Restarts
  /\ wraps' = [wraps EXCEPT ![n] = [t \in Tokens |-> Absent]]
  /\ job' = [th \in Threads |-> IF NodeOf[th] = n THEN Idle ELSE job[th]]
  /\ UNCHANGED <<meta, payload, expired, minter, issued, handed>>

WrapStep(th) ==
  \/ \E t \in Tokens, w \in Writes : WrapStore(th, t, w)
  \/ \E w \in Writes : WrapMeta(th, w) \/ WrapUndo(th, w)
  \/ GcLock(th) \/ WrapReturn(th)
  \/ \E t \in Tokens, ok \in Reads : GcDrop(th, t, ok)
  \/ \E w \in Writes : GcDestroy(th, w) \/ GcDelete(th, w)

UnwrapStep(th) ==
  \/ \E t \in Tokens, ok \in Reads : Unwrap(th, t, ok) \/ Lookup(th, t, ok)
  \/ \E w \in Writes : Mark(th, w) \/ Discard(th, w)
  \/ \E ok \in Reads : Fetch(th, ok)

Next ==
  \/ \E th \in Threads : WrapStep(th) \/ UnwrapStep(th)
  \/ \E t \in Tokens : Expire(t)
  \/ \E n \in Nodes : Restart(n)

Spec == Init /\ [][Next]_vars
-----------------------------------------------------------------------------
(* Properties.                                                             *)

Labels == {"idle", "putmeta", "undo", "gclock", "gc", "gcdestroy", "gcdelete",
           "mark", "fetch", "discard"}
LocalEntry == [there : BOOLEAN, used : BOOLEAN, cas : Nat \cup {NoCas}]
Job == [at : Labels, tok : Tokens, cas : Nat \cup {NoCas}, gcid : Tokens,
        todo : SUBSET Tokens]

\* The shapes of the stored metadata, the local maps and the requests.
TypeOK ==
  /\ DOMAIN meta = Tokens
  /\ \A t \in Tokens : /\ DOMAIN meta[t] \subseteq Nat \ {0}
                       /\ \A v \in DOMAIN meta[t] :
                            meta[t][v] \in [used : BOOLEAN, destroyed : BOOLEAN]
  /\ payload \in [Tokens -> BOOLEAN]
  /\ expired \in [Tokens -> BOOLEAN]
  /\ wraps \in [Nodes -> [Tokens -> LocalEntry]]
  /\ job \in [Threads -> Job]
  /\ minter \in [Tokens -> Nodes \cup {NoNode}]
  /\ issued \subseteq Tokens
  /\ handed \in [Nodes -> [Tokens -> Nat]]

\* Goroutine th got past marking t: it will hand the payload out.
Past(th, t) == job[th].at \in {"fetch", "discard"} /\ job[th].tok = t

\* Node n has taken, or is taking, the payload of t.
Took(n, t) == handed[n][t] > 0 \/ \E th \in Threads : NodeOf[th] = n /\ Past(th, t)

\* A node hands a payload out at most once, whatever fails, restarts or is
\* swept in between: its own used entry, or the stored one, stops the
\* second Unwrap.
OncePerNode ==
  \A n \in Nodes, t \in Tokens :
    /\ handed[n][t] <= 1
    /\ \A th \in Threads : (NodeOf[th] = n /\ Past(th, t)) => handed[n][t] = 0
    /\ \A a, b \in Threads :
         (NodeOf[a] = n /\ NodeOf[b] = n /\ Past(a, t) /\ Past(b, t)) => a = b

\* Only the node that minted a token writes its metadata without a CAS
\* version, so of two nodes that take the same payload one is the minter:
\* between all the other nodes a token is single-use.
MinterIsTheException ==
  \A t \in Tokens : \A m, n \in Nodes :
    (m # n /\ Took(m, t) /\ Took(n, t)) => minter[t] \in {m, n}

\* A token that was taken is never offered as unused again by the stored
\* metadata, on any node.
TakenIsMarked ==
  \A t \in Tokens :
    (\E n \in Nodes : Took(n, t)) => \A v \in Live(meta[t]) : meta[t][v].used

Abstract == INSTANCE SingleUse

\* The whole service with its sweeps, failures and restarts is a token store
\* that redeems a token once on a node, and on two only when one minted it
\* (WrappingService.Wrap, Unwrap).
RedeemedOnce == Abstract!Spec

\* service/wrapping.go: "CAS when marking used so multi-node single-use is
\* atomic."
MultiNodeSingleUse ==
  \A t \in Tokens : \A m, n \in Nodes : Took(m, t) /\ Took(n, t) => m = n
=============================================================================
