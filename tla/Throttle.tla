------------------------------ MODULE Throttle ------------------------------
(***************************************************************************)
(* The request limiters (internal/api/middleware): the token bucket that   *)
(* each process keeps for each client, and the counter of the minute that  *)
(* the processes of a cluster share through the cache.  Time is in ticks,  *)
(* Minute of them to the limiter's interval, and a bucket keeps the ages   *)
(* of its two time stamps.  Tokens are counted in parts, Minute of them to *)
(* a token, so that a tick refills RPM parts.                              *)
(***************************************************************************)
EXTENDS Naturals, FiniteSets, FiniteSetsExt, Functions

CONSTANTS
  Callees,     \* keys: the token or the address that a request is charged to
  Peers,       \* the processes of the cluster
  RPM,         \* requests in a minute
  Minute,      \* ticks in a minute
  IdleTTL,     \* ticks after which an unused bucket is dropped
  Rooms,       \* numbers of buckets that a process may be set to keep
  MaxBurst     \* bound: grants to one key within a minute

VARIABLES
  maxBuckets,  \* buckets kept at most
  bucket,      \* key -> bucket
  grants,      \* key -> grants at each of the last Minute ticks
  displaced,   \* keys whose bucket was dropped to make room
  answer,      \* key -> how its last request ended
  count,       \* place -> counter of this minute, in the cache and in each process
  second,      \* ticks of this minute that have passed
  passed,      \* requests let through in this minute, by all processes
  alone        \* processes that did not reach the cache in this minute

bucketVars == <<maxBuckets, bucket, grants, displaced, answer>>
sharedVars == <<count, second, passed, alone>>
throttleVars == <<bucketVars, sharedVars>>

Full == RPM * Minute
NoBucket == [kept |-> FALSE, tokens |-> 0, refill |-> 0, seen |-> 0]
Kept(bs) == {k \in Callees : bs[k].kept}

ThrottleInit ==
  /\ maxBuckets \in Rooms /\ bucket = [k \in Callees |-> NoBucket]
  /\ grants = [k \in Callees |-> [t \in 0..(Minute - 1) |-> 0]]
  /\ displaced = {} /\ answer = [k \in Callees |-> "none"]
  /\ count = [p \in Peers \cup {"cache"} |-> 0]
  /\ second = 0 /\ passed = 0 /\ alone = {}

------------------------------------------------------------------------------
Least(a, b) == IF a < b THEN a ELSE b

(* evictLocked: buckets that nobody used for longer than IdleTTL. *)
evictLocked(bs) == [k \in Callees |-> IF bs[k].kept /\ bs[k].seen > IdleTTL THEN NoBucket ELSE bs[k]]

(* evictOldestLocked: any of those seen longest ago. *)
Oldest(bs) == {k \in Kept(bs) : \A o \in Kept(bs) : bs[o].seen <= bs[k].seen}

(* A refill that a refused request takes the time of and not the tokens. *)
RefillLost(b) ==
  [b EXCEPT !.tokens = IF b.refill >= Minute THEN Full ELSE IF b.refill * RPM < Minute THEN @ ELSE Least(Full, @ + b.refill * RPM),
            !.refill = 0, !.seen = 0]

(* A bucket that is refilled to the brim at every use. *)
RefillWhole(b) == [b EXCEPT !.tokens = Full, !.refill = 0, !.seen = 0]

(* A whole interval fills the bucket, a part of one its part of it. *)
Refill(b) ==
  [b EXCEPT !.tokens = IF b.refill >= Minute THEN Full ELSE Least(Full, @ + b.refill * RPM),
            !.refill = 0, !.seen = 0]

Grant(k) == grants' = [grants EXCEPT ![k][0] = @ + 1] /\ answer' = [answer EXCEPT ![k] = "pass"]
Refuse(k) == grants' = grants /\ answer' = [answer EXCEPT ![k] = "refused"]

Burst(k) == SumFunction(grants[k])

(* allow, for a key without a bucket and for one with: the mutex is held   *)
(* throughout, and idle buckets go first.                                  *)
NewBucket(k) ==
  LET idle == evictLocked(bucket)
      full == Cardinality(Kept(idle)) >= maxBuckets
  IN  /\ ~idle[k].kept
      /\ \E out \in IF full THEN {{o} : o \in Oldest(idle)} ELSE {{}} :
           /\ bucket' = [o \in Callees |->
                           IF o = k THEN [kept |-> TRUE, tokens |-> Full - Minute, refill |-> 0, seen |-> 0]
                           ELSE IF o \in out THEN NoBucket ELSE idle[o]]
           /\ displaced' = displaced \cup out
      /\ Grant(k) /\ UNCHANGED maxBuckets

UseBucket(k) ==
  LET idle == evictLocked(bucket)
      b    == Refill(idle[k])
  IN  /\ idle[k].kept
      /\ IF b.tokens < Minute
         THEN bucket' = [idle EXCEPT ![k] = b] /\ Refuse(k)
         ELSE bucket' = [idle EXCEPT ![k] = [b EXCEPT !.tokens = @ - Minute]] /\ Grant(k)
      /\ UNCHANGED <<maxBuckets, displaced>>

(* A request of a client (Middleware, and the throttles built on it). *)
Ask(k) == Burst(k) < MaxBurst /\ (NewBucket(k) \/ UseBucket(k))

BucketTick ==
  /\ bucket' = [k \in Callees |-> IF bucket[k].kept
                                  THEN [bucket[k] EXCEPT !.refill = Least(Minute, @ + 1), !.seen = Least(IdleTTL + 1, @ + 1)]
                                  ELSE NoBucket]
  /\ grants' = [k \in Callees |-> [t \in 0..(Minute - 1) |-> IF t = 0 THEN 0 ELSE grants[k][t - 1]]]
  /\ answer' = [k \in Callees |-> "none"]
  /\ UNCHANGED <<maxBuckets, displaced>>

BucketNext == BucketTick \/ \E k \in Callees : Ask(k)

------------------------------------------------------------------------------
(* The counter of the minute: in the cache when it answers, else in the    *)
(* memory of the process.                                                  *)
IncrOwn(p, reached) == p
IncrPlace(p, reached) == IF reached THEN "cache" ELSE p

(* allowShared; the process's own limiter may still refuse. *)
AskShared(p) ==
  \E reached \in BOOLEAN :
    LET place == IncrPlace(p, reached)
        n     == Least(RPM, count[place]) + 1
    IN  /\ count' = [count EXCEPT ![place] = n]
        /\ passed' \in {passed} \cup (IF n <= RPM THEN {passed + 1} ELSE {})
        /\ alone' = IF reached THEN alone ELSE alone \cup {p}
        /\ UNCHANGED second

(* The counter's key holds the minute, so each minute counts from zero. *)
SharedTick ==
  /\ second' = (second + 1) % Minute
  /\ IF second' = 0
     THEN count' = [p \in DOMAIN count |-> 0] /\ passed' = 0 /\ alone' = {}
     ELSE UNCHANGED <<count, passed, alone>>

SharedNext == SharedTick \/ \E p \in Peers : AskShared(p)

------------------------------------------------------------------------------

(* Within any interval a client is granted a full bucket and what was      *)
(* refilled since, never more: dropping a bucket that was idle longer than *)
(* the interval gives nothing away.  Only a client whose bucket had to     *)
(* make room for others may start again with a full one (allow).           *)
BurstBound == \A k \in Callees \ displaced : Minute * Burst(k) <= Full + RPM * (Minute - 1)

(* The requests that all processes let through in a minute are bounded by  *)
(* the limit, and by once more the limit for each process that had to      *)
(* count alone (allowShared with the cache's fallback).                    *)
MinuteBound == passed <= RPM * (1 + Cardinality(alone))

(* A client that goes on asking is served again and again: a refused       *)
(* request does not cost the refill it came too early for.                 *)
AskersAreServed == \A k \in Callees : []<>(answer[k] = "pass")
=============================================================================
