-------------------------------- MODULE MCKV --------------------------------
(***************************************************************************)
(* KV on a node of its own with two workers, where versions are written,   *)
(* destroyed and trimmed, and on two nodes that share Valkey, where it is  *)
(* asked whether their caches become fresh.                                *)
(***************************************************************************)
EXTENDS KV, TLC

CONSTANTS n1, n2, n3, w1, w2, w3, w4

VARIABLE part

MCNodeOf == w1 :> n1 @@ w2 :> n1 @@ w3 :> n2 @@ w4 :> n3

Parts == {"versions", "fresh"}
Busy == [versions |-> {w1, w2}, fresh |-> {w3, w4}]

MCInit == Init /\ part \in Parts

\* Where two caches and Valkey are involved, there are fewer writes, with
\* expiring values, and reads of the latest version only; where versions are
\* counted, one of the workers reads.
Reads(w) == req'[w].at = "lookup" => IF part = "fresh" THEN req'[w].ver = 0 ELSE w = w1

MCNext ==
  /\ Next
  /\ \A w \in Workers : IF w \in Busy[part] THEN Reads(w) ELSE req'[w] = Idle
  /\ \A p \in Paths :
       /\ part = "fresh" => puts'[p] < MaxPuts /\ Cardinality(Live(rows'[p])) <= 1
       /\ \A v \in DOMAIN rows'[p] : rows'[p][v].ttl = (part = "fresh")
  /\ UNCHANGED part

\* The fairness of FairSpec for what the second part uses.
MCSpec ==
  /\ MCInit /\ [][MCNext]_<<vars, part>>
  /\ \A w \in Busy["fresh"] : WF_vars(Continue(w))
  /\ \A s \in Connected \cup {Remote}, p \in Paths : WF_vars(EntryExpires(s, <<p, 0>>))

\* Once writes stop, the caches of the nodes that share Valkey stop serving
\* stale data (EventuallyFresh of KV).
CachesBecomeFresh == part = "fresh" => EventuallyFresh
=============================================================================
