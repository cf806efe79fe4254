------------------------------ MODULE Election ------------------------------
(***************************************************************************)
(* Who runs the background jobs.  A node campaigns for a Kubernetes Lease  *)
(* (or watches who leads the Raft group), starts the job loop when it wins *)
(* and cancels it when it sees somebody else has won.  The Lease is read   *)
(* and written back in two requests, and the write is unconditional.       *)
(***************************************************************************)
EXTENDS Integers, FiniteSets

CONSTANTS
  Nodes, None, Electors, LeaseTime, MaxUpsets,
  Jobs  \* the periodic jobs, by their ticker; the code has five, treated alike

VARIABLES
  elector,  \* which elector the deployment uses: "k8s" or "raft"
  lease,    \* the Lease object: its holder (None: not created) and the age of its RenewTime
  raft,     \* the Raft leader, and the leader each node's NodeHost reports
  node,     \* per node: up, the ticker, the request in flight, leadCancel, its job loops
  sealed,   \* the seal that fences the jobs
  last,     \* the jobs that the latest turn of a job loop ran
  upsets    \* API errors, pauses, crashes, elections and seals so far

electionVars == <<elector, lease, raft, node, sealed, last, upsets>>

\* What each ticker of the loop runs.
Tickers == {{j} : j \in Jobs}

Down == [up |-> FALSE, due |-> FALSE, call |-> "none", stamp |-> 0, lead |-> FALSE,
         live |-> 0, late |-> 0, begun |-> FALSE]
Booted == [Down EXCEPT !.up = TRUE]

ElectionInit ==
  /\ elector \in Electors
  /\ lease = [holder |-> None, age |-> 0]
  /\ raft = [leader |-> None, view |-> [n \in Nodes |-> None]]
  /\ node = [n \in Nodes |-> Booted]
  /\ sealed = FALSE /\ last = {} /\ upsets = 0

Upset == upsets < MaxUpsets /\ upsets' = upsets + 1

(* Run's three outcomes of an attempt.  leadCancel guards the loop: a      *)
(* renewal starts nothing, and only a lost lease cancels.                  *)
Acquired(rec) ==
  IF rec.lead
  THEN [rec EXCEPT !.call = "none", !.due = FALSE]
  ELSE [rec EXCEPT !.call = "none", !.due = FALSE, !.lead = TRUE,
                   !.live = @ + 1, !.begun = FALSE]

Lost(rec) ==
  [rec EXCEPT !.call = "none", !.due = FALSE, !.lead = FALSE,
              !.live = IF rec.lead THEN @ - 1 ELSE @,
              !.late = IF rec.lead THEN 1 ELSE @]

Errored(rec) == [rec EXCEPT !.call = "none", !.due = FALSE]

\* getLease fails: there is none, or the API server did not answer with one.
Missing == Upset \/ (lease.holder = None /\ UNCHANGED upsets)

(* tryAcquire's read: an error of any kind is taken for a missing Lease.   *)
GetLease(n) ==
  /\ elector = "k8s" /\ node[n].up /\ node[n].due /\ node[n].call = "none"
  /\ \/ /\ Missing
        /\ node' = [node EXCEPT ![n].call = "create", ![n].stamp = 0]
     \/ /\ lease.holder # None /\ UNCHANGED upsets
        /\ node' = [node EXCEPT ![n] =
                      IF lease.holder # n /\ lease.age < LeaseTime
                      THEN Lost(@)
                      ELSE [@ EXCEPT !.call = "update", !.stamp = 0]]
  /\ UNCHANGED <<elector, lease, raft, sealed, last>>

(* putLease: a create conflicts with a Lease that exists, an update names  *)
(* no resource version and always wins; either may be lost or unanswered.  *)
Answer(n) ==
  IF node[n].call = "update" \/ (node[n].call = "create" /\ lease.holder = None)
  THEN [holder |-> n, age |-> node[n].stamp]
  ELSE lease

PutLease(n) ==
  /\ node[n].up /\ node[n].call # "none"
  /\ \/ /\ node[n].call = "update" \/ lease.holder = None
        /\ UNCHANGED upsets
        /\ lease' = Answer(n) /\ node' = [node EXCEPT ![n] = Acquired(@)]
     \/ /\ node[n].call = "create" /\ lease.holder # None
        /\ UNCHANGED <<upsets, lease>>
        /\ node' = [node EXCEPT ![n] = Errored(@)]
     \/ /\ Upset /\ lease' \in {lease, Answer(n)}
        /\ node' = [node EXCEPT ![n] = Errored(@)]
  /\ UNCHANGED <<elector, raft, sealed, last>>

(* The Raft elector's tick: it believes the node's own NodeHost.           *)
ProbeRaft(n) ==
  /\ elector = "raft" /\ node[n].up /\ node[n].due
  /\ node' = [node EXCEPT ![n] = IF raft.view[n] = n THEN Acquired(@) ELSE Lost(@)]
  /\ UNCHANGED <<elector, lease, raft, sealed, last, upsets>>

CampaignStep(n) == GetLease(n) \/ PutLease(n) \/ ProbeRaft(n)

(* Raft elects among the nodes that are up, and each hears of it later.    *)
Elect(n) ==
  /\ elector = "raft" /\ node[n].up /\ raft.leader # n
  /\ IF \E m \in Nodes : m = raft.leader /\ node[m].up THEN Upset ELSE UNCHANGED upsets
  /\ raft' = [raft EXCEPT !.leader = n]
  /\ UNCHANGED <<elector, lease, node, sealed, last>>

Hear(n) ==
  /\ elector = "raft" /\ node[n].up /\ raft.view[n] # raft.leader
  /\ raft' = [raft EXCEPT !.view[n] = raft.leader]
  /\ UNCHANGED <<elector, lease, node, sealed, last, upsets>>

(* Tickers fire well within a lease time, and requests time out sooner: a  *)
(* lease ages only when nobody owes an attempt, unless a node is paused.   *)
Tick ==
  /\ \/ /\ \A n \in Nodes : ~node[n].due /\ node[n].call = "none"
        /\ UNCHANGED upsets
     \/ Upset
  /\ lease' = [lease EXCEPT !.age = IF lease.holder # None /\ @ < LeaseTime THEN @ + 1 ELSE @]
  /\ node' = [n \in Nodes |->
                [node[n] EXCEPT !.due = node[n].up,
                                !.stamp = IF node[n].call # "none" /\ @ < LeaseTime THEN @ + 1 ELSE @]]
  /\ UNCHANGED <<elector, raft, sealed, last>>

(* runOnLeader: every job once, then whichever ticker is ready; a sealed   *)
(* vault makes each of them return at once.                                *)
Turn(jobs) == last' = IF sealed THEN {} ELSE jobs

BeginJobs(n) ==
  /\ node[n].live > 0 /\ ~node[n].begun
  /\ Turn(Jobs)
  /\ node' = [node EXCEPT ![n].begun = TRUE]
  /\ UNCHANGED <<elector, lease, raft, sealed, upsets>>

\* Faulty variant: the loop serves its first ticker only.
RunFirst(n, jobs) ==
  /\ node[n].live > 0 /\ node[n].begun
  /\ Turn(CHOOSE first \in Tickers : TRUE)
  /\ UNCHANGED <<elector, lease, raft, node, sealed, upsets>>

RunJobs(n, jobs) ==
  /\ node[n].live > 0 /\ node[n].begun
  /\ Turn(jobs)
  /\ UNCHANGED <<elector, lease, raft, node, sealed, upsets>>

\* A cancelled loop finishes its job, and may take a ready ticker first.
LateJobs(n) ==
  /\ node[n].late > 0
  /\ \/ \E jobs \in Tickers : Turn(jobs)
     \/ UNCHANGED last
  /\ node' = [node EXCEPT ![n].late = 0]
  /\ UNCHANGED <<elector, lease, raft, sealed, upsets>>

Crash(n) ==
  /\ node[n].up /\ Upset
  /\ lease' \in {lease, Answer(n)}
  /\ node' = [node EXCEPT ![n] = Down]
  /\ UNCHANGED <<elector, raft, sealed, last>>

Start(n) ==
  /\ ~node[n].up
  /\ node' = [node EXCEPT ![n] = Booted]
  /\ UNCHANGED <<elector, lease, raft, sealed, last, upsets>>

Seal == ~sealed /\ Upset /\ sealed' = TRUE /\ UNCHANGED <<elector, lease, raft, node, last>>
Unseal == sealed /\ sealed' = FALSE /\ UNCHANGED <<elector, lease, raft, node, last, upsets>>

ElectionNext ==
  \/ \E n \in Nodes :
       \/ CampaignStep(n) \/ Elect(n) \/ Hear(n)
       \/ BeginJobs(n) \/ (\E jobs \in Tickers : RunJobs(n, jobs)) \/ LateJobs(n)
       \/ Crash(n) \/ Start(n)
  \/ Tick \/ Seal \/ Unseal

-----------------------------------------------------------------------------

(* Races on the Lease, API errors, pauses and crashes may make two nodes   *)
(* run the jobs for a while; once they stop, one node does, for good.      *)
SettlesOnOne == <>[](Cardinality({n \in Nodes : node[n].live > 0}) = 1)

(* No job is starved: whatever happened before, every job runs again and   *)
(* again on somebody (JobRunner.runOnLeader).                              *)
EveryJobRuns == \A j \in Jobs : []<>(j \in last)
=============================================================================
