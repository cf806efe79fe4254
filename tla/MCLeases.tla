------------------------------ MODULE MCLeases ------------------------------
(***************************************************************************)
(* Leases for TLC.  Each behaviour is of one of two parts: one lease of a  *)
(* managed database role and a renewable SSH lease with a failed call or a *)
(* crash, where one worker issues and renews, the other revokes tokens and *)
(* both revoke leases and sweep; or three SSH leases, where nothing fails  *)
(* and no token is revoked.                                                *)
(***************************************************************************)
EXTENDS Leases, TLC

CONSTANTS d1, s1, s2, s3, s4, k1, w1, w2

VARIABLE part

MCEngineOf == [l \in {s1, s2, s3, s4} |-> "ssh"] @@ (d1 :> "database")
MCTokenOf == [l \in {d1, s1, s2, s3, s4} |-> k1]

Parts == {"faults", "quota"}
Used == [faults |-> {d1, s1}, quota |-> {s2, s3, s4}]

MCInit == Init /\ part \in Parts

MCNext ==
  /\ Next
  /\ \A w \in Workers : job'[w].id \in Used[part] \cup {NoLease}
  /\ IF part = "quota" THEN faults' = 0 /\ dead' = {}
     ELSE job'[w2].at \notin IssueLabels \cup RenewLabels /\ job'[w1].tok = NoToken
  /\ UNCHANGED part

\* The fairness of FairSpec, for the second part.
MCSpec ==
  /\ MCInit /\ [][MCNext]_<<vars, part>>
  /\ \A w \in Workers : WF_vars(part = "quota" /\ Continue(w))
  /\ SF_vars(part = "quota" /\ \E w \in Workers : CleanupExpired(w, "ssh"))

\* The sweep of the leader revokes every expired lease, or it is renewed
\* (ExpiredIsSwept of Leases, in the part where nothing fails and for the
\* leases that exist there).
SweepsReachAll == part = "quota" => ExpiredIsSwept(Used["quota"])
=============================================================================
