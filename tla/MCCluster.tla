----------------------------- MODULE MCCluster -----------------------------
(***************************************************************************)
(* Instances of the services that every node of a cluster runs beside the  *)
(* secrets engines.  They share nothing but the store, which each of them  *)
(* reaches under keys of its own, so each behaviour is one of the parts.   *)
(***************************************************************************)
EXTENDS Election, Rotation, Transit, Policies, Identities, AppRoles, AuditLog

CONSTANT Parts

VARIABLE part

Others(own) ==
  /\ own = "election" \/ UNCHANGED electionVars
  /\ own = "rotation" \/ UNCHANGED rotationVars
  /\ own = "transit" \/ UNCHANGED transitVars
  /\ own = "policies" \/ UNCHANGED policyVars
  /\ own = "identities" \/ UNCHANGED identityVars
  /\ own = "approles" \/ UNCHANGED approleVars
  /\ own = "audit" \/ UNCHANGED auditVars
  /\ UNCHANGED part

vars == <<electionVars, rotationVars, transitVars, policyVars, identityVars, approleVars, auditVars, part>>

Init ==
  /\ part \in Parts
  /\ ElectionInit /\ RotationInit /\ TransitInit /\ PoliciesInit
  /\ IdentitiesInit /\ AppRolesInit /\ AuditInit
  /\ part # "election" => elector = "raft"
  /\ part # "rotation" => policies = [p \in Paths |-> NoPolicy]

Next ==
  \/ part = "election" /\ ElectionNext /\ Others(part)
  \/ part = "rotation" /\ RotationNext /\ Others(part)
  \/ part = "transit" /\ TransitNext /\ Others(part)
  \/ part = "policies" /\ PoliciesNext /\ Others(part)
  \/ part = "identities" /\ IdentitiesNext /\ Others(part)
  \/ part = "approles" /\ AppRolesNext /\ Others(part)
  \/ part = "audit" /\ AuditNext /\ Others(part)

SafetySpec == Init /\ [][Next]_vars

Campaigns(step) == part = "election" /\ step /\ Others("election")
Rotates(step) == part = "rotation" /\ step /\ Others("rotation")

(* Tickers and requests of a running node make progress, a stopped node is *)
(* started again, a group without a leader elects one, and an operator     *)
(* unseals; every ticker of a job loop has its turn.  A rotation that runs *)
(* goes on, and time passes.                                               *)
Spec ==
  /\ SafetySpec
  /\ \A n \in Nodes :
       /\ WF_vars(Campaigns(CampaignStep(n))) /\ WF_vars(Campaigns(Hear(n)))
       /\ WF_vars(Campaigns(BeginJobs(n))) /\ WF_vars(Campaigns(Start(n)))
  /\ \A jobs \in Tickers : WF_vars(Campaigns(\E n \in Nodes : RunJobs(n, jobs)))
  /\ WF_vars(Campaigns(\E n \in Nodes : Elect(n)))
  /\ WF_vars(Campaigns(Tick)) /\ WF_vars(Campaigns(Unseal))
  /\ \A r \in Runners : WF_vars(Rotates(RunnerStep(r)))

(* In the end one node runs the jobs, although the Lease is written back   *)
(* without its version (LeaderElector).                                    *)
OneLeaderInTheEnd == part = "election" => SettlesOnOne

(* Every job runs again and again on some node (JobRunner.runOnLeader).    *)
JobsKeepRunning == part = "election" => EveryJobRuns

(* A policy that is due is served behind one that fails (RunDue), and none *)
(* records a rotation that was not made (RotatePath).                      *)
DueSecretsRotate == part = "rotation" => DueIsServed /\ []RecordedWasRotated

(* The cluster's own work goes on: one node leads in the end, every job    *)
(* runs, due secrets are rotated.                                          *)
ClusterProgress == OneLeaderInTheEnd /\ JobsKeepRunning /\ DueSecretsRotate

(* What every node and the store refuse stays refused, although each node  *)
(* writes its whole memory over the store: logins of disabled entities     *)
(* (persistLocked of the identity service) and retired secret_ids          *)
(* (persistRaftLocked of the AppRole store).                               *)
RefusalsStand == RefusedStays /\ RetiredStays
=============================================================================
