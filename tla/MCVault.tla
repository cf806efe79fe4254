------------------------------ MODULE MCVault ------------------------------
EXTENDS KeyRing, TLC

CONSTANTS n1, n2, k1, k2, ca, s1

TwoNodes == {n1, n2}
ListOrder == <<ca, s1>>

Base == [master |-> k1, previous |-> <<>>, raft |-> TRUE, unseal |-> "key", auto |-> "off",
         lab |-> FALSE, dir |-> TRUE, faults |-> {}]

\* The configurations around a rotation from k1 to k2.
RotationConfigs == {Base, [Base EXCEPT !.master = k2, !.previous = <<k1>>], [Base EXCEPT !.previous = <<k2>>]}

RecipeConfigs == {Base, [Base EXCEPT !.master = k2, !.previous = <<k1>>]}

\* One that unseals by itself, a lab one, and ones that a phase refuses.
AllConfigs ==
  { Base, [Base EXCEPT !.auto = "key"], [Base EXCEPT !.auto = "none"],
    [Base EXCEPT !.unseal = "none", !.lab = TRUE, !.raft = FALSE, !.dir = FALSE],
    [Base EXCEPT !.unseal = "none", !.lab = TRUE], [Base EXCEPT !.unseal = "master"],
    [Base EXCEPT !.master = NoKey], [Base EXCEPT !.master = NoKey, !.raft = FALSE],
    [Base EXCEPT !.faults = {"k8sInsecure"}], [Base EXCEPT !.faults = {"webhook"}] }
=============================================================================
