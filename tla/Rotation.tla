------------------------------ MODULE Rotation ------------------------------
(***************************************************************************)
(* Scheduled rotation of KV secrets.  A runner (the job loop of a leader,  *)
(* an operator's POST /sys/rotation/run, or an exposure report) lists the  *)
(* policies, writes a new secret version for each that is due and saves    *)
(* the copy of the policy it listed, with the time of the rotation.        *)
(***************************************************************************)
EXTENDS Integers, Sequences, SequencesExt, FiniteSets

CONSTANTS Paths, Runners, Interval, MaxTroubles

VARIABLES
  policies,  \* path -> the stored policy, or NoPolicy; age: time since LastRotatedAt
  unsaved,   \* path -> secret versions written by rotation that no saved policy accounts for
  runner,    \* per runner: the listed policies that are left, and what it does with the first
  troubles   \* failed writes, deaths of a runner and changes by an administrator so far

rotationVars == <<policies, unsaved, runner, troubles>>

Never == Interval + 1
NoPolicy == [generator |-> "none", age |-> 0]
Fresh == {[generator |-> g, age |-> Never] : g \in {"random_password", "script_ref"}}

\* Due: never rotated, or not within the interval.
Due(policy) == policy # NoPolicy /\ policy.age >= Interval

Idle == [todo |-> <<>>, step |-> "list"]

RotationInit ==
  /\ policies \in [Paths -> {NoPolicy} \cup Fresh]
  /\ unsaved = [p \in Paths |-> 0]
  /\ runner = [r \in Runners |-> Idle]
  /\ troubles = 0

Trouble == troubles < MaxTroubles /\ troubles' = troubles + 1
\* More than every runner can save is as good as that.
Capped(n) == IF n < Cardinality(Runners) THEN n + 1 ELSE n

(* PutPolicy stores what the request says, never rotated; DeletePolicy     *)
(* removes the policy.                                                     *)
PutPolicy(p, policy) ==
  /\ Trouble
  /\ policies' = [policies EXCEPT ![p] = policy]
  /\ UNCHANGED <<unsaved, runner>>

DeletePolicy(p) ==
  /\ policies[p] # NoPolicy /\ Trouble
  /\ policies' = [policies EXCEPT ![p] = NoPolicy]
  /\ UNCHANGED <<unsaved, runner>>

\* RunDue's list: the due policies, in the order of their paths.
DueList == LET all == SetToSeq({p \in Paths : Due(policies[p])})
           IN [i \in 1..Len(all) |-> [path |-> all[i], policy |-> policies[all[i]]]]

\* Asked for by the job, or by POST /sys/rotation/run.
RunDue(r) ==
  /\ runner[r] = Idle
  /\ runner' = [runner EXCEPT ![r] = [todo |-> DueList, step |-> "put"]]
  /\ UNCHANGED <<policies, unsaved, troubles>>

\* An exposure report rotates one path now, due or not.
ReportExposure(r, p) ==
  /\ runner[r] = Idle /\ policies[p] # NoPolicy /\ Trouble
  /\ runner' = [runner EXCEPT ![r] =
       [todo |-> <<[path |-> p, policy |-> policies[p]]>>, step |-> "put"]]
  /\ UNCHANGED <<policies, unsaved>>

Skip(r) == [runner[r] EXCEPT !.todo = Tail(@), !.step = "put"]

\* GenerateRotationValue: a script is not run.
Generated(policy) == policy.generator = "random_password"

(* RotatePath, first half: a new version of the secret.  A generator that  *)
(* is not supported and a failed write are reported, and the next policy   *)
(* has its turn.                                                           *)
RotatePath(r) ==
  /\ runner[r].step = "put" /\ runner[r].todo # <<>>
  /\ LET item == Head(runner[r].todo)
     IN \/ /\ Generated(item.policy)
           /\ unsaved' = [unsaved EXCEPT ![item.path] = Capped(@)]
           /\ runner' = [runner EXCEPT ![r].step = "save"]
           /\ UNCHANGED troubles
        \/ /\ \/ ~Generated(item.policy) /\ UNCHANGED troubles
              \/ Generated(item.policy) /\ Trouble
           /\ runner' = [runner EXCEPT ![r] = Skip(r)]
           /\ UNCHANGED unsaved
  /\ UNCHANGED policies

(* RotatePath, second half: the listed copy is saved with the time.        *)
SavePolicy(r) ==
  /\ runner[r].step = "save"
  /\ LET item == Head(runner[r].todo)
     IN \/ /\ policies' = [policies EXCEPT ![item.path] = [item.policy EXCEPT !.age = 0]]
           /\ unsaved' = [unsaved EXCEPT ![item.path] = @ - 1]
           /\ runner' = [runner EXCEPT ![r].todo = Tail(@), ![r].step = "put"]
           /\ UNCHANGED troubles
        \/ /\ Trouble
           /\ runner' = [runner EXCEPT ![r] = Skip(r)]
           /\ UNCHANGED <<policies, unsaved>>

EndRun(r) ==
  /\ runner[r].step = "put" /\ runner[r].todo = <<>>
  /\ runner' = [runner EXCEPT ![r] = Idle]
  /\ UNCHANGED <<policies, unsaved, troubles>>

Die(r) ==
  /\ runner[r] # Idle /\ Trouble
  /\ runner' = [runner EXCEPT ![r] = Idle]
  /\ UNCHANGED <<policies, unsaved>>

Age ==
  /\ \E p \in Paths : policies[p] # NoPolicy /\ policies[p].age < Interval
  /\ policies' = [p \in Paths |->
       IF policies[p] # NoPolicy /\ policies[p].age < Interval
       THEN [policies[p] EXCEPT !.age = @ + 1] ELSE policies[p]]
  /\ UNCHANGED <<unsaved, runner, troubles>>

RunnerStep(r) == RunDue(r) \/ RotatePath(r) \/ SavePolicy(r) \/ EndRun(r)

RotationNext ==
  \/ \E p \in Paths : DeletePolicy(p) \/ \E policy \in Fresh : PutPolicy(p, policy)
  \/ \E r \in Runners :
       \/ RunnerStep(r) \/ Die(r)
       \/ \E p \in Paths : ReportExposure(r, p)
  \/ Age

-----------------------------------------------------------------------------
(* A policy never claims a rotation that did not happen: each save follows *)
(* the write of its own new version, also when writes fail, runners die    *)
(* between the two, or two leaders rotate the same path (RotatePath).      *)
RecordedWasRotated == \A p \in Paths : unsaved[p] >= 0

(* A path that is due is rotated or loses its policy, even when the policy *)
(* before it in the list cannot be served (RunDue continues on error).     *)
DueIsServed ==
  \A p \in Paths :
    (Due(policies[p]) /\ policies[p].generator = "random_password")
      ~> ~(Due(policies[p]) /\ policies[p].generator = "random_password")
=============================================================================
