---------------------------- MODULE LeasesProofs ----------------------------
(***************************************************************************)
(* For any number of workers, leases, tokens and engines and any mix of    *)
(* failed calls and crashes: a revocation that nothing disturbed takes     *)
(* everything with it, a revoked lease stays revoked unless a renewal was  *)
(* under way, and no database user is without a lease record.              *)
(***************************************************************************)
EXTENDS Leases

\* The roles a worker can have for a lease, told from its job.
Flying(j, l) == j.at \in IssueLabels \cup RenewLabels /\ j.id = l
Dropping(j, l) == j.at = "drop" /\ j.id = l
Clearing(j, l) == j.at \in {"drop", "find", "destroy"} /\ j.id = l /\ j.then = "next"
Reaching(j, l) ==
  \/ j.at = "cascade" /\ j.tok = TokenOf[l]
  \/ ~j.stop /\ (l \in j.todo \/ (j.at \in {"creds", "mark"} /\ j.id = l))

Excused(l) == l \in hurt \cup overlap

Rows(l) ==
  \E n \in Nat :
    /\ Dense(secret[l], n) /\ (l \notin Renewable => n <= 1)
    /\ \A v \in DOMAIN secret[l] : secret[l][v] \in [destroyed : BOOLEAN]

Shapes ==
  /\ lease \in [Leases -> {"none", "held", "revoked"}]
  /\ user \in [Leases -> BOOLEAN]
  /\ DOMAIN secret = Leases
  /\ job \in [Workers -> Job]
  /\ expired \subseteq {l \in Leases : lease[l] = "held"}

\* What a job says about the lease it is at: in general, while it issues or
\* renews, while it revokes, and while it takes the credential away.
JobAny(j) ==
  /\ j.at \in {"idle", "next", "cascade"} <=> j.id = NoLease
  /\ \A l \in j.todo : lease[l] # "none"
  /\ j.at \notin {"next", "creds", "mark", "drop", "find", "destroy"} \/ j.then # "next" => j.todo = {}
JobIssues(j) ==
  /\ j.at = "store" => DOMAIN secret[j.id] = {}
  /\ j.at = "save" => HasLatest(secret[j.id])
  /\ j.at \in {"store", "save"} => lease[j.id] = "none"
  /\ j.at \in {"create", "rcreds", "rsave"} =>
       lease[j.id] = "held" \/ (lease[j.id] = "revoked" /\ j.id \in overlap)
  /\ j.at = "create" => EngineOf[j.id] \in Managed
  /\ j.at \in {"rcreds", "rsave", "rstore"} => j.id \in Renewable
JobRevokes(j) ==
  /\ j.at \in {"creds", "mark", "drop"} => j.then = "next"
  /\ j.at \in {"creds", "mark"} => lease[j.id] # "none"
  /\ j.at = "mark" /\ ~j.known => lease[j.id] = "revoked" \/ Excused(j.id)
  /\ j.at \in {"drop", "find", "destroy"} => lease[j.id] = "revoked" \/ Excused(j.id)
JobClears(j) ==
  /\ j.at \in {"find", "destroy"} /\ j.then # "next" => j.id \in hurt
  /\ j.at \in {"find", "destroy"} /\ j.then = "unlease" => lease[j.id] # "none"
  /\ j.at = "unlease" => j.id \in hurt /\ lease[j.id] # "none"
  /\ j.at = "destroy" /\ j.id \notin Renewable => j.version = 1
JobOK(j) == JobAny(j) /\ JobIssues(j) /\ JobRevokes(j) /\ JobClears(j)

\* An id belongs to one request until its lease is saved.
Alone(w) == job[w].at \in {"store", "save"} => \A x \in Workers \ {w} : job[x].id # job[w].id

\* What is true of a lease: who will still take away what is left of it.
LeaseOK(l) ==
  /\ Rows(l)
  /\ user[l] => lease[l] # "none" /\ EngineOf[l] \in Managed
  /\ ~Excused(l) =>
       /\ lease[l] = "held" => HasLatest(secret[l])
       /\ lease[l] = "revoked" =>
            /\ user[l] => \E w \in Workers : Dropping(job[w], l)
            /\ l \notin Renewable /\ HasLatest(secret[l]) => \E w \in Workers : Clearing(job[w], l)
       /\ TokenOf[l] \in dead /\ (Active(l) \/ \E w \in Workers : Flying(job[w], l))
            => \E w \in Workers : Reaching(job[w], l)

IInv ==
  /\ Shapes
  /\ \A w \in Workers : JobOK(job[w]) /\ Alone(w)
  /\ \A l \in Leases : LeaseOK(l)
-----------------------------------------------------------------------------
(* The argument common to all steps of a worker.                           *)

\* A step leaves lease l as it was (it may have expired).
Same(l) ==
  /\ lease'[l] = lease[l] /\ user'[l] = user[l] /\ secret'[l] = secret[l]
  /\ Active(l)' => Active(l)

\* How a step may change the record of l.
Moved(l) ==
  \/ lease'[l] = lease[l]
  \/ lease'[l] = "held" /\ (lease[l] \in {"none", "held"} \/ l \in overlap)
  \/ lease'[l] = "revoked" /\ lease[l] # "none" /\ (l \in InFlight => l \in overlap')

\* The worker keeps whatever it had to do for l, and takes l up only when l
\* is active or its token is alive.
Keeps(w, l) ==
  /\ Dropping(job[w], l) => Dropping(job'[w], l)
  /\ Clearing(job[w], l) => Clearing(job'[w], l)
  /\ Reaching(job[w], l) => Reaching(job'[w], l)
  /\ Flying(job'[w], l) => Flying(job[w], l) \/ Active(l) \/ TokenOf[l] \notin dead

\* The jobs of the other workers stay true when a step moves leases as
\* Moved says.
LEMMA OthersStay ==
  ASSUME Shapes, Shapes', NEW w \in Workers, NEW x \in Workers \ {w}, JobOK(job[x]), Alone(x),
         job'[x] = job[x], hurt \subseteq hurt', overlap \subseteq overlap',
         \A l \in Leases : l # job[w].id => Same(l),
         \A l \in Leases : Moved(l)
  PROVE  JobOK(job[x])'
<1>1. PICK j \in Job : j = job[x]
  BY Zenon DEF Shapes
<1>2. j.id \in Leases \cup {NoLease} /\ j.todo \subseteq Leases
  BY Zenon DEF Job
<1>3. JobOK(j) /\ (j.id = NoLease => j.at \in {"idle", "next", "cascade"})
  BY Zenon, <1>1 DEF JobOK, JobAny
<1>4. \A l \in Leases : lease[l] # "none" => lease'[l] # "none"
  BY Zenon DEF Moved, Shapes
<1>5. \A l \in Leases : lease[l] = "revoked" \/ Excused(l) => lease'[l] = "revoked" \/ Excused(l)'
  BY Zenon DEF Moved, Excused
<1>6. JobAny(j)'
  BY Zenon, <1>2, <1>3, <1>4 DEF JobOK, JobAny
<1>7. JobIssues(j)'
  <2>1. CASE j.at \in {"store", "save"}
    <3>1. j.id \in Leases /\ Same(j.id)
      BY Zenon, <1>1, <1>2, <1>3, <2>1 DEF Alone
    <3> QED BY Zenon, <3>1, <2>1, <1>3 DEF JobOK, JobIssues, Same
  <2>2. CASE j.at \in {"create", "rcreds", "rsave"}
    <3>1. j.id \in Leases /\ j.id \in InFlight /\ Moved(j.id)
      BY Zenon, <1>1, <1>2, <1>3, <2>2 DEF InFlight, IssueLabels, RenewLabels
    <3> QED BY Zenon, <3>1, <2>2, <1>3 DEF JobOK, JobIssues, Moved
  <2>3. CASE j.at \notin {"store", "save", "create", "rcreds", "rsave"}
    BY Zenon, <2>3, <1>3 DEF JobOK, JobIssues
  <2> QED BY Zenon, <2>1, <2>2, <2>3
<1>8. JobRevokes(j)'
  BY ZenonT(60), <1>2, <1>3, <1>4, <1>5 DEF JobOK, JobRevokes
<1>9. JobClears(j)'
  BY <1>2, <1>3, <1>4 DEF JobOK, JobClears
<1> QED BY <1>1, <1>6, <1>7, <1>8, <1>9 DEF JobOK, JobAny, JobIssues, JobRevokes, JobClears, Excused

\* What is true of a lease stays true when a step leaves the lease alone and
\* the worker keeps what it had to do for it.
LEMMA LeaseStays ==
  ASSUME NEW w \in Workers, NEW l \in Leases, LeaseOK(l), Same(l),
         \/ TokenOf[l] \in dead' => TokenOf[l] \in dead
         \/ \E x \in Workers : Reaching(job'[x], l),
         \A x \in Workers \ {w} : job'[x] = job[x],
         hurt \subseteq hurt', overlap \subseteq overlap',
         Excused(l)' \/ Keeps(w, l)
  PROVE  LeaseOK(l)'
<1>1. Rows(l)'
  BY Zenon DEF LeaseOK, Rows, Same
<1>2. user'[l] => lease'[l] # "none" /\ EngineOf[l] \in Managed
  BY Zenon DEF LeaseOK, Same
<1>3. CASE Excused(l)'
  BY Zenon, <1>1, <1>2, <1>3 DEF LeaseOK
<1>4. CASE ~Excused(l)'
  <2>1. ~Excused(l) /\ Keeps(w, l)
    BY Zenon, <1>4 DEF Excused
  <2>2. lease'[l] = "held" => HasLatest(secret'[l])
    BY Zenon, <2>1 DEF LeaseOK, Same
  <2>3. (\E x \in Workers : Dropping(job[x], l)) => \E x \in Workers : Dropping(job'[x], l)
    BY Zenon, <2>1 DEF Keeps
  <2>4. (\E x \in Workers : Clearing(job[x], l)) => \E x \in Workers : Clearing(job'[x], l)
    BY Zenon, <2>1 DEF Keeps
  <2>5. (\E x \in Workers : Reaching(job[x], l)) => \E x \in Workers : Reaching(job'[x], l)
    BY Zenon, <2>1 DEF Keeps
  <2>6. lease'[l] = "revoked" =>
          /\ user'[l] => \E x \in Workers : Dropping(job'[x], l)
          /\ l \notin Renewable /\ HasLatest(secret'[l]) => \E x \in Workers : Clearing(job'[x], l)
    BY Zenon, <2>1, <2>3, <2>4 DEF LeaseOK, Same
  <2>7. TokenOf[l] \in dead /\ (\E x \in Workers : Flying(job'[x], l)) =>
          Active(l) \/ \E x \in Workers : Flying(job[x], l)
    BY Zenon, <2>1 DEF Keeps
  <2>8. TokenOf[l] \in dead' /\ (Active(l)' \/ \E x \in Workers : Flying(job'[x], l))
          => \E x \in Workers : Reaching(job'[x], l)
    BY Zenon, <2>1, <2>5, <2>7 DEF LeaseOK, Same
  <2> QED BY <1>1, <1>2, <2>2, <2>6, <2>8, Zenon DEF LeaseOK, Dropping, Clearing, Flying, Reaching, HasLatest, Live
<1> QED BY Zenon, <1>3, <1>4

\* One step of worker w: what is to be shown is only what the step changes.
LEMMA WorkerStep ==
  ASSUME IInv, Shapes', NEW w \in Workers, \A x \in Workers \ {w} : job'[x] = job[x],
         hurt \subseteq hurt', overlap \subseteq overlap', dead' = dead,
         \A l \in Leases : l # job[w].id => Same(l),
         \A l \in Leases : Moved(l),
         JobOK(job[w])', Alone(w)',
         \A x \in Workers \ {w} : job[x].at \in {"store", "save"} => job'[w].id # job[x].id,
         \A l \in Leases : LeaseOK(l)' \/ (Same(l) /\ (Excused(l)' \/ Keeps(w, l)))
  PROVE  IInv'
<1>1. \A x \in Workers \ {w} : JobOK(job[x])'
  BY Zenon, OthersStay DEF IInv
<1>2. \A x \in Workers \ {w} : Alone(x)'
  BY DEF IInv, Alone
<1>3. \A l \in Leases : LeaseOK(l)'
  BY Zenon, LeaseStays DEF IInv
<1> QED BY Zenon, <1>1, <1>2, <1>3 DEF IInv

\* A step that changes nothing but the job of w.
LEMMA JobStep ==
  ASSUME IInv, NEW w \in Workers, job' = [job EXCEPT ![w] = job'[w]], job'[w] \in Job,
         UNCHANGED <<lease, expired, secret, user, dead, overlap>>, hurt \subseteq hurt',
         JobOK(job[w])',
         \A l \in Leases : LeaseOK(l)' \/ Excused(l)' \/ Keeps(w, l),
         \/ job'[w].id \in {job[w].id, NoLease} /\ job'[w].at \notin {"store", "save"}
         \/ job'[w].id \in Leases /\ lease[job'[w].id] # "none"
         \/ \A x \in Workers : job[x].id # job'[w].id
  PROVE  IInv'
<1>1. Shapes /\ Shapes'
  BY Zenon DEF IInv, Shapes
<1>2. \A x \in Workers \ {w} : job'[x] = job[x]
  BY Zenon, <1>1 DEF Shapes
<1>3. \A l \in Leases : Same(l) /\ Moved(l)
  BY Zenon DEF Same, Moved, Active
<1>4. \A x \in Workers \ {w} : job[x].at \in {"store", "save"} =>
        job[x].id # NoLease /\ lease[job[x].id] = "none" /\ job[w].id # job[x].id
  BY Zenon DEF IInv, JobOK, JobAny, JobIssues, Alone
<1>5. \A x \in Workers \ {w} : job[x].at \in {"store", "save"} => job'[w].id # job[x].id
  BY Zenon, <1>4
<1>6. job'[w].at \in {"store", "save"} => job'[w].id # NoLease /\ lease[job'[w].id] = "none"
  BY Zenon DEF JobOK, JobAny, JobIssues
<1>7. Alone(w)'
  BY Zenon, <1>2, <1>6 DEF Alone
<1> QED BY Zenon, <1>1, <1>2, <1>3, <1>5, <1>7, WorkerStep

\* A worker without an operation has no part in any lease.
LEMMA FromIdle ==
  ASSUME NEW w \in Workers, At(w, "idle"), JobOK(job[w])
  PROVE  \A l \in Leases : /\ ~Dropping(job[w], l) /\ ~Clearing(job[w], l)
                           /\ ~Reaching(job[w], l) /\ ~Flying(job[w], l)
BY Zenon DEF At, JobOK, JobAny, Dropping, Clearing, Reaching, Flying, IssueLabels, RenewLabels

\* A worker that went idle owes nothing.
LEMMA ToIdle ==
  ASSUME NEW w \in Workers, job'[w] = Idle
  PROVE  /\ JobOK(job[w])' /\ Idle \in Job /\ job'[w] \in Job
         /\ job'[w].id = NoLease /\ job'[w].at = "idle"
         /\ \A l \in Leases : ~Flying(job'[w], l)
<1>1. Idle \in Job /\ Idle.at = "idle" /\ Idle.id = NoLease
  BY Zenon DEF Idle, Job, Labels, NoCas
<1>2. JobOK(job[w])'
  BY DEF Idle, JobOK, JobAny, JobIssues, JobRevokes, JobClears
<1> QED BY Zenon, <1>1, <1>2 DEF Flying, IssueLabels, RenewLabels

\* A worker at the head of a loop over leases that exist.
LEMMA ToNext ==
  ASSUME NEW w \in Workers, job'[w].at = "next", job'[w].id = NoLease, job'[w].then = "next",
         \A l \in job'[w].todo : lease'[l] # "none"
  PROVE  JobOK(job[w])' /\ \A l \in Leases : ~Flying(job'[w], l)
<1>1. JobOK(job[w])'
  BY DEF JobOK, JobAny, JobIssues, JobRevokes, JobClears
<1> QED BY Zenon, <1>1 DEF Flying, IssueLabels, RenewLabels

\* A revoked lease: nobody is renewing it, and what is left of it has its
\* worker still.
LEMMA RevokedLease ==
  ASSUME IInv, NEW w \in Workers, NEW l \in Leases, \A x \in Workers \ {w} : job'[x] = job[x],
         lease[l] = "revoked", lease'[l] = "revoked", Rows(l)',
         hurt \subseteq hurt', overlap \subseteq overlap',
         user'[l] => user[l], HasLatest(secret'[l]) => HasLatest(secret[l]),
         ~Flying(job'[w], l),
         user'[l] /\ Dropping(job[w], l) => Dropping(job'[w], l),
         l \notin Renewable /\ HasLatest(secret'[l]) /\ Clearing(job[w], l) => Clearing(job'[w], l)
  PROVE  LeaseOK(l)'
<1>1. LeaseOK(l) /\ ~Active(l)'
  BY Zenon DEF IInv, Active
<1>2. ASSUME ~Excused(l)' PROVE \A x \in Workers : ~Flying(job'[x], l)
  <2>1. l \notin overlap
    BY Zenon, <1>2 DEF Excused
  <2>2. \A x \in Workers : ~Flying(job[x], l)
    BY Zenon, <2>1 DEF Flying, IInv, JobOK, JobIssues, IssueLabels, RenewLabels
  <2> QED BY Zenon, <2>2
<1>3. user'[l] => lease'[l] # "none" /\ EngineOf[l] \in Managed
  BY Zenon, <1>1 DEF LeaseOK
<1>4. ~Excused(l)' => ~Excused(l)
  BY Zenon DEF Excused
<1>5. user'[l] /\ (\E x \in Workers : Dropping(job[x], l)) => \E x \in Workers : Dropping(job'[x], l)
  BY Zenon
<1>6. l \notin Renewable /\ HasLatest(secret'[l]) /\ (\E x \in Workers : Clearing(job[x], l))
        => \E x \in Workers : Clearing(job'[x], l)
  BY Zenon
<1>7. ~Excused(l)' => /\ lease'[l] # "held"
                      /\ user'[l] => \E x \in Workers : Dropping(job'[x], l)
                      /\ l \notin Renewable /\ HasLatest(secret'[l]) => \E x \in Workers : Clearing(job'[x], l)
  BY Zenon, <1>1, <1>4, <1>5, <1>6 DEF LeaseOK
<1> QED BY <1>1, <1>2, <1>3, <1>7, Zenon DEF LeaseOK, Dropping, Clearing, Flying, Reaching, HasLatest, Live

\* The revocation of one lease is over: the worker goes on with the others.
LEMMA Onward ==
  ASSUME NEW w \in Workers, Shapes, JobOK(job[w]), job[w].at \in {"mark", "drop", "find", "destroy"},
         job[w].then = "next", \A l \in Leases : lease[l] # "none" => lease'[l] # "none",
         Proceed(w) \/ Failed(w)
  PROVE  /\ JobOK(job[w])' /\ job' = [job EXCEPT ![w] = job'[w]] /\ job'[w] \in Job
         /\ job'[w].id = NoLease /\ job'[w].at \in {"next", "idle"}
         /\ \A l \in Leases : ~Flying(job'[w], l)
         /\ \A l \in Leases : l # job[w].id => Keeps(w, l)
         /\ \A l \in Leases : Reaching(job[w], l) /\ job[w].at # "mark" => Reaching(job'[w], l)
<1>1. job \in [Workers -> Job] /\ job[w] \in Job
  BY Zenon DEF Shapes
<1>2. CASE Proceed(w)
  <2>1. job' = [job EXCEPT ![w] = job'[w]]
        /\ job'[w] = [Idle EXCEPT !.at = "next", !.todo = job[w].todo, !.stop = job[w].stop]
    BY Zenon, <1>1, <1>2 DEF Proceed, Become
  <2>2. job'[w] \in Job
    <3>1. PICK a \in Job : a = job[w]
      BY Zenon, <1>1
    <3>2. [Idle EXCEPT !.at = "next", !.todo = a.todo, !.stop = a.stop] \in Job
      BY Zenon DEF Idle, Job, Labels, NoCas
    <3> QED BY Zenon, <2>1, <3>1, <3>2
  <2>3. /\ job'[w].at = "next" /\ job'[w].id = NoLease /\ job'[w].then = "next"
        /\ job'[w].todo = job[w].todo /\ job'[w].stop = job[w].stop
    BY <2>1 DEF Idle
  <2>4. JobOK(job[w])' /\ \A l \in Leases : ~Flying(job'[w], l)
    <3>1. \A l \in job'[w].todo : lease'[l] # "none"
      BY <1>1, <2>3 DEF Job, JobOK, JobAny
    <3> QED BY ZenonT(60), <2>3, <3>1, ToNext
  <2>5. \A l \in Leases : Reaching(job[w], l) /\ (l # job[w].id \/ job[w].at # "mark") => Reaching(job'[w], l)
    BY Zenon, <2>3 DEF Reaching
  <2> QED BY <2>1, <2>2, <2>3, <2>4, <2>5 DEF Keeps, Dropping, Clearing
<1>3. CASE job[w].stop /\ Become(w, Idle)
  <2>1. job' = [job EXCEPT ![w] = job'[w]] /\ job'[w] = Idle
    BY Zenon, <1>1, <1>3 DEF Become
  <2>2. JobOK(job[w])' /\ Idle \in Job /\ \A l \in Leases : ~Flying(job'[w], l)
    BY Zenon, <2>1, ToIdle
  <2>3. \A l \in Leases : ~Reaching(job[w], l)
    BY Zenon, <1>3 DEF Reaching
  <2>4. job'[w].id = NoLease /\ job'[w].at = "idle"
    BY <2>1 DEF Idle
  <2> QED BY Zenon, <2>1, <2>2, <2>3, <2>4 DEF Keeps, Dropping, Clearing
<1> QED BY Zenon, <1>2, <1>3 DEF Failed

\* destroySecret returns to whoever called it.
LEMMA Returns ==
  ASSUME NEW w \in Workers, Shapes, JobOK(job[w]), job[w].at \in {"find", "destroy"}, AfterDestroy(w),
         \A l \in Leases : lease[l] # "none" => lease'[l] # "none", hurt \subseteq hurt'
  PROVE  /\ JobOK(job[w])' /\ job' = [job EXCEPT ![w] = job'[w]] /\ job'[w] \in Job
         /\ job'[w].id \in {job[w].id, NoLease} /\ job'[w].at \notin {"store", "save"}
         /\ \A l \in Leases : ~Flying(job'[w], l)
         /\ \A l \in Leases : l # job[w].id => Keeps(w, l)
         /\ \A l \in Leases : Reaching(job[w], l) => Reaching(job'[w], l)
<1>1. job \in [Workers -> Job] /\ job[w] \in Job /\ job[w].then \in {"idle", "unlease", "next"}
  BY Zenon DEF Shapes, Job
<1>2. CASE job[w].then = "next"
  BY Zenon, <1>2, Onward DEF AfterDestroy
<1>3. CASE job[w].then = "unlease"
  <2>1. job' = [job EXCEPT ![w] = job'[w]] /\ job'[w] = [job[w] EXCEPT !.at = "unlease"]
    BY Zenon, <1>1, <1>3 DEF AfterDestroy, Goto, Become
  <2>2. /\ job'[w] \in Job /\ job'[w].at = "unlease" /\ job'[w].id = job[w].id
        /\ job'[w].todo = job[w].todo /\ job'[w].then = "unlease"
    BY Zenon, <1>1, <1>3, <2>1 DEF Job, Labels
  <2>3. job[w].todo = {} /\ job[w].id \in Leases /\ job[w].id # NoLease /\ job[w].id \in hurt'
        /\ lease'[job[w].id] # "none"
    BY Zenon, <1>1, <1>3, LeasesAssumption DEF Job, JobOK, JobAny, JobClears
  <2>4. JobOK(job[w])'
    BY Zenon, <2>2, <2>3 DEF JobOK, JobAny, JobIssues, JobRevokes, JobClears
  <2> QED BY Zenon, <2>1, <2>2, <2>3, <2>4 DEF Keeps, Dropping, Clearing, Reaching, Flying, IssueLabels, RenewLabels
<1>4. CASE job[w].then = "idle"
  <2>1. job' = [job EXCEPT ![w] = job'[w]] /\ job'[w] = Idle
    BY Zenon, <1>1, <1>4 DEF AfterDestroy, Become
  <2>2. JobOK(job[w])' /\ Idle \in Job /\ \A l \in Leases : ~Flying(job'[w], l)
    BY Zenon, <2>1, ToIdle
  <2>3. job'[w].id = NoLease /\ job'[w].at = "idle" /\ job[w].todo = {}
    BY <1>4, <2>1 DEF Idle, JobOK, JobAny
  <2> QED BY <2>1, <2>2, <2>3 DEF Keeps, Dropping, Clearing, Reaching
<1> QED BY Zenon, <1>1, <1>2, <1>3, <1>4
-----------------------------------------------------------------------------
(* The steps.                                                              *)

\* No lease is issued and every worker is idle.
LEMMA Initially == Init => IInv
<1> SUFFICES ASSUME Init PROVE IInv
  BY Zenon
<1>1. Idle \in Job
  BY Zenon DEF Idle, Job, Labels, NoCas
<1>2. Shapes
  BY Zenon, <1>1 DEF Init, Shapes
<1>3. \A w \in Workers : job[w] = Idle
  BY Zenon DEF Init
<1>4. \A w \in Workers : JobOK(job[w]) /\ Alone(w)
  BY <1>3 DEF Idle, JobOK, JobAny, JobIssues, JobRevokes, JobClears, Alone
<1>5. \A l \in Leases : LeaseOK(l)
  <2> SUFFICES ASSUME NEW l \in Leases PROVE LeaseOK(l)
    BY Zenon
  <2>1. secret[l] = NoRows /\ lease[l] = "none" /\ ~user[l] /\ dead = {}
    BY Zenon DEF Init
  <2>2. Rows(l)
    <3>1. Dense(secret[l], 0) /\ DOMAIN secret[l] = {}
      BY <2>1 DEF Dense, NoRows
    <3> QED BY <3>1 DEF Rows
  <2> QED BY Zenon, <2>1, <2>2 DEF LeaseOK
<1> QED BY Zenon, <1>2, <1>4, <1>5 DEF IInv

\* A request to issue picks an unused id.
LEMMA IssueStep ==
  ASSUME IInv, NEW w \in Workers, NEW l \in Leases, Issue(w, l)
  PROVE  IInv'
<1>1. job \in [Workers -> Job] /\ Idle \in Job
  BY DEF IInv, Shapes, Idle, Job, Labels, NoCas
<1>2. job'[w] = [Idle EXCEPT !.at = "store", !.id = l] /\ job' = [job EXCEPT ![w] = job'[w]]
  BY <1>1 DEF Issue, Become
<1>3. job'[w] \in Job /\ job'[w].at = "store" /\ job'[w].id = l /\ job'[w].todo = {} /\ job'[w].then = "next"
  BY Zenon, <1>2 DEF Idle, Job, Labels, IssueLabels, NoCas
<1>4. JobOK(job[w])'
  <2>1. DOMAIN secret'[l] = {} /\ lease'[l] = "none" /\ l # NoLease
    BY LeasesAssumption DEF Issue, Fresh, NoRows
  <2> QED BY <1>3, <2>1 DEF JobOK, JobAny, JobIssues, JobRevokes, JobClears
<1>5. \A m \in Leases : Keeps(w, m)
  <2>1. JobOK(job[w]) /\ At(w, "idle") /\ TokenOf[l] \notin dead
    BY Zenon DEF IInv, Issue
  <2> QED BY Zenon, <2>1, <1>3, FromIdle DEF Keeps, Flying
<1> QED BY Zenon, <1>2, <1>3, <1>4, <1>5, JobStep DEF Issue, Fresh, Smooth

\* A request to renew found an active lease.
LEMMA RenewStep ==
  ASSUME IInv, NEW w \in Workers, NEW l \in Leases, Renew(w, l)
  PROVE  IInv'
<1>1. job \in [Workers -> Job] /\ Idle \in Job
  BY DEF IInv, Shapes, Idle, Job, Labels, NoCas
<1>2. job'[w] = [Idle EXCEPT !.at = "rcreds", !.id = l] /\ job' = [job EXCEPT ![w] = job'[w]]
  BY <1>1 DEF Renew, Become
<1>3. job'[w] \in Job /\ job'[w].at = "rcreds" /\ job'[w].id = l /\ job'[w].todo = {} /\ job'[w].then = "next"
  BY Zenon, <1>2 DEF Idle, Job, Labels, RenewLabels, NoCas
<1>4. JobOK(job[w])'
  <2>1. lease'[l] = "held" /\ l # NoLease /\ l \in Renewable
    BY Zenon, LeasesAssumption DEF Renew, Active
  <2> QED BY <1>3, <2>1 DEF JobOK, JobAny, JobIssues, JobRevokes, JobClears
<1>5. \A m \in Leases : Keeps(w, m)
  <2>1. JobOK(job[w]) /\ At(w, "idle") /\ Active(l)
    BY Zenon DEF IInv, Renew
  <2> QED BY Zenon, <2>1, <1>3, FromIdle DEF Keeps, Flying
<1>6. lease[job'[w].id] # "none"
  BY Zenon, <1>3 DEF Renew, Active
<1> QED BY Zenon, <1>2, <1>3, <1>4, <1>5, <1>6, JobStep DEF Renew, Smooth

\* A sweep starts from the expired leases that are held.
LEMMA SweepStep ==
  ASSUME IInv, NEW w \in Workers, NEW T \in SUBSET Leases, NEW s \in BOOLEAN, Sweep(w, T, s),
         \A l \in T : lease[l] # "none"
  PROVE  IInv'
<1>1. job \in [Workers -> Job] /\ JobOK(job[w])
  BY DEF IInv, Shapes
<1>2. job'[w] = [Idle EXCEPT !.at = "next", !.todo = T, !.stop = s] /\ job' = [job EXCEPT ![w] = job'[w]]
  BY <1>1 DEF Sweep, Become
<1>3. /\ job'[w] \in Job /\ job'[w].at = "next" /\ job'[w].id = NoLease /\ job'[w].then = "next"
      /\ job'[w].todo = T
  BY Zenon, <1>2 DEF Idle, Job, Labels, NoCas
<1>4. JobOK(job[w])' /\ \A l \in Leases : ~Flying(job'[w], l)
  BY <1>3, ToNext DEF Sweep
<1>5. \A l \in Leases : Keeps(w, l)
  BY <1>1, <1>4, FromIdle DEF Keeps, Sweep
<1> QED BY Zenon, <1>2, <1>3, <1>4, <1>5, JobStep DEF Sweep, Smooth

\* The operations that begin a sweep name leases that exist.
LEMMA SweepsStart ==
  ASSUME IInv, NEW w \in Workers,
         \/ \E l \in Leases : RevokeOne(w, l)
         \/ \E e \in Engines : BulkRevoke(w, e) \/ CleanupExpired(w, e)
         \/ Tidy(w)
  PROVE  IInv'
<1>1. \A l \in expired : l \in Leases /\ lease[l] # "none"
  BY Zenon DEF IInv, Shapes
<1>2. CASE \E l \in Leases : RevokeOne(w, l)
  <2>1. PICK l \in Leases : lease[l] # "none" /\ Sweep(w, {l}, TRUE)
    BY Zenon, <1>2 DEF RevokeOne
  <2>2. {l} \in SUBSET Leases /\ \A m \in {l} : lease[m] # "none"
    BY <2>1
  <2> QED BY Zenon, <2>1, <2>2, SweepStep
<1>3. CASE \E e \in Engines : BulkRevoke(w, e)
  <2>1. PICK e \in Engines : Sweep(w, ActiveOf(e), TRUE)
    BY Zenon, <1>3 DEF BulkRevoke
  <2>2. PICK T \in SUBSET Leases : T = ActiveOf(e)
    BY Zenon DEF ActiveOf
  <2>3. \A l \in T : lease[l] # "none"
    BY <2>2 DEF ActiveOf, Active
  <2> QED BY Zenon, <2>1, <2>2, <2>3, SweepStep
<1>4. CASE \E e \in Engines : CleanupExpired(w, e)
  <2>1. PICK e \in Engines : Sweep(w, {l \in ListExpired : EngineOf[l] = e}, FALSE)
    BY Zenon, <1>4 DEF CleanupExpired
  <2>2. PICK T \in SUBSET Leases : T = {l \in ListExpired : EngineOf[l] = e}
    BY Zenon, <1>1 DEF ListExpired
  <2>3. \A l \in T : lease[l] # "none"
    BY <2>2, <1>1 DEF ListExpired
  <2> QED BY Zenon, <2>1, <2>2, <2>3, SweepStep
<1>5. CASE Tidy(w)
  <2>1. PICK T \in SUBSET Leases : T = ListExpired
    BY Zenon, <1>1 DEF ListExpired
  <2>2. \A l \in T : lease[l] # "none"
    BY <2>1, <1>1 DEF ListExpired
  <2> QED BY Zenon, <1>5, <2>1, <2>2, SweepStep DEF Tidy
<1> QED BY <1>2, <1>3, <1>4, <1>5

\* A sweep or a cascade ends with nothing left to do.
LEMMA SweepDoneStep ==
  ASSUME IInv, NEW w \in Workers, SweepDone(w)
  PROVE  IInv'
<1>1. job \in [Workers -> Job] /\ JobOK(job[w])
  BY Zenon DEF IInv, Shapes
<1>2. job'[w] = Idle /\ job' = [job EXCEPT ![w] = job'[w]]
  BY Zenon, <1>1 DEF SweepDone, Become
<1>3. JobOK(job[w])' /\ job'[w] \in Job /\ \A l \in Leases : ~Flying(job'[w], l)
  BY Zenon, <1>2, ToIdle
<1>4. \A l \in Leases : Keeps(w, l)
  BY Zenon, <1>3 DEF Keeps, SweepDone, At, Dropping, Clearing, Reaching
<1>5. job'[w].id = NoLease /\ job'[w].at = "idle"
  BY <1>2 DEF Idle
<1> QED BY ZenonT(60), <1>2, <1>3, <1>4, <1>5, JobStep DEF SweepDone, Smooth

\* A crash excuses every lease its worker had to do something for.
LEMMA CrashStep ==
  ASSUME IInv, NEW w \in Workers, Crash(w)
  PROVE  IInv'
<1>1. job \in [Workers -> Job] /\ JobOK(job[w])
  BY DEF IInv, Shapes
<1>2. job'[w] = Idle /\ job' = [job EXCEPT ![w] = job'[w]]
  BY Zenon, <1>1 DEF Crash, Become
<1>3. JobOK(job[w])' /\ job'[w] \in Job /\ \A l \in Leases : ~Flying(job'[w], l)
  BY <1>2, ToIdle
<1>4. hurt' = hurt \cup {l \in Leases : l = job[w].id \/ l \in job[w].todo \/ TokenOf[l] = job[w].tok}
  BY Zenon DEF Crash, Tally
<1>5. \A l \in Leases : Excused(l)' \/ Keeps(w, l)
  BY Zenon, <1>3, <1>4 DEF Keeps, Excused, Dropping, Clearing, Reaching
<1>6. job'[w].id = NoLease /\ job'[w].at = "idle"
  BY <1>2 DEF Idle
<1> QED BY Zenon, <1>2, <1>3, <1>4, <1>5, <1>6, JobStep DEF Crash

\* The next lease of the list is taken up, or skipped because it is
\* revoked.
LEMMA NextLeaseStep ==
  ASSUME IInv, NEW w \in Workers, NEW l \in Leases, NextLease(w, l)
  PROVE  IInv'
<1>1. job \in [Workers -> Job] /\ JobOK(job[w]) /\ job[w].at = "next" /\ l \in job[w].todo
  BY Zenon DEF IInv, Shapes, NextLease, At
<1>2. job[w].id = NoLease /\ lease[l] # "none" /\ l # NoLease /\ \A m \in job[w].todo : lease[m] # "none"
  BY Zenon, <1>1, LeasesAssumption DEF JobOK, JobAny
<1>3. job[w].then = "next"
  BY Zenon, <1>1 DEF JobOK, JobAny
<1>4. CASE lease[l] = "held"
  <2>1. job'[w] = [[job[w] EXCEPT !.todo = @ \ {l}] EXCEPT !.at = "creds", !.id = l]
    BY Zenon, <1>1, <1>4 DEF NextLease, Become
  <2>2. /\ job'[w] \in Job /\ job'[w].at = "creds" /\ job'[w].id = l
        /\ job'[w].todo = job[w].todo \ {l} /\ job'[w].stop = job[w].stop /\ job'[w].then = job[w].then
    <3>1. PICK a \in Job : a = job[w]
      BY Zenon, <1>1
    <3>2. [[a EXCEPT !.todo = @ \ {l}] EXCEPT !.at = "creds", !.id = l] \in Job
      BY Zenon DEF Job, Labels
    <3> QED BY <2>1, <3>1, <3>2 DEF Job
  <2>3. job' = [job EXCEPT ![w] = job'[w]] /\ UNCHANGED <<lease, expired, secret, user, dead, overlap, hurt>>
    BY ZenonT(60), <1>1, <2>1 DEF NextLease, Become, Smooth
  <2>4. JobOK(job[w])'
    BY ZenonT(60), <1>2, <1>3, <2>2, <2>3 DEF JobOK, JobAny, JobIssues, JobRevokes, JobClears
  <2>5. \A m \in Leases : Keeps(w, m)
    BY Zenon, <1>1, <1>2, <2>2 DEF Keeps, Dropping, Clearing, Reaching, Flying, IssueLabels, RenewLabels
  <2> QED BY Zenon, <1>2, <2>2, <2>3, <2>4, <2>5, JobStep
<1>5. CASE lease[l] # "held"
  <2>1. job'[w] = [job[w] EXCEPT !.todo = @ \ {l}]
    BY Zenon, <1>1, <1>5 DEF NextLease, Become
  <2>2. /\ job'[w] \in Job /\ job'[w].at = "next" /\ job'[w].id = NoLease
        /\ job'[w].todo = job[w].todo \ {l} /\ job'[w].stop = job[w].stop /\ job'[w].then = job[w].then
    BY ZenonT(60), <1>1, <1>2, <2>1 DEF Job
  <2>3. job' = [job EXCEPT ![w] = job'[w]] /\ UNCHANGED <<lease, expired, secret, user, dead, overlap, hurt>>
    BY Zenon, <1>1, <2>1 DEF NextLease, Become, Smooth
  <2>4. JobOK(job[w])'
    BY Zenon, <1>2, <1>3, <2>2, <2>3 DEF JobOK, JobAny, JobIssues, JobRevokes, JobClears
  <2>5. \A m \in Leases \ {l} : Keeps(w, m)
    BY Zenon, <1>1, <1>2, <2>2 DEF Keeps, Dropping, Clearing, Reaching, Flying, IssueLabels, RenewLabels
  <2>6. LeaseOK(l)'
    <3>1. Rows(l)' /\ lease[l] = "revoked"
      BY <1>2, <1>5, <2>3 DEF IInv, Shapes, LeaseOK, Rows
    <3>2. ~Dropping(job[w], l) /\ ~Clearing(job[w], l) /\ ~Flying(job'[w], l)
      BY Zenon, <1>1, <1>2, <2>2 DEF Dropping, Clearing, Flying
    <3>3. \A x \in Workers \ {w} : job'[x] = job[x]
      BY <1>1, <2>3
    <3> QED BY Zenon, <2>3, <3>1, <3>2, <3>3, RevokedLease
  <2> QED BY Zenon, <2>2, <2>3, <2>4, <2>5, <2>6, JobStep
<1> QED BY Zenon, <1>4, <1>5

\* Renew read the credential.
LEMMA RenewCredsStep ==
  ASSUME IInv, NEW w \in Workers, RenewCreds(w)
  PROVE  IInv'
<1>1. job \in [Workers -> Job] /\ job[w] \in Job /\ JobOK(job[w]) /\ job[w].at = "rcreds"
  BY DEF IInv, Shapes, RenewCreds, At
<1>2. UNCHANGED <<lease, expired, secret, user, dead, overlap, hurt>> /\ job[w].todo = {}
  BY Zenon, <1>1 DEF RenewCreds, Smooth, JobOK, JobAny
<1>3. CASE HasLatest(secret[job[w].id])
  <2>1. job' = [job EXCEPT ![w] = job'[w]] /\ job'[w] = [job[w] EXCEPT !.at = "rsave"]
    BY <1>1, <1>3 DEF RenewCreds, Goto, Become
  <2>2. /\ job'[w] \in Job /\ job'[w].at = "rsave" /\ job'[w].id = job[w].id
        /\ job'[w].todo = {} /\ job'[w].then = job[w].then
    BY <1>1, <1>2, <2>1 DEF Job, Labels, RenewLabels
  <2>3. JobOK(job[w])'
    BY Zenon, <1>1, <1>2, <2>2 DEF JobOK, JobAny, JobIssues, JobRevokes, JobClears
  <2>4. \A l \in Leases : Keeps(w, l)
    BY Zenon, <1>1, <1>2, <2>2 DEF Keeps, Dropping, Clearing, Reaching, Flying, RenewLabels
  <2> QED BY Zenon, <1>2, <2>1, <2>2, <2>3, <2>4, JobStep
<1>4. CASE ~HasLatest(secret[job[w].id])
  <2>1. job' = [job EXCEPT ![w] = job'[w]] /\ job'[w] = Idle
    BY Zenon, <1>1, <1>4 DEF RenewCreds, Become
  <2>2. JobOK(job[w])' /\ job'[w] \in Job /\ \A l \in Leases : ~Flying(job'[w], l)
    BY Zenon, <2>1, ToIdle
  <2>3. \A l \in Leases : Keeps(w, l)
    BY Zenon, <1>1, <1>2, <2>2 DEF Keeps, Dropping, Clearing, Reaching
  <2>4. job'[w].id = NoLease /\ job'[w].at = "idle"
    BY <2>1 DEF Idle
  <2> QED BY Zenon, <1>2, <2>1, <2>2, <2>3, <2>4, JobStep
<1> QED BY ZenonT(60), <1>3, <1>4

\* revokeLease read the credential; without one, only the record is left to
\* mark.
LEMMA ReadCredsStep ==
  ASSUME IInv, NEW w \in Workers, ReadCreds(w)
  PROVE  IInv'
<1>1. job \in [Workers -> Job] /\ job[w] \in Job /\ JobOK(job[w]) /\ job[w].at = "creds"
  BY DEF IInv, Shapes, ReadCreds, At
<1>2. UNCHANGED <<lease, expired, secret, user, dead, overlap, hurt>>
  BY DEF ReadCreds, Smooth
<1>3. PICK k \in BOOLEAN : k = HasLatest(secret[job[w].id])
  BY Zenon DEF HasLatest
<1>4. job' = [job EXCEPT ![w] = job'[w]] /\ job'[w] = [job[w] EXCEPT !.at = "mark", !.known = k]
  BY <1>1, <1>3 DEF ReadCreds, Become
<1>5. /\ job'[w] \in Job /\ job'[w].at = "mark" /\ job'[w].id = job[w].id /\ job'[w].stop = job[w].stop
      /\ job'[w].todo = job[w].todo /\ job'[w].then = job[w].then /\ job'[w].known = k
  BY Zenon, <1>1, <1>4 DEF Job, Labels
<1>6. job[w].id \in Leases /\ job[w].id # NoLease /\ lease[job[w].id] # "none" /\ job[w].then = "next"
  BY ZenonT(60), <1>1, LeasesAssumption DEF Job, JobOK, JobAny, JobRevokes
<1>7. ~k => lease[job[w].id] = "revoked" \/ Excused(job[w].id)
  BY Zenon, <1>3, <1>6 DEF IInv, Shapes, LeaseOK
<1>8. JobOK(job[w])'
  BY Zenon, <1>1, <1>2, <1>5, <1>6, <1>7 DEF JobOK, JobAny, JobIssues, JobRevokes, JobClears, Excused
<1>9. \A l \in Leases : Keeps(w, l)
  BY Zenon, <1>1, <1>5 DEF Keeps, Dropping, Clearing, Reaching, Flying, IssueLabels, RenewLabels
<1> QED BY Zenon, <1>2, <1>4, <1>5, <1>8, <1>9, JobStep

\* GetLatest before the destroy: with no live version there is nothing to
\* destroy.
LEMMA FindStep ==
  ASSUME IInv, NEW w \in Workers, Find(w)
  PROVE  IInv'
<1>1. /\ Shapes /\ job \in [Workers -> Job] /\ job[w] \in Job /\ JobOK(job[w]) /\ job[w].at = "find"
  BY Zenon DEF IInv, Shapes, Find, At
<1>2. UNCHANGED <<lease, expired, secret, user, dead, overlap, hurt>>
  BY Zenon DEF Find, Smooth
<1>3. PICK l \in Leases : l = job[w].id
  BY Zenon, <1>1 DEF Job, JobOK, JobAny
<1>4. l # NoLease /\ (lease[l] = "revoked" \/ Excused(l)) /\ LeaseOK(l)
  BY Zenon, <1>1, <1>3, LeasesAssumption DEF IInv, JobOK, JobRevokes
<1>5. CASE HasLatest(secret[l])
  <2>1. PICK v \in Nat : v = Latest(secret[l]) /\ (l \notin Renewable => v = 1)
    <3>1. PICK n \in Nat : Dense(secret[l], n) /\ (l \notin Renewable => n <= 1)
      BY <1>4 DEF LeaseOK, Rows
    <3>2. Latest(secret[l]) \in Live(secret[l])
      BY Zenon, <1>5, <3>1, LatestIsNewest
    <3>3. Latest(secret[l]) \in 1 .. n
      BY Zenon, <3>1, <3>2 DEF Live, Dense
    <3> QED BY SMTT(30), <3>1, <3>3
  <2>2. job' = [job EXCEPT ![w] = job'[w]] /\ job'[w] = [job[w] EXCEPT !.at = "destroy", !.version = v]
    BY Zenon, <1>1, <1>3, <1>5, <2>1 DEF Find, Become
  <2>3. /\ job'[w] \in Job /\ job'[w].at = "destroy" /\ job'[w].id = l /\ job'[w].stop = job[w].stop
        /\ job'[w].todo = job[w].todo /\ job'[w].then = job[w].then /\ job'[w].version = v
    BY Zenon, <1>1, <1>3, <2>2 DEF Job, Labels
  <2>4. JobOK(job[w])'
    BY Zenon, <1>1, <1>2, <1>3, <1>4, <2>1, <2>3 DEF JobOK, JobAny, JobIssues, JobRevokes, JobClears, Excused
  <2>5. \A m \in Leases : Keeps(w, m)
    BY Zenon, <1>1, <1>3, <2>3 DEF Keeps, Dropping, Clearing, Reaching, Flying, IssueLabels, RenewLabels
  <2> QED BY Zenon, <1>2, <1>3, <2>2, <2>3, <2>4, <2>5, JobStep
<1>6. CASE ~HasLatest(secret[l])
  <2>1. AfterDestroy(w)
    BY Zenon, <1>3, <1>6 DEF Find
  <2>2. /\ JobOK(job[w])' /\ job' = [job EXCEPT ![w] = job'[w]] /\ job'[w] \in Job
        /\ job'[w].id \in {job[w].id, NoLease} /\ job'[w].at \notin {"store", "save"}
        /\ \A m \in Leases : ~Flying(job'[w], m)
        /\ \A m \in Leases : m # job[w].id => Keeps(w, m)
    BY Zenon, <1>1, <1>2, <2>1, Returns
  <2>3. LeaseOK(l)' \/ Excused(l)'
    <3>1. CASE lease[l] = "revoked"
      <4>1. Rows(l)'
        BY Zenon, <1>2, <1>4 DEF LeaseOK, Rows
      <4>2. ~Dropping(job[w], l) /\ ~HasLatest(secret'[l]) /\ \A x \in Workers \ {w} : job'[x] = job[x]
        BY Zenon, <1>1, <1>2, <1>6, <2>2 DEF Dropping
      <4> QED BY Zenon, <1>2, <2>2, <3>1, <4>1, <4>2, RevokedLease
    <3> QED BY Zenon, <1>2, <1>4, <3>1 DEF Excused
  <2> QED BY Zenon, <1>2, <1>3, <2>2, <2>3, JobStep
<1> QED BY Zenon, <1>5, <1>6
-----------------------------------------------------------------------------
(* The steps that change a lease, its credential or its user.              *)

\* A step of w that touches only the lease w is at.
LEMMA TouchStep ==
  ASSUME IInv, Shapes', NEW w \in Workers, NEW l \in Leases, l = job[w].id,
         job' = [job EXCEPT ![w] = job'[w]],
         hurt \subseteq hurt', overlap \subseteq overlap', dead' = dead,
         \A m \in Leases : m # l => Same(m), Moved(l),
         JobOK(job[w])', job'[w].id \in {l, NoLease},
         job'[w].at \in {"store", "save"} => job[w].at \in {"store", "save"},
         LeaseOK(l)', \A m \in Leases : m # l => Excused(m)' \/ Keeps(w, m)
  PROVE  IInv'
<1>1. \A x \in Workers \ {w} : job'[x] = job[x]
  BY Zenon DEF IInv, Shapes
<1>2. \A m \in Leases : Moved(m)
  BY Zenon DEF Same, Moved
<1>3. \A x \in Workers \ {w} : job[x].at \in {"store", "save"} => job[x].id # NoLease /\ job[w].id # job[x].id
  BY Zenon DEF IInv, JobOK, JobAny, Alone
<1>4. Alone(w)'
  <2>1. job'[w].at \in {"store", "save"} => job'[w].id = l /\ job[w].at \in {"store", "save"}
    BY Zenon DEF JobOK, JobAny
  <2>2. Alone(w)
    BY Zenon DEF IInv
  <2> QED BY Zenon, <1>1, <2>1, <2>2 DEF Alone
<1>5. \A x \in Workers \ {w} : job[x].at \in {"store", "save"} => job'[w].id # job[x].id
  BY <1>3
<1> QED BY Zenon, <1>1, <1>2, <1>4, <1>5, WorkerStep

\* Of a lease that a failure or an overlap excuses, little is claimed.
LEMMA ExcusedLease ==
  ASSUME NEW l \in Leases, Excused(l)', Rows(l)',
         user'[l] => lease'[l] # "none" /\ EngineOf[l] \in Managed
  PROVE  LeaseOK(l)'
BY Zenon DEF LeaseOK

\* storeSecret: the credential has a live version afterwards.
LEMMA StoreRows ==
  ASSUME Shapes, NEW l \in Leases, Rows(l), StoreSecret(l), l \in Renewable \/ DOMAIN secret[l] = {}
  PROVE  /\ Rows(l)' /\ HasLatest(secret'[l]) /\ DOMAIN secret' = Leases
         /\ \A m \in Leases : m # l => secret'[m] = secret[m]
<1> DEFINE row == [destroyed |-> FALSE]
           P == PutAtomic(secret[l], row, 0)
<1>1. PICK n \in Nat : /\ Dense(secret[l], n) /\ (l \notin Renewable => n <= 1)
                       /\ \A v \in DOMAIN secret[l] : secret[l][v] \in [destroyed : BOOLEAN]
  BY Zenon DEF Rows
<1>2. secret'[l] = P /\ DOMAIN secret' = Leases /\ \A m \in Leases : m # l => secret'[m] = secret[m]
  BY Zenon DEF StoreSecret, Shapes
<1>3. ~row.destroyed /\ row \in [destroyed : BOOLEAN]
  BY Zenon
<1>4. /\ Dense(P, n + 1) /\ P[n + 1] = row
      /\ \A v \in DOMAIN P \ {n + 1} : v \in DOMAIN secret[l] /\ P[v] = secret[l][v]
  BY SMTT(30), <1>1, <1>3, PutAtomicRows
<1> HIDE DEF P
<1>5. l \notin Renewable => n + 1 <= 1
  BY <1>1 DEF Dense
<1>6. \A v \in DOMAIN P : P[v] \in [destroyed : BOOLEAN]
  <2> HIDE DEF row
  <2> QED BY <1>1, <1>3, <1>4, Zenon
<1>7. n + 1 \in DOMAIN P /\ HasLatest(P)
  BY SMTT(30), <1>3, <1>4 DEF HasLatest, Live, Dense
<1>8. Rows(l)'
  BY <1>2, <1>4, <1>5, <1>6 DEF Rows
<1> QED BY Zenon, <1>2, <1>7, <1>8

\* While a request issues or renews a lease of a revoked token, the cascade
\* of that token is still to come.
LEMMA CascadeComes ==
  ASSUME IInv, NEW w \in Workers, NEW l \in Leases, Flying(job[w], l) \/ (Active(l) /\ job[w].at = "rstore"),
         \A x \in Workers \ {w} : job'[x] = job[x], ~Excused(l), TokenOf[l] \in dead
  PROVE  \E x \in Workers : Reaching(job'[x], l)
<1>1. \E x \in Workers : Reaching(job[x], l)
  BY Zenon DEF IInv, LeaseOK
<1>2. job[w].at \in IssueLabels \cup RenewLabels \cup {"rstore"} /\ job[w].todo = {}
  BY Zenon DEF IInv, JobOK, JobAny, Flying, IssueLabels, RenewLabels
<1>3. ~Reaching(job[w], l)
  BY Zenon, <1>2 DEF Reaching, IssueLabels, RenewLabels
<1> QED BY Zenon, <1>1, <1>3

\* Save and Revoke leave the types of the repository, and the other leases.
LEMMA RecordShapes ==
  ASSUME Shapes, NEW l \in Leases, Save(l) \/ Revoke(l)
  PROVE  /\ lease' \in [Leases -> {"none", "held", "revoked"}]
         /\ expired' \subseteq {m \in Leases : lease'[m] = "held"}
         /\ lease'[l] \in {"held", "revoked"}
         /\ Save(l) => lease'[l] = "held"
         /\ Revoke(l) => lease'[l] = "revoked"
         /\ \A m \in Leases : m # l => lease'[m] = lease[m] /\ (Active(m)' => Active(m))
BY Zenon DEF Shapes, Save, Revoke, Unlist, Active

\* What Tally leaves in hurt.
LEMMA TallyHurt ==
  ASSUME NEW r, NEW S, Tally(r, S)
  PROVE  hurt \subseteq hurt' /\ (r # "ok" => S \subseteq hurt')
BY DEF Tally
-----------------------------------------------------------------------------
(* The quota.  A lease counts when it is active or will be saved by a      *)
(* worker; only the request that passed CheckMaxLeases adds one.           *)

SaveLabels == {"store", "save", "rcreds", "rsave"}
Saving(j, l) == j.at \in SaveLabels /\ j.id = l
Counted(l) == Active(l) \/ \E w \in Workers : Saving(job[w], l)
CountedOf(e) == {l \in Leases : EngineOf[l] = e /\ Counted(l)}
Quota == \A e \in Engines : Cardinality(CountedOf(e)) <= MaxLeases + Cardinality(Workers) - 1

\* A step after which no other lease counts than before.
LEMMA NoneAdded ==
  ASSUME Quota, \A l \in Leases : Counted(l)' => Counted(l)
  PROVE  Quota'
<1> SUFFICES ASSUME NEW e \in Engines
             PROVE  Cardinality(CountedOf(e)') <= MaxLeases + Cardinality(Workers) - 1
  BY Zenon DEF Quota
<1>1. CountedOf(e) \in SUBSET Leases /\ CountedOf(e)' \in SUBSET CountedOf(e)
  BY Zenon DEF CountedOf
<1>2. IsFiniteSet(CountedOf(e))
  BY Zenon, <1>1, FS_Subset, LeasesAssumption
<1>3. Cardinality(CountedOf(e)') <= Cardinality(CountedOf(e))
  BY Zenon, <1>1, <1>2, FS_Subset
<1>4. /\ Cardinality(CountedOf(e)) \in Nat /\ Cardinality(Workers) \in Nat /\ MaxLeases \in Nat
      /\ Cardinality(CountedOf(e)') \in Nat
  BY Zenon, <1>1, <1>2, FS_Subset, FS_CardinalityType, LeasesAssumption
<1>5. Cardinality(CountedOf(e)) <= MaxLeases + Cardinality(Workers) - 1
  BY Zenon DEF Quota
<1> QED
  BY <1>3, <1>4, <1>5

\* What a worker does leaves the others' saves alone.
LEMMA WorkerCounts ==
  ASSUME Quota, Shapes, NEW w \in Workers, NEW j, Become(w, j),
         \/ j.at \notin SaveLabels
         \/ job[w].at \in SaveLabels /\ j.id = job[w].id
         \/ j.id \in Leases /\ Active(j.id),
         \A l \in Leases : Active(l)' => Active(l) \/ Saving(job[w], l)
  PROVE  Quota'
<1>1. job'[w] = j /\ \A x \in Workers \ {w} : job'[x] = job[x]
  BY Zenon DEF Become, Shapes
<1>2. ASSUME NEW l \in Leases, Counted(l)' PROVE Counted(l)
  <2>1. CASE Active(l)'
    BY Zenon, <2>1 DEF Counted
  <2>2. CASE \E x \in Workers : Saving(job'[x], l)
    <3>1. PICK x \in Workers : Saving(job'[x], l)
      BY Zenon, <2>2
    <3>2. CASE x = w
      BY Zenon, <1>1, <3>1, <3>2 DEF Saving, Counted
    <3>3. CASE x # w
      BY Zenon, <1>1, <3>1, <3>3 DEF Counted
    <3> QED
      BY Zenon, <3>2, <3>3
  <2> QED
    BY Zenon, <1>2, <2>1, <2>2 DEF Counted
<1> QED
  BY Zenon, <1>2, NoneAdded

\* The request that passes the check finds fewer than MaxLeases active ones;
\* at most every worker is saving one.
LEMMA IssueCounts ==
  ASSUME Quota, Shapes, NEW w \in Workers, NEW l \in Leases, Issue(w, l)
  PROVE  Quota'
<1>1. job'[w] = [Idle EXCEPT !.at = "store", !.id = l] /\ \A x \in Workers \ {w} : job'[x] = job[x]
  BY Zenon DEF Issue, Become, Shapes
<1>2. job'[w].id = l
  BY <1>1 DEF Idle
<1>3. \A m \in Leases : Active(m)' <=> Active(m)
  BY Zenon DEF Issue, Active
<1> SUFFICES ASSUME NEW e \in Engines
             PROVE  Cardinality(CountedOf(e)') <= MaxLeases + Cardinality(Workers) - 1
  BY Zenon DEF Quota
<1>4. MaxLeases \in Nat \ {0} /\ Cardinality(Workers) \in Nat
  BY Zenon, FS_CardinalityType, LeasesAssumption
<1>5. CASE EngineOf[l] # e
  <2>1. CountedOf(e)' \in SUBSET CountedOf(e)
    <3> SUFFICES ASSUME NEW m \in Leases, m # l, Counted(m)' PROVE Counted(m)
      BY Zenon, <1>5 DEF CountedOf
    <3> QED
      BY Zenon, <1>1, <1>2, <1>3 DEF Counted, Saving
  <2>2. IsFiniteSet(CountedOf(e))
    <3>1. CountedOf(e) \in SUBSET Leases
      BY Zenon DEF CountedOf
    <3> QED
      BY Zenon, <3>1, FS_Subset, LeasesAssumption
  <2>3. /\ Cardinality(CountedOf(e)') <= Cardinality(CountedOf(e))
        /\ Cardinality(CountedOf(e)) \in Nat /\ Cardinality(CountedOf(e)') \in Nat
        /\ Cardinality(CountedOf(e)) <= MaxLeases + Cardinality(Workers) - 1
    BY Zenon, <2>1, <2>2, FS_Subset, FS_CardinalityType DEF Quota
  <2> QED
    BY <2>3, <1>4
<1>6. CASE EngineOf[l] = e
  <2> DEFINE Savers == {x \in Workers : job'[x].at \in SaveLabels}
             Saved == {job'[x].id : x \in Savers}
             f == [x \in Savers |-> job'[x].id]
  <2>1. f \in Surjection(Savers, Saved)
    BY Zenon DEF Surjection
  <2>2. Savers \in SUBSET Workers /\ IsFiniteSet(Savers) /\ Cardinality(Savers) <= Cardinality(Workers)
    <3>1. Savers \in SUBSET Workers
      BY Zenon
    <3> HIDE DEF Savers
    <3> QED
      BY Zenon, <3>1, FS_Subset, LeasesAssumption
  <2> HIDE DEF f, Savers
  <2>3. IsFiniteSet(Saved) /\ Cardinality(Saved) <= Cardinality(Savers)
    BY Zenon, <2>1, <2>2, FS_Surjection
  <2>4. ActiveOf(e) \in SUBSET Leases /\ IsFiniteSet(ActiveOf(e))
    <3>1. ActiveOf(e) \in SUBSET Leases
      BY Zenon DEF ActiveOf
    <3> QED
      BY Zenon, <3>1, FS_Subset, LeasesAssumption
  <2>5. CountedOf(e)' \in SUBSET (ActiveOf(e) \cup Saved)
    BY Zenon, <1>3 DEF CountedOf, Counted, ActiveOf, Saving, Savers
  <2> HIDE DEF Saved
  <2>6. /\ IsFiniteSet(ActiveOf(e) \cup Saved) /\ IsFiniteSet(ActiveOf(e) \cap Saved)
        /\ Cardinality(ActiveOf(e) \cup Saved) =
             Cardinality(ActiveOf(e)) + Cardinality(Saved) - Cardinality(ActiveOf(e) \cap Saved)
    <3>1. ActiveOf(e) \cap Saved \in SUBSET Saved
      BY Zenon
    <3>2. IsFiniteSet(ActiveOf(e) \cap Saved)
      BY Zenon, <3>1, <2>3, FS_Subset
    <3> QED
      BY ZenonT(60), <2>3, <2>4, <3>2, FS_Union
  <2>7. /\ Cardinality(CountedOf(e)') <= Cardinality(ActiveOf(e) \cup Saved)
        /\ Cardinality(CountedOf(e)') \in Nat /\ Cardinality(ActiveOf(e)) \in Nat
        /\ Cardinality(Saved) \in Nat /\ Cardinality(Savers) \in Nat
        /\ Cardinality(ActiveOf(e) \cap Saved) \in Nat
    BY Zenon, <2>2, <2>3, <2>4, <2>5, <2>6, FS_Subset, FS_CardinalityType
  <2>8. Cardinality(ActiveOf(e)) < MaxLeases
    BY Zenon, <1>6 DEF Issue, CheckMaxLeases
  <2> QED
    BY SMTT(30), <1>4, <2>2, <2>3, <2>6, <2>7, <2>8
<1> QED
  BY Zenon, <1>5, <1>6

\* Who saves or revokes has a lease.
JobsNamed == \A w \in Workers : job[w].at \notin {"idle", "next", "cascade"} => job[w].id \in Leases

\* The worker goes where nothing is saved.
Leaves(w) == \E j : Become(w, j) /\ j.at \notin SaveLabels

\* Where a worker goes that saves no lease.
LEMMA LeavesWhere ==
  ASSUME Shapes, NEW w \in Workers
  PROVE  /\ Become(w, Idle) => Leaves(w)
         /\ \A label : Goto(w, label) /\ label \notin SaveLabels => Leaves(w)
         /\ Proceed(w) \/ Failed(w) => Leaves(w)
         /\ AfterDestroy(w) => Leaves(w)
<1>1. PICK a \in Job : a = job[w]
  BY Zenon DEF Shapes
<1>2. Idle.at \notin SaveLabels
  BY DEF Idle, SaveLabels
<1>3. ASSUME NEW label PROVE [a EXCEPT !.at = label].at = label
  BY DEF Job
<1>4. ASSUME NEW label, Goto(w, label), label \notin SaveLabels PROVE Leaves(w)
  BY Zenon, <1>1, <1>3, <1>4 DEF Goto, Leaves
<1>5. ASSUME NEW todo, NEW stop PROVE [Idle EXCEPT !.at = "next", !.todo = todo, !.stop = stop].at \notin SaveLabels
  BY DEF Idle, SaveLabels
<1>6. Become(w, Idle) => Leaves(w)
  BY Zenon, <1>2 DEF Leaves
<1>7. Proceed(w) => Leaves(w)
  BY Zenon, <1>5 DEF Proceed, Leaves
<1>8. Failed(w) => Leaves(w)
  BY Zenon, <1>6, <1>7 DEF Failed
<1>9. AfterDestroy(w) => Leaves(w)
  <2>1. a.then \in {"idle", "unlease", "next"} /\ "unlease" \notin SaveLabels
    BY DEF Job, SaveLabels
  <2> QED
    BY Zenon, <1>1, <1>4, <1>6, <1>7, <2>1 DEF AfterDestroy
<1> QED
  BY Zenon, <1>4, <1>6, <1>7, <1>8, <1>9

\* A step that saves nothing and leaves or revokes the record of its lease.
LEMMA LeavingCounts ==
  ASSUME Quota, Shapes, NEW w \in Workers, Leaves(w),
         \A l \in Leases : Active(l)' => Active(l) \/ Saving(job[w], l)
  PROVE  Quota'
<1>1. PICK j : Become(w, j) /\ j.at \notin SaveLabels
  BY Zenon DEF Leaves
<1> QED
  BY Zenon, <1>1, WorkerCounts

\* What the repository calls make active.
LEMMA RecordCounts ==
  ASSUME Shapes, NEW l \in Leases
  PROVE  /\ UNCHANGED <<lease, expired>> => \A m \in Leases : Active(m)' => Active(m)
         /\ Revoke(l) => \A m \in Leases : Active(m)' => Active(m)
         /\ Save(l) => \A m \in Leases : Active(m)' => Active(m) \/ m = l
<1>1. UNCHANGED <<lease, expired>> => \A m \in Leases : Active(m)' => Active(m)
  BY Zenon DEF Active
<1>2. ASSUME Revoke(l), NEW m \in Leases, Active(m)' PROVE Active(m)
  <2>1. lease' = [lease EXCEPT ![l] = "revoked"] /\ expired' = expired \ {l}
    BY Zenon, <1>2 DEF Revoke, Unlist
  <2>2. m # l
    BY <1>2, <2>1 DEF Active, Shapes
  <2> QED
    BY Zenon, <1>2, <2>1, <2>2 DEF Active, Shapes
<1>3. ASSUME Save(l), NEW m \in Leases, Active(m)', m # l PROVE Active(m)
  <2>1. lease' = [lease EXCEPT ![l] = "held"] /\ expired' = expired \ {l}
    BY Zenon, <1>3 DEF Save, Unlist
  <2> QED
    BY Zenon, <1>3, <2>1 DEF Active, Shapes
<1> QED
  BY Zenon, <1>1, <1>2, <1>3

\* Starting an operation: only Issue adds a lease.
LEMMA StartCounts ==
  ASSUME Quota, Shapes, NEW w \in Workers, Start(w)
  PROVE  Quota'
<1>1. ASSUME NEW l \in Leases, Renew(w, l) PROVE Quota'
  <2>1. Become(w, [Idle EXCEPT !.at = "rcreds", !.id = l]) /\ Active(l) /\ UNCHANGED <<lease, expired>>
    BY Zenon, <1>1 DEF Renew
  <2>2. [Idle EXCEPT !.at = "rcreds", !.id = l].id = l
    BY DEF Idle
  <2>3. \A m \in Leases : Active(m)' => Active(m)
    BY Zenon, <2>1, RecordCounts
  <2> QED
    BY Zenon, <2>1, <2>2, <2>3, WorkerCounts
<1>2. ASSUME NEW todo, NEW stop, Sweep(w, todo, stop) PROVE Quota'
  <2>1. [Idle EXCEPT !.at = "next", !.todo = todo, !.stop = stop].at \notin SaveLabels
    BY DEF Idle, SaveLabels
  <2>2. Leaves(w)
    BY Zenon, <1>2, <2>1 DEF Sweep, Leaves
  <2>3. \A m \in Leases : Active(m)' => Active(m)
    BY Zenon, <1>2 DEF Sweep, Active
  <2> QED
    BY Zenon, <2>2, <2>3, LeavingCounts
<1>3. ASSUME NEW k \in Tokens, NEW r \in Outcomes, RevokeToken(w, k, r) PROVE Quota'
  <2>1. \A m \in Leases : Active(m)' => Active(m)
    BY Zenon, <1>3 DEF RevokeToken, Active
  <2>2. CASE UNCHANGED job
    BY Zenon, <2>1, <2>2, NoneAdded DEF Counted, Saving
  <2>3. CASE Become(w, [Idle EXCEPT !.at = "cascade", !.tok = k])
    <3>1. [Idle EXCEPT !.at = "cascade", !.tok = k].at \notin SaveLabels
      BY DEF Idle, SaveLabels
    <3> QED
      BY Zenon, <2>1, <2>3, <3>1, LeavingCounts DEF Leaves
  <2> QED
    BY Zenon, <1>3, <2>2, <2>3 DEF RevokeToken
<1> QED
  BY Zenon, <1>1, <1>2, <1>3, IssueCounts
     DEF Start, RenewExpiring, RevokeOne, BulkRevoke, CleanupExpired, Tidy

\* The steps of GenerateCredentials.
LEMMA GenerateCounts ==
  ASSUME Quota, Shapes, JobsNamed, NEW w \in Workers, GenerateCredentials(w)
  PROVE  Quota'
<1> USE LeavesWhere
<1>0. PICK a \in Job : a = job[w]
  BY Zenon DEF Shapes
<1>1. ASSUME NEW r \in Outcomes, IssueStore(w, r) PROVE Quota'
  <2>1. job[w].at \in SaveLabels /\ \A m \in Leases : Active(m)' => Active(m)
    BY Zenon, <1>1 DEF IssueStore, At, Active, SaveLabels
  <2>2. CASE Become(w, Idle)
    BY Zenon, <2>1, <2>2, LeavingCounts
  <2>3. CASE Goto(w, "save")
    <3>1. [a EXCEPT !.at = "save"].id = a.id
      BY DEF Job
    <3> QED
      BY Zenon, <1>0, <2>1, <2>3, <3>1, WorkerCounts DEF Goto
  <2> QED
    BY Zenon, <1>1, <2>2, <2>3 DEF IssueStore
<1>2. ASSUME NEW r \in Outcomes, IssueSave(w, r) PROVE Quota'
  <2>1. job[w].id \in Leases /\ job[w].at \in SaveLabels
    BY Zenon, <1>2 DEF JobsNamed, IssueSave, At, SaveLabels
  <2>2. \A m \in Leases : Active(m)' => Active(m) \/ Saving(job[w], m)
    BY Zenon, <1>2, <2>1, RecordCounts DEF IssueSave, Saving
  <2>3. "create" \notin SaveLabels /\ [a EXCEPT !.at = "find", !.then = "idle"].at \notin SaveLabels
    BY DEF Job, SaveLabels
  <2>4. Leaves(w)
    BY Zenon, <1>0, <1>2, <2>3 DEF IssueSave, Leaves
  <2> QED
    BY Zenon, <2>2, <2>4, LeavingCounts
<1>3. ASSUME NEW r \in Outcomes \cup {"refused"}, IssueCreate(w, r) PROVE Quota'
  <2>1. \A m \in Leases : Active(m)' => Active(m)
    BY Zenon, <1>3 DEF IssueCreate, Active
  <2>2. [a EXCEPT !.at = "find", !.then = "unlease"].at \notin SaveLabels
    BY DEF Job, SaveLabels
  <2>3. Leaves(w)
    BY Zenon, <1>0, <1>3, <2>2 DEF IssueCreate, Leaves
  <2> QED
    BY Zenon, <2>1, <2>3, LeavingCounts
<1>4. ASSUME NEW r \in Outcomes, IssueUnlease(w, r) PROVE Quota'
  <2>1. job[w].id \in Leases
    BY Zenon, <1>4 DEF JobsNamed, IssueUnlease, At
  <2>2. \A m \in Leases : Active(m)' => Active(m)
    BY Zenon, <1>4, <2>1, RecordCounts DEF IssueUnlease
  <2> QED
    BY Zenon, <1>4, <2>2, LeavingCounts DEF IssueUnlease
<1> QED
  BY Zenon, <1>1, <1>2, <1>3, <1>4 DEF GenerateCredentials

\* The steps of a renewal.
LEMMA RenewalCounts ==
  ASSUME Quota, Shapes, JobsNamed, NEW w \in Workers, Renewal(w)
  PROVE  Quota'
<1>0. PICK a \in Job : a = job[w]
  BY Zenon DEF Shapes
<1>1. ASSUME RenewCreds(w) PROVE Quota'
  <2>1. job[w].at \in SaveLabels /\ \A m \in Leases : Active(m)' => Active(m)
    BY Zenon, <1>1 DEF RenewCreds, At, Active, SaveLabels
  <2>2. CASE Become(w, Idle)
    BY Zenon, <2>1, <2>2, LeavingCounts, LeavesWhere
  <2>3. CASE Goto(w, "rsave")
    <3>1. [a EXCEPT !.at = "rsave"].id = a.id
      BY DEF Job
    <3> QED
      BY Zenon, <1>0, <2>1, <2>3, <3>1, WorkerCounts DEF Goto
  <2> QED
    BY Zenon, <1>1, <2>2, <2>3 DEF RenewCreds
<1>2. ASSUME NEW r \in Outcomes, RenewSave(w, r) PROVE Quota'
  <2>1. job[w].id \in Leases /\ job[w].at \in SaveLabels
    BY Zenon, <1>2 DEF JobsNamed, RenewSave, At, SaveLabels
  <2>2. \A m \in Leases : Active(m)' => Active(m) \/ Saving(job[w], m)
    BY Zenon, <1>2, <2>1, RecordCounts DEF RenewSave, Saving
  <2>3. "rstore" \notin SaveLabels
    BY DEF SaveLabels
  <2>4. Leaves(w)
    BY Zenon, <1>2, <2>3, LeavesWhere DEF RenewSave
  <2> QED
    BY Zenon, <2>2, <2>4, LeavingCounts
<1>3. ASSUME NEW r \in Outcomes, RenewStore(w, r) PROVE Quota'
  <2>1. \A m \in Leases : Active(m)' => Active(m)
    BY Zenon, <1>3 DEF RenewStore, Active
  <2> QED
    BY Zenon, <1>3, <2>1, LeavingCounts, LeavesWhere DEF RenewStore
<1> QED
  BY Zenon, <1>1, <1>2, <1>3 DEF Renewal

\* The steps of a revocation.
LEMMA RevokeCounts ==
  ASSUME Quota, Shapes, JobsNamed, NEW w \in Workers, RevokeLease(w)
  PROVE  Quota'
<1>0. PICK a \in Job : a = job[w]
  BY Zenon DEF Shapes
<1>1. ASSUME NEW l \in Leases, NextLease(w, l) PROVE Quota'
  <2>1. \A m \in Leases : Active(m)' => Active(m)
    BY Zenon, <1>1 DEF NextLease, Active
  <2>2. a.at = "next"
    BY Zenon, <1>0, <1>1 DEF NextLease, At
  <2>3. /\ [a EXCEPT !.todo = a.todo \ {l}].at \notin SaveLabels
        /\ [[a EXCEPT !.todo = a.todo \ {l}] EXCEPT !.at = "creds", !.id = l].at \notin SaveLabels
    BY <2>2 DEF Job, SaveLabels
  <2>4. Leaves(w)
    BY Zenon, <1>0, <1>1, <2>3 DEF NextLease, Leaves
  <2> QED
    BY Zenon, <2>1, <2>4, LeavingCounts
<1>2. ASSUME ReadCreds(w) PROVE Quota'
  <2>1. \A m \in Leases : Active(m)' => Active(m)
    BY Zenon, <1>2 DEF ReadCreds, Active
  <2>2. ASSUME NEW known PROVE [a EXCEPT !.at = "mark", !.known = known].at \notin SaveLabels
    BY DEF Job, SaveLabels
  <2>3. Leaves(w)
    BY Zenon, <1>0, <1>2, <2>2 DEF ReadCreds, Leaves
  <2> QED
    BY Zenon, <2>1, <2>3, LeavingCounts
<1>3. ASSUME Find(w) PROVE Quota'
  <2>1. \A m \in Leases : Active(m)' => Active(m)
    BY Zenon, <1>3 DEF Find, Active
  <2>2. ASSUME NEW v PROVE [a EXCEPT !.at = "destroy", !.version = v].at \notin SaveLabels
    BY DEF Job, SaveLabels
  <2>3. Leaves(w)
    BY Zenon, <1>0, <1>3, <2>2, LeavesWhere DEF Find, Leaves
  <2> QED
    BY Zenon, <2>1, <2>3, LeavingCounts
<1>4. ASSUME NEW r \in Outcomes, Mark(w, r) PROVE Quota'
  <2>1. job[w].id \in Leases /\ "drop" \notin SaveLabels /\ "find" \notin SaveLabels
    BY <1>4 DEF JobsNamed, Mark, At, SaveLabels
  <2>2. \A m \in Leases : Active(m)' => Active(m)
    BY Zenon, <1>4, <2>1, RecordCounts DEF Mark
  <2>3. Leaves(w)
    BY Zenon, <1>4, <2>1, LeavesWhere DEF Mark
  <2> QED
    BY Zenon, <2>2, <2>3, LeavingCounts
<1>5. ASSUME NEW r \in Outcomes, Drop(w, r) PROVE Quota'
  <2>1. "find" \notin SaveLabels /\ \A m \in Leases : Active(m)' => Active(m)
    BY <1>5 DEF SaveLabels, Drop, Active
  <2>2. Leaves(w)
    BY Zenon, <1>5, <2>1, LeavesWhere DEF Drop
  <2> QED
    BY Zenon, <2>1, <2>2, LeavingCounts
<1>6. ASSUME NEW r \in Outcomes, DestroyIt(w, r) PROVE Quota'
  <2>1. \A m \in Leases : Active(m)' => Active(m)
    BY Zenon, <1>6 DEF DestroyIt, Active
  <2>2. Leaves(w)
    BY Zenon, <1>6, LeavesWhere DEF DestroyIt
  <2> QED
    BY Zenon, <2>1, <2>2, LeavingCounts
<1> QED
  BY Zenon, <1>1, <1>2, <1>3, <1>4, <1>5, <1>6 DEF RevokeLease

\* No step lets more leases count than the bound.
LEMMA QuotaStep ==
  ASSUME Quota, IInv, [Next]_vars
  PROVE  Quota'
<1>1. Shapes /\ JobsNamed
  <2>1. Shapes /\ \A w \in Workers : job[w].id = NoLease => job[w].at \in {"idle", "next", "cascade"}
    BY Zenon DEF IInv, JobOK, JobAny
  <2>2. \A j \in Job : j.id \in Leases \/ j.id = NoLease
    BY Zenon DEF Job
  <2> QED
    BY Zenon, <2>1, <2>2 DEF JobsNamed, Shapes
<1>2. CASE UNCHANGED vars
  BY Zenon, <1>2, NoneAdded DEF vars, Counted, Active
<1>3. ASSUME NEW l \in Leases, Expire(l) PROVE Quota'
  <2>1. \A m \in Leases : Active(m)' => Active(m)
    BY Zenon, <1>3 DEF Expire, Active
  <2> QED
    BY Zenon, <1>3, <2>1, NoneAdded DEF Expire, Counted
<1>4. ASSUME NEW w \in Workers, SweepDone(w) \/ Crash(w) PROVE Quota'
  <2>1. Become(w, Idle) /\ \A m \in Leases : Active(m)' => Active(m)
    BY Zenon, <1>4 DEF SweepDone, Crash, Active
  <2> QED
    BY Zenon, <1>1, <2>1, LeavingCounts, LeavesWhere
<1>5. ASSUME NEW w \in Workers, NEW r \in Outcomes, Cascade(w, r) PROVE Quota'
  <2>1. \A m \in Leases : Active(m)' => Active(m)
    BY Zenon, <1>5 DEF Cascade, Active
  <2>2. ASSUME NEW todo PROVE [Idle EXCEPT !.at = "next", !.todo = todo].at \notin SaveLabels
    BY DEF Idle, SaveLabels
  <2>3. Leaves(w)
    BY Zenon, <1>1, <1>5, <2>2, LeavesWhere DEF Cascade, Leaves
  <2> QED
    BY Zenon, <1>1, <2>1, <2>3, LeavingCounts
<1> QED
  BY Zenon, <1>1, <1>2, <1>3, <1>4, <1>5, StartCounts, GenerateCounts, RenewalCounts, RevokeCounts
     DEF Next, Continue

\* The bound on what counts bounds what is active.
LEMMA QuotaBounds ==
  ASSUME Quota
  PROVE  QuotaBound
<1> SUFFICES ASSUME NEW e \in Engines
             PROVE  Cardinality(ActiveOf(e)) <= MaxLeases + Cardinality(Workers) - 1
  BY Zenon DEF QuotaBound
<1>1. CountedOf(e) \in SUBSET Leases /\ ActiveOf(e) \in SUBSET CountedOf(e)
  BY Zenon DEF CountedOf, ActiveOf, Counted
<1>2. IsFiniteSet(CountedOf(e))
  BY Zenon, <1>1, FS_Subset, LeasesAssumption
<1>3. /\ Cardinality(ActiveOf(e)) <= Cardinality(CountedOf(e))
      /\ Cardinality(CountedOf(e)) \in Nat /\ Cardinality(ActiveOf(e)) \in Nat
      /\ Cardinality(Workers) \in Nat /\ MaxLeases \in Nat
  BY Zenon, <1>1, <1>2, FS_Subset, FS_CardinalityType, LeasesAssumption
<1>4. Cardinality(CountedOf(e)) <= MaxLeases + Cardinality(Workers) - 1
  BY Zenon DEF Quota
<1> QED
  BY <1>3, <1>4

\* Nothing counts at the start.
LEMMA QuotaInitially == ASSUME Init PROVE Quota
<1> SUFFICES ASSUME NEW e \in Engines
             PROVE  Cardinality(CountedOf(e)) <= MaxLeases + Cardinality(Workers) - 1
  BY Zenon DEF Quota
<1>1. \A w \in Workers : job[w].at \notin SaveLabels
  BY DEF Init, Idle, SaveLabels
<1>2. CountedOf(e) = {}
  BY <1>1 DEF Init, CountedOf, Counted, Active, Saving
<1>3. Cardinality(CountedOf(e)) = 0 /\ Cardinality(Workers) \in Nat /\ MaxLeases \in Nat \ {0}
  BY Zenon, <1>2, FS_EmptySet, FS_CardinalityType, LeasesAssumption
<1> QED
  BY <1>3
-----------------------------------------------------------------------------
\* Issue stores the credential of an id that only it has.
LEMMA IssueStoreStep ==
  ASSUME IInv, NEW w \in Workers, NEW r \in Outcomes, IssueStore(w, r)
  PROVE  IInv'
<1>1. /\ Shapes /\ job \in [Workers -> Job] /\ job[w] \in Job /\ JobOK(job[w]) /\ job[w].at = "store"
  BY DEF IInv, Shapes, IssueStore, At
<1>2. PICK l \in Leases : l = job[w].id
  BY ZenonT(60), <1>1 DEF Job, JobOK, JobAny
<1>3. l # NoLease /\ DOMAIN secret[l] = {} /\ lease[l] = "none" /\ LeaseOK(l) /\ job[w].todo = {}
  BY ZenonT(60), <1>1, <1>2, LeasesAssumption DEF IInv, JobOK, JobAny, JobIssues
<1>4. /\ UNCHANGED <<lease, expired, user, dead, overlap>>
      /\ hurt \subseteq hurt' /\ (r # "ok" => Excused(l)')
  BY ZenonT(60), <1>2, TallyHurt DEF IssueStore, Excused
<1>5. /\ Rows(l)' /\ DOMAIN secret' = Leases /\ (r = "ok" => HasLatest(secret'[l]))
      /\ \A m \in Leases : m # l => secret'[m] = secret[m]
  <2>1. CASE r = "error"
    BY ZenonT(60), <1>1, <1>2, <1>3, <2>1 DEF IssueStore, LeaseOK, Rows, Shapes
  <2>2. CASE r # "error"
    BY <1>1, <1>2, <1>3, <2>2, StoreRows DEF IssueStore, LeaseOK
  <2> QED BY ZenonT(60), <2>1, <2>2
<1>6. /\ job' = [job EXCEPT ![w] = job'[w]] /\ job'[w] \in Job /\ JobOK(job[w])'
      /\ job'[w].id \in {l, NoLease} /\ \A m \in Leases : m # l => ~Flying(job'[w], m)
  <2>1. CASE r = "ok"
    <3>1. job' = [job EXCEPT ![w] = job'[w]] /\ job'[w] = [job[w] EXCEPT !.at = "save"]
      BY Zenon, <1>1, <2>1 DEF IssueStore, Goto, Become
    <3>2. /\ job'[w] \in Job /\ job'[w].at = "save" /\ job'[w].id = l
          /\ job'[w].todo = {} /\ job'[w].then = job[w].then
      BY Zenon, <1>1, <1>2, <1>3, <3>1 DEF Job, Labels, IssueLabels
    <3>3. JobOK(job[w])'
      BY Zenon, <1>3, <1>4, <1>5, <2>1, <3>2 DEF JobOK, JobAny, JobIssues, JobRevokes, JobClears
    <3> QED BY ZenonT(60), <3>1, <3>2, <3>3 DEF Flying
  <2>2. CASE r # "ok"
    <3>1. job' = [job EXCEPT ![w] = job'[w]] /\ job'[w] = Idle
      BY <1>1, <2>2 DEF IssueStore, Become
    <3> QED BY ZenonT(60), <3>1, ToIdle
  <2> QED BY ZenonT(60), <2>1, <2>2
<1>7. Shapes'
  BY ZenonT(60), <1>1, <1>4, <1>5, <1>6 DEF Shapes
<1>8. \A m \in Leases : m # l => Same(m) /\ Keeps(w, m)
  BY ZenonT(60), <1>1, <1>2, <1>3, <1>4, <1>5, <1>6 DEF Same, Active, Keeps, Dropping, Clearing, Reaching
<1>9. LeaseOK(l)'
  <2>1. CASE Excused(l)'
    BY ZenonT(60), <1>3, <1>4, <1>5, <2>1, ExcusedLease DEF LeaseOK
  <2>2. CASE ~Excused(l)'
    <3>1. ~Excused(l) /\ Flying(job[w], l) /\ ~user'[l] /\ lease'[l] = "none" /\ dead' = dead
      BY Zenon, <1>1, <1>2, <1>3, <1>4, <2>2 DEF Excused, Flying, IssueLabels, LeaseOK
    <3>2. TokenOf[l] \in dead => \E x \in Workers : Reaching(job'[x], l)
      BY Zenon, <1>1, <1>6, <3>1, CascadeComes
    <3> QED BY <1>5, <3>1, <3>2, Zenon DEF LeaseOK, Reaching
  <2> QED BY Zenon, <2>1, <2>2
<1> QED BY Zenon, <1>1, <1>2, <1>4, <1>6, <1>7, <1>8, <1>9, TouchStep DEF Moved

\* Issue saves the lease: from here on others can revoke it.
LEMMA IssueSaveStep ==
  ASSUME IInv, NEW w \in Workers, NEW r \in Outcomes, IssueSave(w, r)
  PROVE  IInv'
<1>1. /\ Shapes /\ job \in [Workers -> Job] /\ job[w] \in Job /\ JobOK(job[w]) /\ job[w].at = "save"
  BY Zenon DEF IInv, Shapes, IssueSave, At
<1>2. PICK l \in Leases : l = job[w].id
  BY ZenonT(60), <1>1 DEF Job, JobOK, JobAny
<1>3. l # NoLease /\ HasLatest(secret[l]) /\ lease[l] = "none" /\ LeaseOK(l) /\ job[w].todo = {}
  BY ZenonT(60), <1>1, <1>2, LeasesAssumption DEF IInv, JobOK, JobAny, JobIssues
<1>4. /\ UNCHANGED <<secret, user, dead, overlap>>
      /\ hurt \subseteq hurt' /\ (r # "ok" => l \in hurt')
  BY Zenon, <1>2, TallyHurt DEF IssueSave
<1>5. /\ lease' \in [Leases -> {"none", "held", "revoked"}]
      /\ expired' \subseteq {m \in Leases : lease'[m] = "held"}
      /\ lease'[l] = IF r = "error" THEN "none" ELSE "held"
      /\ \A m \in Leases : m # l => lease'[m] = lease[m] /\ (Active(m)' => Active(m))
  <2>1. CASE r = "error"
    BY Zenon, <1>1, <1>2, <1>3, <2>1 DEF IssueSave, Shapes, Active
  <2>2. CASE r # "error"
    BY Zenon, <1>1, <1>2, <2>2, RecordShapes DEF IssueSave
  <2> QED BY ZenonT(60), <2>1, <2>2
<1>6. /\ job' = [job EXCEPT ![w] = job'[w]] /\ job'[w] \in Job /\ JobOK(job[w])'
      /\ job'[w].id \in {l, NoLease} /\ \A m \in Leases : m # l => ~Flying(job'[w], m)
      /\ job'[w].at \notin {"store", "save"}
  <2>1. CASE r = "ok" /\ EngineOf[l] \in Managed
    <3>1. job' = [job EXCEPT ![w] = job'[w]] /\ job'[w] = [job[w] EXCEPT !.at = "create"]
      BY ZenonT(60), <1>1, <1>2, <2>1 DEF IssueSave, Goto, Become
    <3>2. /\ job'[w] \in Job /\ job'[w].at = "create" /\ job'[w].id = l
          /\ job'[w].todo = {} /\ job'[w].then = job[w].then
      BY Zenon, <1>1, <1>2, <1>3, <3>1 DEF Job, Labels, IssueLabels
    <3>3. JobOK(job[w])'
      BY Zenon, <1>3, <1>5, <2>1, <3>2 DEF JobOK, JobAny, JobIssues, JobRevokes, JobClears
    <3> QED BY ZenonT(60), <3>1, <3>2, <3>3 DEF Flying
  <2>2. CASE r = "ok" /\ EngineOf[l] \notin Managed
    <3>1. job' = [job EXCEPT ![w] = job'[w]] /\ job'[w] = Idle
      BY ZenonT(60), <1>1, <1>2, <2>2 DEF IssueSave, Become
    <3> QED BY ZenonT(60), <3>1, ToIdle
  <2>3. CASE r # "ok"
    <3>1. job' = [job EXCEPT ![w] = job'[w]] /\ job'[w] = [job[w] EXCEPT !.at = "find", !.then = "idle"]
      BY ZenonT(60), <1>1, <2>3 DEF IssueSave, Become
    <3>2. /\ job'[w] \in Job /\ job'[w].at = "find" /\ job'[w].id = l
          /\ job'[w].todo = {} /\ job'[w].then = "idle"
      BY ZenonT(60), <1>1, <1>2, <1>3, <3>1 DEF Job, Labels
    <3>3. JobOK(job[w])'
      BY ZenonT(60), <1>3, <1>4, <2>3, <3>2 DEF JobOK, JobAny, JobIssues, JobRevokes, JobClears, Excused
    <3> QED BY ZenonT(60), <3>1, <3>2, <3>3 DEF Flying, IssueLabels, RenewLabels
  <2> QED BY ZenonT(60), <2>1, <2>2, <2>3
<1>7. Shapes'
  BY ZenonT(60), <1>1, <1>4, <1>5, <1>6 DEF Shapes
<1>8. \A m \in Leases : m # l => Same(m) /\ Keeps(w, m)
  BY Zenon, <1>1, <1>2, <1>3, <1>4, <1>5, <1>6 DEF Same, Keeps, Dropping, Clearing, Reaching
<1>9. LeaseOK(l)'
  <2>1. Rows(l)' /\ ~user'[l]
    BY Zenon, <1>3, <1>4 DEF LeaseOK, Rows
  <2>2. CASE Excused(l)'
    BY Zenon, <2>1, <2>2, ExcusedLease
  <2>3. CASE ~Excused(l)'
    <3>1. ~Excused(l) /\ Flying(job[w], l) /\ lease'[l] = "held" /\ dead' = dead /\ HasLatest(secret'[l])
      BY Zenon, <1>1, <1>2, <1>3, <1>4, <1>5, <2>3 DEF Excused, Flying, IssueLabels
    <3>2. TokenOf[l] \in dead => \E x \in Workers : Reaching(job'[x], l)
      BY Zenon, <1>1, <1>6, <3>1, CascadeComes
    <3> QED BY <2>1, <3>1, <3>2, Zenon DEF LeaseOK, Reaching, HasLatest, Live
  <2> QED BY ZenonT(60), <2>2, <2>3
<1>10. Moved(l)
  BY Zenon, <1>3, <1>5 DEF Moved
<1> QED BY Zenon, <1>1, <1>2, <1>4, <1>6, <1>7, <1>8, <1>9, <1>10, TouchStep

\* Issue creates the database user of a lease that is on record.
LEMMA IssueCreateStep ==
  ASSUME IInv, NEW w \in Workers, NEW r \in Outcomes \cup {"refused"}, IssueCreate(w, r)
  PROVE  IInv'
<1>1. /\ Shapes /\ job \in [Workers -> Job] /\ job[w] \in Job /\ JobOK(job[w]) /\ job[w].at = "create"
  BY Zenon DEF IInv, Shapes, IssueCreate, At
<1>2. PICK l \in Leases : l = job[w].id
  BY Zenon, <1>1 DEF Job, JobOK, JobAny
<1>3. /\ l # NoLease /\ LeaseOK(l) /\ job[w].todo = {} /\ EngineOf[l] \in Managed
      /\ lease[l] # "none" /\ (lease[l] = "held" \/ l \in overlap)
  BY ZenonT(60), <1>1, <1>2, LeasesAssumption DEF IInv, JobOK, JobAny, JobIssues
<1>4. /\ UNCHANGED <<lease, expired, secret, dead, overlap>>
      /\ hurt \subseteq hurt' /\ (r # "ok" => l \in hurt')
  BY ZenonT(60), <1>2, TallyHurt DEF IssueCreate
<1>5. user' \in [Leases -> BOOLEAN] /\ \A m \in Leases : m # l => user'[m] = user[m]
  BY Zenon, <1>1, <1>2 DEF IssueCreate, Shapes
<1>6. /\ job' = [job EXCEPT ![w] = job'[w]] /\ job'[w] \in Job /\ JobOK(job[w])'
      /\ job'[w].id \in {l, NoLease} /\ \A m \in Leases : m # l => ~Flying(job'[w], m)
      /\ job'[w].at \notin {"store", "save"}
  <2>1. CASE r \in {"ok", "refused"}
    <3>1. job' = [job EXCEPT ![w] = job'[w]] /\ job'[w] = Idle
      BY Zenon, <1>1, <2>1 DEF IssueCreate, Become
    <3> QED BY Zenon, <3>1, ToIdle
  <2>2. CASE r \notin {"ok", "refused"}
    <3>1. job' = [job EXCEPT ![w] = job'[w]] /\ job'[w] = [job[w] EXCEPT !.at = "find", !.then = "unlease"]
      BY Zenon, <1>1, <2>2 DEF IssueCreate, Become
    <3>2. /\ job'[w] \in Job /\ job'[w].at = "find" /\ job'[w].id = l
          /\ job'[w].todo = {} /\ job'[w].then = "unlease"
      BY ZenonT(60), <1>1, <1>2, <1>3, <3>1 DEF Job, Labels
    <3>3. JobOK(job[w])'
      BY <1>3, <1>4, <2>2, <3>2 DEF JobOK, JobAny, JobIssues, JobRevokes, JobClears, Excused
    <3> QED BY Zenon, <3>1, <3>2, <3>3 DEF Flying, IssueLabels, RenewLabels
  <2> QED BY Zenon, <2>1, <2>2
<1>7. Shapes'
  BY ZenonT(60), <1>1, <1>4, <1>5, <1>6 DEF Shapes
<1>8. \A m \in Leases : m # l => Same(m) /\ Keeps(w, m)
  BY Zenon, <1>1, <1>2, <1>3, <1>4, <1>5, <1>6 DEF Same, Active, Keeps, Dropping, Clearing, Reaching
<1>9. LeaseOK(l)'
  <2>1. Rows(l)' /\ lease'[l] # "none"
    BY Zenon, <1>3, <1>4 DEF LeaseOK, Rows
  <2>2. CASE Excused(l)'
    BY ZenonT(60), <1>3, <2>1, <2>2, ExcusedLease
  <2>3. CASE ~Excused(l)'
    <3>1. ~Excused(l) /\ Flying(job[w], l) /\ lease'[l] = "held" /\ dead' = dead /\ HasLatest(secret'[l])
      BY Zenon, <1>1, <1>2, <1>3, <1>4, <2>3 DEF Excused, Flying, IssueLabels, LeaseOK
    <3>2. TokenOf[l] \in dead => \E x \in Workers : Reaching(job'[x], l)
      BY Zenon, <1>1, <1>6, <3>1, CascadeComes
    <3> QED BY <1>3, <2>1, <3>1, <3>2, Zenon DEF LeaseOK, Reaching, HasLatest, Live
  <2> QED BY Zenon, <2>2, <2>3
<1> QED BY Zenon, <1>1, <1>2, <1>4, <1>6, <1>7, <1>8, <1>9, TouchStep DEF Moved

\* Issue failed after the save: its lease is marked revoked.
LEMMA IssueUnleaseStep ==
  ASSUME IInv, NEW w \in Workers, NEW r \in Outcomes, IssueUnlease(w, r)
  PROVE  IInv'
<1>1. /\ Shapes /\ job \in [Workers -> Job] /\ job[w] \in Job /\ JobOK(job[w]) /\ job[w].at = "unlease"
  BY Zenon DEF IInv, Shapes, IssueUnlease, At
<1>2. PICK l \in Leases : l = job[w].id
  BY Zenon, <1>1 DEF Job, JobOK, JobAny
<1>3. l # NoLease /\ LeaseOK(l) /\ job[w].todo = {} /\ lease[l] # "none" /\ l \in hurt
  BY Zenon, <1>1, <1>2, LeasesAssumption DEF IInv, JobOK, JobAny, JobClears
<1>4. /\ UNCHANGED <<secret, user, dead>> /\ hurt \subseteq hurt' /\ overlap \subseteq overlap'
      /\ l \in InFlight => l \in overlap'
  BY Zenon, <1>2, TallyHurt DEF IssueUnlease
<1>5. /\ lease' \in [Leases -> {"none", "held", "revoked"}]
      /\ expired' \subseteq {m \in Leases : lease'[m] = "held"}
      /\ lease'[l] = IF r = "error" THEN lease[l] ELSE "revoked"
      /\ \A m \in Leases : m # l => lease'[m] = lease[m] /\ (Active(m)' => Active(m))
  <2>1. CASE r = "error"
    BY Zenon, <1>1, <1>2, <1>3, <2>1 DEF IssueUnlease, Shapes, Active
  <2>2. CASE r # "error"
    BY Zenon, <1>1, <1>2, <2>2, RecordShapes DEF IssueUnlease
  <2> QED BY Zenon, <2>1, <2>2
<1>6. /\ job' = [job EXCEPT ![w] = job'[w]] /\ job'[w] \in Job /\ JobOK(job[w])'
      /\ job'[w].id = NoLease /\ job'[w].at = "idle" /\ \A m \in Leases : ~Flying(job'[w], m)
  <2>1. job' = [job EXCEPT ![w] = job'[w]] /\ job'[w] = Idle
    BY Zenon, <1>1 DEF IssueUnlease, Become
  <2> QED BY Zenon, <2>1, ToIdle
<1>7. Shapes'
  BY ZenonT(60), <1>1, <1>4, <1>5, <1>6 DEF Shapes
<1>8. \A m \in Leases : m # l => Same(m) /\ Keeps(w, m)
  BY Zenon, <1>1, <1>2, <1>3, <1>4, <1>5, <1>6 DEF Same, Keeps, Dropping, Clearing, Reaching
<1>9. LeaseOK(l)'
  <2>1. Rows(l)' /\ lease'[l] # "none" /\ Excused(l)' /\ (user'[l] => EngineOf[l] \in Managed)
    BY Zenon, <1>3, <1>4, <1>5 DEF LeaseOK, Rows, Excused
  <2> QED BY Zenon, <2>1, ExcusedLease
<1>10. Moved(l)
  BY Zenon, <1>3, <1>4, <1>5 DEF Moved
<1> QED BY Zenon, <1>1, <1>2, <1>4, <1>6, <1>7, <1>8, <1>9, <1>10, TouchStep

\* Renew saves the lease it read; a lease revoked since was overtaken.
LEMMA RenewSaveStep ==
  ASSUME IInv, NEW w \in Workers, NEW r \in Outcomes, RenewSave(w, r)
  PROVE  IInv'
<1>1. /\ Shapes /\ job \in [Workers -> Job] /\ job[w] \in Job /\ JobOK(job[w]) /\ job[w].at = "rsave"
  BY Zenon DEF IInv, Shapes, RenewSave, At
<1>2. PICK l \in Leases : l = job[w].id
  BY ZenonT(60), <1>1 DEF Job, JobOK, JobAny
<1>3. /\ l # NoLease /\ LeaseOK(l) /\ job[w].todo = {} /\ l \in Renewable
      /\ lease[l] # "none" /\ (lease[l] = "held" \/ l \in overlap)
  BY Zenon, <1>1, <1>2, LeasesAssumption DEF IInv, JobOK, JobAny, JobIssues
<1>4. /\ UNCHANGED <<secret, user, dead, overlap>>
      /\ hurt \subseteq hurt' /\ (r # "ok" => l \in hurt')
  BY Zenon, <1>2, TallyHurt DEF RenewSave
<1>5. /\ lease' \in [Leases -> {"none", "held", "revoked"}]
      /\ expired' \subseteq {m \in Leases : lease'[m] = "held"}
      /\ lease'[l] = IF r = "error" THEN lease[l] ELSE "held"
      /\ \A m \in Leases : m # l => lease'[m] = lease[m] /\ (Active(m)' => Active(m))
  <2>1. CASE r = "error"
    BY Zenon, <1>1, <1>2, <1>3, <2>1 DEF RenewSave, Shapes, Active
  <2>2. CASE r # "error"
    BY ZenonT(60), <1>1, <1>2, <2>2, RecordShapes DEF RenewSave
  <2> QED BY Zenon, <2>1, <2>2
<1>6. /\ job' = [job EXCEPT ![w] = job'[w]] /\ job'[w] \in Job /\ JobOK(job[w])'
      /\ job'[w].id \in {l, NoLease} /\ \A m \in Leases : ~Flying(job'[w], m)
      /\ job'[w].at \notin {"store", "save"}
  <2>1. CASE r = "ok"
    <3>1. job' = [job EXCEPT ![w] = job'[w]] /\ job'[w] = [job[w] EXCEPT !.at = "rstore"]
      BY Zenon, <1>1, <2>1 DEF RenewSave, Goto, Become
    <3>2. /\ job'[w] \in Job /\ job'[w].at = "rstore" /\ job'[w].id = l
          /\ job'[w].todo = {} /\ job'[w].then = job[w].then
      BY Zenon, <1>1, <1>2, <1>3, <3>1 DEF Job, Labels
    <3>3. JobOK(job[w])'
      BY Zenon, <1>3, <3>2 DEF JobOK, JobAny, JobIssues, JobRevokes, JobClears
    <3> QED BY Zenon, <3>1, <3>2, <3>3 DEF Flying, IssueLabels, RenewLabels
  <2>2. CASE r # "ok"
    <3>1. job' = [job EXCEPT ![w] = job'[w]] /\ job'[w] = Idle
      BY Zenon, <1>1, <2>2 DEF RenewSave, Become
    <3> QED BY Zenon, <3>1, ToIdle
  <2> QED BY ZenonT(60), <2>1, <2>2
<1>7. Shapes'
  BY Zenon, <1>1, <1>4, <1>5, <1>6 DEF Shapes
<1>8. \A m \in Leases : m # l => Same(m) /\ Keeps(w, m)
  BY Zenon, <1>1, <1>2, <1>3, <1>4, <1>5, <1>6 DEF Same, Keeps, Dropping, Clearing, Reaching
<1>9. LeaseOK(l)'
  <2>1. Rows(l)' /\ lease'[l] # "none" /\ (user'[l] => EngineOf[l] \in Managed)
    BY Zenon, <1>3, <1>4, <1>5 DEF LeaseOK, Rows
  <2>2. CASE Excused(l)'
    BY Zenon, <2>1, <2>2, ExcusedLease
  <2>3. CASE ~Excused(l)'
    <3>1. ~Excused(l) /\ Flying(job[w], l) /\ lease'[l] = "held" /\ dead' = dead /\ HasLatest(secret'[l])
      BY Zenon, <1>1, <1>2, <1>3, <1>4, <1>5, <2>3 DEF Excused, Flying, RenewLabels, LeaseOK
    <3>2. TokenOf[l] \in dead => \E x \in Workers : Reaching(job'[x], l)
      BY Zenon, <1>1, <1>6, <3>1, CascadeComes
    <3> QED BY <2>1, <3>1, <3>2, Zenon DEF LeaseOK, Reaching, HasLatest, Live
  <2> QED BY <2>2, <2>3
<1>10. Moved(l)
  BY Zenon, <1>1, <1>3, <1>5 DEF Moved, Shapes
<1> QED BY Zenon, <1>1, <1>2, <1>4, <1>6, <1>7, <1>8, <1>9, <1>10, TouchStep

\* Renew stores a new version of the credential of a renewable lease.
LEMMA RenewStoreStep ==
  ASSUME IInv, NEW w \in Workers, NEW r \in Outcomes, RenewStore(w, r)
  PROVE  IInv'
<1>1. /\ Shapes /\ job \in [Workers -> Job] /\ job[w] \in Job /\ JobOK(job[w]) /\ job[w].at = "rstore"
  BY Zenon DEF IInv, Shapes, RenewStore, At
<1>2. PICK l \in Leases : l = job[w].id
  BY Zenon, <1>1 DEF Job, JobOK, JobAny
<1>3. l # NoLease /\ LeaseOK(l) /\ job[w].todo = {} /\ l \in Renewable
  BY Zenon, <1>1, <1>2, LeasesAssumption DEF IInv, JobOK, JobAny, JobIssues
<1>4. /\ UNCHANGED <<lease, expired, user, dead, overlap>>
      /\ hurt \subseteq hurt' /\ (r # "ok" => l \in hurt')
  BY Zenon, <1>2, TallyHurt DEF RenewStore
<1>5. /\ Rows(l)' /\ DOMAIN secret' = Leases /\ (r = "ok" => HasLatest(secret'[l]))
      /\ \A m \in Leases : m # l => secret'[m] = secret[m]
  <2>1. CASE r = "error"
    BY Zenon, <1>1, <1>2, <1>3, <2>1 DEF RenewStore, LeaseOK, Rows, Shapes
  <2>2. CASE r # "error"
    BY Zenon, <1>1, <1>2, <1>3, <2>2, StoreRows DEF RenewStore, LeaseOK
  <2> QED BY <2>1, <2>2
<1>6. /\ job' = [job EXCEPT ![w] = job'[w]] /\ job'[w] \in Job /\ JobOK(job[w])'
      /\ job'[w].id = NoLease /\ job'[w].at = "idle" /\ \A m \in Leases : ~Flying(job'[w], m)
  <2>1. job' = [job EXCEPT ![w] = job'[w]] /\ job'[w] = Idle
    BY Zenon, <1>1 DEF RenewStore, Become
  <2> QED BY <2>1, ToIdle
<1>7. Shapes'
  BY Zenon, <1>1, <1>4, <1>5, <1>6 DEF Shapes
<1>8. \A m \in Leases : (m # l => Same(m)) /\ Keeps(w, m)
  BY Zenon, <1>1, <1>2, <1>3, <1>4, <1>5, <1>6 DEF Same, Active, Keeps, Dropping, Clearing, Reaching
<1>9. LeaseOK(l)'
  <2>1. user'[l] => lease'[l] # "none" /\ EngineOf[l] \in Managed
    BY Zenon, <1>3, <1>4 DEF LeaseOK
  <2>2. CASE Excused(l)'
    BY Zenon, <1>5, <2>1, <2>2, ExcusedLease
  <2>3. CASE ~Excused(l)'
    <3>1. ~Excused(l) /\ HasLatest(secret'[l]) /\ (Active(l)' => Active(l)) /\ Keeps(w, l)
      BY Zenon, <1>4, <1>5, <1>8, <2>3 DEF Excused, Active
    <3>2. \A x \in Workers \ {w} : job'[x] = job[x]
      BY Zenon, <1>1, <1>6
    <3>3. lease'[l] = "revoked" /\ user'[l] => \E x \in Workers : Dropping(job'[x], l)
      BY Zenon, <1>3, <1>4, <3>1, <3>2 DEF LeaseOK, Keeps
    <3>4. (\E x \in Workers : Flying(job'[x], l)) => \E x \in Workers : Flying(job[x], l)
      BY Zenon, <1>6, <3>2
    <3>5. TokenOf[l] \in dead' /\ (Active(l)' \/ \E x \in Workers : Flying(job'[x], l))
            => \E x \in Workers : Reaching(job'[x], l)
      BY Zenon, <1>3, <1>4, <3>1, <3>2, <3>4 DEF LeaseOK, Keeps
    <3> QED BY <1>3, <1>5, <2>1, <3>1, <3>3, <3>5, Zenon DEF LeaseOK, Dropping, Reaching, Flying, HasLatest, Live
  <2> QED BY <2>2, <2>3
<1> QED BY ZenonT(60), <1>1, <1>2, <1>4, <1>6, <1>7, <1>8, <1>9, TouchStep DEF Moved

\* revokeLease marks the record; from here on the worker has to drop the
\* user.
LEMMA MarkStep ==
  ASSUME IInv, NEW w \in Workers, NEW r \in Outcomes, Mark(w, r)
  PROVE  IInv'
<1>1. /\ Shapes /\ job \in [Workers -> Job] /\ job[w] \in Job /\ JobOK(job[w]) /\ job[w].at = "mark"
  BY Zenon DEF IInv, Shapes, Mark, At
<1>2. PICK l \in Leases : l = job[w].id
  BY Zenon, <1>1 DEF Job, JobOK, JobAny
<1>3. /\ l # NoLease /\ LeaseOK(l) /\ job[w].then = "next" /\ lease[l] # "none"
      /\ ~job[w].known => lease[l] = "revoked" \/ Excused(l)
  BY ZenonT(60), <1>1, <1>2, LeasesAssumption DEF IInv, JobOK, JobAny, JobRevokes
<1>4. /\ UNCHANGED <<secret, user, dead>> /\ hurt \subseteq hurt' /\ (r # "ok" => l \in hurt')
      /\ overlap \subseteq overlap' /\ (l \in InFlight => l \in overlap')
  BY Zenon, <1>2, TallyHurt DEF Mark
<1>5. /\ lease' \in [Leases -> {"none", "held", "revoked"}]
      /\ expired' \subseteq {m \in Leases : lease'[m] = "held"}
      /\ lease'[l] = IF r = "error" THEN lease[l] ELSE "revoked"
      /\ \A m \in Leases : m # l => lease'[m] = lease[m] /\ (Active(m)' => Active(m))
  <2>1. CASE r = "error"
    BY Zenon, <1>1, <1>2, <1>3, <2>1 DEF Mark, Shapes, Active
  <2>2. CASE r # "error"
    BY Zenon, <1>1, <1>2, <2>2, RecordShapes DEF Mark
  <2> QED BY ZenonT(60), <2>1, <2>2
<1>6. \A m \in Leases : lease[m] # "none" => lease'[m] # "none"
  BY Zenon, <1>3, <1>5
<1>7. /\ job' = [job EXCEPT ![w] = job'[w]] /\ job'[w] \in Job /\ JobOK(job[w])'
      /\ job'[w].id \in {l, NoLease} /\ job'[w].at \notin {"store", "save"}
      /\ \A m \in Leases : ~Flying(job'[w], m) /\ (m # l => Keeps(w, m))
      /\ r = "ok" => /\ Clearing(job'[w], l)
                     /\ EngineOf[l] \in Managed /\ job[w].known => Dropping(job'[w], l)
  <2>1. CASE r = "ok"
    <3>1. PICK a \in {"drop", "find"} : a = IF EngineOf[l] \in Managed /\ job[w].known THEN "drop" ELSE "find"
      BY Zenon
    <3>2. job' = [job EXCEPT ![w] = job'[w]] /\ job'[w] = [job[w] EXCEPT !.at = a]
      BY Zenon, <1>1, <1>2, <2>1, <3>1 DEF Mark, Goto, Become
    <3>3. /\ job'[w] \in Job /\ job'[w].at = a /\ job'[w].id = l /\ job'[w].then = "next"
          /\ job'[w].todo = job[w].todo /\ job'[w].stop = job[w].stop
      BY Zenon, <1>1, <1>2, <1>3, <3>2 DEF Job, Labels
    <3>4. JobOK(job[w])'
      <4>1. \A m \in job'[w].todo : lease'[m] # "none"
        BY Zenon, <1>1, <1>6, <3>3 DEF JobOK, JobAny, Job
      <4> QED BY Zenon, <1>3, <1>5, <2>1, <3>3, <4>1 DEF JobOK, JobAny, JobIssues, JobRevokes, JobClears
    <3>5. \A m \in Leases : ~Flying(job'[w], m) /\ (m # l => Keeps(w, m))
      BY Zenon, <1>1, <1>2, <3>3 DEF Keeps, Dropping, Clearing, Reaching, Flying, IssueLabels, RenewLabels
    <3> QED BY Zenon, <3>1, <3>2, <3>3, <3>4, <3>5 DEF Dropping, Clearing
  <2>2. CASE r # "ok"
    BY Zenon, <1>1, <1>2, <1>3, <1>6, <2>2, Onward DEF Mark
  <2> QED BY Zenon, <2>1, <2>2
<1>8. Shapes'
  BY Zenon, <1>1, <1>4, <1>5, <1>7 DEF Shapes
<1>9. LeaseOK(l)'
  <2>1. Rows(l)' /\ lease'[l] # "none" /\ (user'[l] => EngineOf[l] \in Managed)
    BY Zenon, <1>3, <1>4, <1>6 DEF LeaseOK, Rows
  <2>2. CASE Excused(l)'
    BY ZenonT(60), <2>1, <2>2, ExcusedLease
  <2>3. CASE ~Excused(l)'
    <3>1. ~Excused(l) /\ r = "ok" /\ l \notin InFlight /\ lease'[l] = "revoked" /\ ~Active(l)'
      BY ZenonT(60), <1>4, <1>5, <2>3 DEF Excused, Active
    <3>2. \A x \in Workers \ {w} : job'[x] = job[x]
      BY Zenon, <1>1, <1>7
    <3>3. \A x \in Workers : ~Flying(job'[x], l)
      BY Zenon, <1>7, <3>1, <3>2 DEF Flying, InFlight
    <3>4. user'[l] => \E x \in Workers : Dropping(job'[x], l)
      <4>1. CASE job[w].known
        BY Zenon, <1>7, <2>1, <3>1, <4>1
      <4>2. CASE ~job[w].known
        <5>1. user'[l] => \E x \in Workers : Dropping(job[x], l)
          BY Zenon, <1>3, <1>4, <3>1, <4>2 DEF LeaseOK
        <5>2. ~Dropping(job[w], l)
          BY Zenon, <1>1 DEF Dropping
        <5> QED BY Zenon, <3>2, <5>1, <5>2
      <4> QED BY Zenon, <4>1, <4>2
    <3> QED BY <1>7, <2>1, <3>1, <3>3, <3>4, Zenon DEF LeaseOK, Dropping, Clearing, Flying, Reaching
  <2> QED BY <2>2, <2>3
<1>10. Moved(l) /\ \A m \in Leases : m # l => Same(m)
  BY Zenon, <1>3, <1>4, <1>5 DEF Moved, Same
<1> QED BY Zenon, <1>1, <1>2, <1>4, <1>7, <1>8, <1>9, <1>10, TouchStep

\* revokeLease drops the user.
LEMMA DropStep ==
  ASSUME IInv, NEW w \in Workers, NEW r \in Outcomes, Drop(w, r)
  PROVE  IInv'
<1>1. /\ Shapes /\ job \in [Workers -> Job] /\ job[w] \in Job /\ JobOK(job[w]) /\ job[w].at = "drop"
  BY Zenon DEF IInv, Shapes, Drop, At
<1>2. PICK l \in Leases : l = job[w].id
  BY Zenon, <1>1 DEF Job, JobOK, JobAny
<1>3. /\ l # NoLease /\ LeaseOK(l) /\ job[w].then = "next"
      /\ lease[l] = "revoked" \/ Excused(l)
  BY Zenon, <1>1, <1>2, LeasesAssumption DEF IInv, JobOK, JobAny, JobRevokes
<1>4. /\ UNCHANGED <<lease, expired, secret, dead, overlap>>
      /\ hurt \subseteq hurt' /\ (r # "ok" => l \in hurt')
  BY Zenon, <1>2, TallyHurt DEF Drop
<1>5. /\ user' \in [Leases -> BOOLEAN] /\ (user'[l] => user[l]) /\ (r = "ok" => ~user'[l])
      /\ \A m \in Leases : m # l => user'[m] = user[m]
  BY Zenon, <1>1, <1>2 DEF Drop, Shapes
<1>6. /\ job' = [job EXCEPT ![w] = job'[w]] /\ job'[w] \in Job /\ JobOK(job[w])'
      /\ job'[w].id \in {l, NoLease} /\ job'[w].at \notin {"store", "save"}
      /\ \A m \in Leases : ~Flying(job'[w], m) /\ (m # l => Keeps(w, m))
      /\ r = "ok" => Clearing(job'[w], l)
  <2>1. CASE r = "ok"
    <3>1. job' = [job EXCEPT ![w] = job'[w]] /\ job'[w] = [job[w] EXCEPT !.at = "find"]
      BY Zenon, <1>1, <2>1 DEF Drop, Goto, Become
    <3>2. /\ job'[w] \in Job /\ job'[w].at = "find" /\ job'[w].id = l /\ job'[w].then = "next"
          /\ job'[w].todo = job[w].todo /\ job'[w].stop = job[w].stop
      BY Zenon, <1>1, <1>2, <1>3, <3>1 DEF Job, Labels
    <3>3. JobOK(job[w])'
      BY Zenon, <1>1, <1>3, <1>4, <3>2 DEF JobOK, JobAny, JobIssues, JobRevokes, JobClears, Excused
    <3>4. \A m \in Leases : ~Flying(job'[w], m) /\ (m # l => Keeps(w, m))
      BY Zenon, <1>1, <1>2, <3>2 DEF Keeps, Dropping, Clearing, Reaching, Flying, IssueLabels, RenewLabels
    <3> QED BY Zenon, <3>1, <3>2, <3>3, <3>4 DEF Clearing
  <2>2. CASE r # "ok"
    BY Zenon, <1>1, <1>2, <1>3, <1>4, <2>2, Onward DEF Drop
  <2> QED BY ZenonT(60), <2>1, <2>2
<1>7. Shapes'
  BY Zenon, <1>1, <1>4, <1>5, <1>6 DEF Shapes
<1>8. LeaseOK(l)'
  <2>1. Rows(l)' /\ (user'[l] => lease'[l] # "none" /\ EngineOf[l] \in Managed)
    BY Zenon, <1>3, <1>4, <1>5 DEF LeaseOK, Rows
  <2>2. CASE Excused(l)'
    BY Zenon, <2>1, <2>2, ExcusedLease
  <2>3. CASE ~Excused(l)'
    <3>1. r = "ok" /\ lease[l] = "revoked" /\ \A x \in Workers \ {w} : job'[x] = job[x]
      BY Zenon, <1>1, <1>3, <1>4, <1>6, <2>3 DEF Excused
    <3> QED BY Zenon, <1>4, <1>5, <1>6, <2>1, <3>1, RevokedLease
  <2> QED BY <2>2, <2>3
<1>9. Moved(l) /\ \A m \in Leases : m # l => Same(m)
  BY Zenon, <1>4, <1>5 DEF Moved, Same, Active
<1> QED BY Zenon, <1>1, <1>2, <1>4, <1>6, <1>7, <1>8, <1>9, TouchStep

\* DestroyVersion: no version comes to life, and the only version of a
\* credential that is not renewable is gone.
LEMMA DestroyedRows ==
  ASSUME Shapes, NEW l \in Leases, NEW v, Rows(l),
         secret' = [secret EXCEPT ![l] = Destroy(@, v)] /\ CanDestroy(secret[l], v)
  PROVE  /\ Rows(l)' /\ DOMAIN secret' = Leases /\ (\A m \in Leases : m # l => secret'[m] = secret[m])
         /\ HasLatest(secret'[l]) => HasLatest(secret[l])
         /\ l \notin Renewable => ~HasLatest(secret'[l])
<1> DEFINE D == Destroy(secret[l], v)
<1>1. PICK n \in Nat : /\ Dense(secret[l], n) /\ (l \notin Renewable => n <= 1)
                       /\ \A u \in DOMAIN secret[l] : secret[l][u] \in [destroyed : BOOLEAN]
  BY Zenon DEF Rows
<1>2. secret'[l] = D /\ DOMAIN secret' = Leases /\ \A m \in Leases : m # l => secret'[m] = secret[m]
  BY Zenon DEF Shapes
<1>3. v \in DOMAIN secret[l]
  BY Zenon DEF CanDestroy, Live
<1>4. /\ Dense(D, n) /\ DOMAIN D = DOMAIN secret[l]
      /\ \A u \in DOMAIN secret[l] \ {v} : D[u] = secret[l][u]
      /\ D[v] = [secret[l][v] EXCEPT !.destroyed = TRUE]
  BY Zenon, <1>1, <1>3, DestroyRows
<1>5. D[v] \in [destroyed : BOOLEAN] /\ D[v].destroyed
  BY Zenon, <1>1, <1>3, <1>4
<1> HIDE DEF D
<1>6. \A u \in DOMAIN D : D[u] \in [destroyed : BOOLEAN]
  BY ZenonT(60), <1>1, <1>4, <1>5
<1>7. Rows(l)'
  BY ZenonT(60), <1>1, <1>2, <1>4, <1>6 DEF Rows
<1>8. Live(D) = Live(secret[l]) \ {v}
  BY ZenonT(60), <1>3, <1>4, <1>5 DEF Live
<1>9. l \notin Renewable => Live(secret[l]) \subseteq {v}
  BY <1>1, <1>3 DEF Live, Dense
<1> QED BY Zenon, <1>2, <1>7, <1>8, <1>9 DEF HasLatest

\* revokeLease, or the cleanup of a failed issue, destroys the version it
\* found.
LEMMA DestroyItStep ==
  ASSUME IInv, NEW w \in Workers, NEW r \in Outcomes, DestroyIt(w, r)
  PROVE  IInv'
<1>1. /\ Shapes /\ job \in [Workers -> Job] /\ job[w] \in Job /\ JobOK(job[w]) /\ job[w].at = "destroy"
  BY Zenon DEF IInv, Shapes, DestroyIt, At
<1>2. PICK l \in Leases : l = job[w].id
  BY Zenon, <1>1 DEF Job, JobOK, JobAny
<1>3. /\ l # NoLease /\ LeaseOK(l) /\ (lease[l] = "revoked" \/ Excused(l))
      /\ l \notin Renewable => job[w].version = 1
  BY Zenon, <1>1, <1>2, LeasesAssumption DEF IInv, JobOK, JobAny, JobRevokes, JobClears
<1>4. /\ UNCHANGED <<lease, expired, user, dead, overlap>>
      /\ hurt \subseteq hurt' /\ (r # "ok" => l \in hurt')
  BY Zenon, <1>2, TallyHurt DEF DestroyIt
<1>5. /\ Rows(l)' /\ DOMAIN secret' = Leases /\ (\A m \in Leases : m # l => secret'[m] = secret[m])
      /\ HasLatest(secret'[l]) => HasLatest(secret[l])
      /\ l \notin Renewable /\ r = "ok" => ~HasLatest(secret'[l])
  <2>1. CASE r # "error" /\ CanDestroy(secret[l], job[w].version)
    BY Zenon, <1>1, <1>2, <1>3, <2>1, DestroyedRows DEF DestroyIt, LeaseOK
  <2>2. CASE ~(r # "error" /\ CanDestroy(secret[l], job[w].version))
    <3>1. secret' = secret
      BY Zenon, <1>2, <2>2 DEF DestroyIt
    <3>2. l \notin Renewable /\ r = "ok" => ~HasLatest(secret[l])
      <4>1. SUFFICES ASSUME l \notin Renewable, r = "ok" PROVE Live(secret[l]) = {}
        BY Zenon DEF HasLatest
      <4>2. 1 \notin Live(secret[l])
        BY ZenonT(60), <1>3, <2>2, <4>1 DEF CanDestroy
      <4>3. Live(secret[l]) \subseteq {1}
        <5>1. PICK n \in Nat : Dense(secret[l], n) /\ n <= 1
          BY Zenon, <1>3, <4>1 DEF LeaseOK, Rows
        <5> QED BY <5>1 DEF Dense, Live
      <4> QED BY Zenon, <4>2, <4>3
    <3> QED BY Zenon, <1>1, <1>3, <3>1, <3>2 DEF Shapes, LeaseOK, Rows
  <2> QED BY Zenon, <2>1, <2>2
<1>6. /\ job' = [job EXCEPT ![w] = job'[w]] /\ job'[w] \in Job /\ JobOK(job[w])'
      /\ job'[w].id \in {l, NoLease} /\ job'[w].at \notin {"store", "save"}
      /\ \A m \in Leases : ~Flying(job'[w], m) /\ (m # l => Keeps(w, m))
  <2>1. CASE AfterDestroy(w)
    BY Zenon, <1>1, <1>2, <1>4, <2>1, Returns
  <2>2. CASE job[w].then = "next" /\ Failed(w)
    BY Zenon, <1>1, <1>2, <1>4, <2>2, Onward
  <2> QED BY Zenon, <2>1, <2>2 DEF DestroyIt
<1>7. Shapes'
  BY Zenon, <1>1, <1>4, <1>5, <1>6 DEF Shapes
<1>8. LeaseOK(l)'
  <2>1. user'[l] => lease'[l] # "none" /\ EngineOf[l] \in Managed
    BY Zenon, <1>3, <1>4 DEF LeaseOK
  <2>2. CASE Excused(l)'
    BY Zenon, <1>5, <2>1, <2>2, ExcusedLease
  <2>3. CASE ~Excused(l)'
    <3>1. r = "ok" /\ lease[l] = "revoked" /\ \A x \in Workers \ {w} : job'[x] = job[x]
      BY Zenon, <1>1, <1>3, <1>4, <1>6, <2>3 DEF Excused
    <3>2. ~Dropping(job[w], l)
      BY Zenon, <1>1 DEF Dropping
    <3> QED BY Zenon, <1>4, <1>5, <1>6, <2>1, <3>1, <3>2, RevokedLease
  <2> QED BY <2>2, <2>3
<1>9. Moved(l) /\ \A m \in Leases : m # l => Same(m)
  BY Zenon, <1>4, <1>5 DEF Moved, Same, Active
<1> QED BY Zenon, <1>1, <1>2, <1>4, <1>6, <1>7, <1>8, <1>9, TouchStep
-----------------------------------------------------------------------------
(* Tokens and time.                                                        *)

\* The listing of the cascade: what is active goes into the loop, and what
\* is being issued or renewed is an overlap.
LEMMA CascadeStep ==
  ASSUME IInv, NEW w \in Workers, NEW r \in Outcomes, Cascade(w, r)
  PROVE  IInv'
<1>1. /\ Shapes /\ job \in [Workers -> Job] /\ job[w] \in Job /\ JobOK(job[w]) /\ job[w].at = "cascade"
  BY Zenon DEF IInv, Shapes, Cascade, At
<1>2. PICK k \in Tokens \cup {NoToken} : k = job[w].tok
  BY Zenon, <1>1 DEF Job
<1>3. job[w].id = NoLease /\ job[w].todo = {}
  BY Zenon, <1>1 DEF JobOK, JobAny
<1>4. /\ UNCHANGED <<lease, expired, secret, user, dead>>
      /\ hurt \subseteq hurt' /\ overlap \subseteq overlap' /\ InFlight \subseteq overlap'
      /\ r # "ok" => {l \in Leases : TokenOf[l] = k} \subseteq hurt'
  BY Zenon, <1>2, TallyHurt DEF Cascade
<1>5. PICK T \in SUBSET Leases : T = {l \in Leases : TokenOf[l] = k /\ Active(l)}
  BY Zenon
<1>6. /\ job' = [job EXCEPT ![w] = job'[w]] /\ job'[w] \in Job /\ JobOK(job[w])'
      /\ job'[w].id = NoLease /\ job'[w].at \in {"next", "idle"}
      /\ \A l \in Leases : ~Flying(job'[w], l)
      /\ r = "ok" => job'[w].todo = T /\ ~job'[w].stop
  <2>1. CASE r = "ok"
    <3>1. job' = [job EXCEPT ![w] = job'[w]] /\ job'[w] = [Idle EXCEPT !.at = "next", !.todo = T]
      <4>1. job' = [job EXCEPT ![w] = [Idle EXCEPT !.at = "next", !.todo = T]]
        BY Zenon, <1>2, <1>5, <2>1 DEF Cascade, Become
      <4> QED BY Zenon, <1>1, <4>1
    <3>2. /\ job'[w] \in Job /\ job'[w].at = "next" /\ job'[w].id = NoLease /\ job'[w].then = "next"
          /\ job'[w].todo = T /\ ~job'[w].stop
      BY Zenon, <3>1 DEF Idle, Job, Labels, NoCas
    <3>3. \A l \in job'[w].todo : lease'[l] # "none"
      BY <1>4, <1>5, <3>2 DEF Active
    <3> QED BY Zenon, <3>1, <3>2, <3>3, ToNext
  <2>2. CASE r # "ok"
    <3>1. job' = [job EXCEPT ![w] = job'[w]] /\ job'[w] = Idle
      BY Zenon, <1>1, <2>2 DEF Cascade, Become
    <3> QED BY Zenon, <2>2, <3>1, ToIdle
  <2> QED BY ZenonT(60), <2>1, <2>2
<1>7. Shapes' /\ \A x \in Workers \ {w} : job'[x] = job[x]
  BY Zenon, <1>1, <1>4, <1>6 DEF Shapes
<1>8. \A l \in Leases : Same(l) /\ Moved(l)
  BY Zenon, <1>4 DEF Same, Moved, Active
<1>9. \A l \in Leases : LeaseOK(l)' \/ Excused(l)' \/ Keeps(w, l)
  <2> SUFFICES ASSUME NEW l \in Leases, ~Excused(l)' PROVE LeaseOK(l)' \/ Keeps(w, l)
    BY Zenon
  <2>1. LeaseOK(l) /\ ~Excused(l) /\ l \notin InFlight
    BY Zenon, <1>4 DEF IInv, Excused
  <2>2. ~Dropping(job[w], l) /\ ~Clearing(job[w], l) /\ ~Flying(job'[w], l)
    BY Zenon, <1>1, <1>6 DEF Dropping, Clearing
  <2>3. CASE TokenOf[l] # k
    BY Zenon, <1>1, <1>2, <1>3, <2>2, <2>3 DEF Keeps, Reaching
  <2>4. CASE TokenOf[l] = k
    <3>1. r = "ok"
      BY Zenon, <1>4, <2>4 DEF Excused
    <3>2. CASE Active(l)
      <4>1. l \in job'[w].todo /\ ~job'[w].stop
        BY Zenon, <1>5, <1>6, <2>4, <3>1, <3>2
      <4> QED BY Zenon, <2>2, <4>1 DEF Keeps, Reaching
    <3>3. CASE ~Active(l)
      <4>1. \A x \in Workers : ~Flying(job[x], l) /\ ~Flying(job'[x], l)
        BY Zenon, <1>7, <2>1, <2>2 DEF Flying, InFlight
      <4>2. Rows(l)' /\ (user'[l] => lease'[l] # "none" /\ EngineOf[l] \in Managed) /\ ~Active(l)'
        BY Zenon, <1>4, <2>1, <3>3 DEF LeaseOK, Rows, Active
      <4>3. lease'[l] = "held" => HasLatest(secret'[l])
        BY Zenon, <1>4, <2>1 DEF LeaseOK
      <4>4. lease'[l] = "revoked" =>
              /\ user'[l] => \E x \in Workers : Dropping(job'[x], l)
              /\ l \notin Renewable /\ HasLatest(secret'[l]) => \E x \in Workers : Clearing(job'[x], l)
        BY Zenon, <1>4, <1>7, <2>1, <2>2 DEF LeaseOK
      <4> QED BY <4>1, <4>2, <4>3, <4>4, Zenon DEF LeaseOK, Dropping, Clearing, Flying, Reaching, HasLatest, Live
    <3> QED BY Zenon, <3>2, <3>3
  <2> QED BY Zenon, <2>3, <2>4
<1>10. Alone(w)' /\ \A x \in Workers \ {w} : job[x].at \in {"store", "save"} => job'[w].id # job[x].id
  BY Zenon, <1>6 DEF Alone, IInv, JobOK, JobAny
<1> QED BY Zenon, <1>4, <1>6, <1>7, <1>8, <1>9, <1>10, WorkerStep

\* A step that touches no record: of the leases of a token that is revoked
\* now, either the cascade is to come or they are excused.
LEMMA TokenStep ==
  ASSUME IInv, Shapes', NEW w \in Workers, \A x \in Workers \ {w} : job'[x] = job[x],
         UNCHANGED <<lease, secret, user, overlap>>, hurt \subseteq hurt', expired \subseteq expired',
         JobOK(job[w])', Alone(w)', job'[w] = job[w] \/ job'[w].id = NoLease,
         \A l \in Leases : Excused(l)' \/ Keeps(w, l),
         \A l \in Leases : TokenOf[l] \in dead' /\ TokenOf[l] \notin dead =>
           Excused(l)' \/ Reaching(job'[w], l)
  PROVE  IInv'
<1>1. \A l \in Leases : Same(l) /\ Moved(l)
  BY Zenon DEF Same, Moved, Active
<1>2. \A x \in Workers \ {w} : JobOK(job[x])'
  BY Zenon, <1>1, OthersStay DEF IInv
<1>3. \A x \in Workers \ {w} : Alone(x)'
  <2> SUFFICES ASSUME NEW x \in Workers \ {w}, job[x].at \in {"store", "save"}, NEW y \in Workers \ {x}
               PROVE  job'[y].id # job[x].id
    BY Zenon DEF Alone
  <2>1. job[y].id # job[x].id /\ job[x].id # NoLease
    BY Zenon DEF IInv, Alone, JobOK, JobAny
  <2> QED BY Zenon, <2>1
<1>4. ASSUME NEW l \in Leases PROVE LeaseOK(l)'
  <2>1. LeaseOK(l)
    BY DEF IInv
  <2>2. CASE TokenOf[l] \in dead' /\ TokenOf[l] \notin dead /\ ~Reaching(job'[w], l)
    <3>1. Excused(l)' /\ Rows(l)' /\ (user'[l] => lease'[l] # "none" /\ EngineOf[l] \in Managed)
      BY Zenon, <2>1, <2>2 DEF LeaseOK, Rows
    <3> QED BY Zenon, <3>1, ExcusedLease
  <2>3. CASE ~(TokenOf[l] \in dead' /\ TokenOf[l] \notin dead /\ ~Reaching(job'[w], l))
    BY Zenon, <1>1, <2>1, <2>3, LeaseStays
  <2> QED BY Zenon, <2>2, <2>3
<1> QED BY Zenon, <1>2, <1>3, <1>4 DEF IInv

\* A token is revoked: its leases are for the cascade, or excused by the
\* failure.
LEMMA RevokeTokenStep ==
  ASSUME IInv, NEW w \in Workers, NEW k \in Tokens, NEW r \in Outcomes, RevokeToken(w, k, r)
  PROVE  IInv'
<1>1. /\ Shapes /\ job \in [Workers -> Job] /\ JobOK(job[w]) /\ At(w, "idle") /\ Alone(w)
  BY Zenon DEF IInv, Shapes, RevokeToken
<1>2. /\ UNCHANGED <<lease, expired, secret, user, overlap>> /\ hurt \subseteq hurt'
      /\ dead' \subseteq dead \cup {k} /\ (r # "ok" => \A l \in Leases : TokenOf[l] = k => Excused(l)')
  BY Zenon, TallyHurt DEF RevokeToken, Excused
<1>3. CASE r = "ok"
  <2>1. job' = [job EXCEPT ![w] = job'[w]] /\ job'[w] = [Idle EXCEPT !.at = "cascade", !.tok = k]
    BY Zenon, <1>1, <1>3 DEF RevokeToken, Become
  <2>2. /\ job'[w] \in Job /\ job'[w].at = "cascade" /\ job'[w].id = NoLease /\ job'[w].todo = {}
        /\ job'[w].tok = k
    BY ZenonT(60), <2>1 DEF Idle, Job, Labels, NoCas
  <2>3. JobOK(job[w])' /\ Alone(w)'
    BY Zenon, <2>2 DEF JobOK, JobAny, JobIssues, JobRevokes, JobClears, Alone
  <2>4. Shapes' /\ \A x \in Workers \ {w} : job'[x] = job[x]
    BY Zenon, <1>1, <1>2, <2>1, <2>2 DEF Shapes
  <2>5. \A l \in Leases : Keeps(w, l)
    BY Zenon, <1>1, <2>2, FromIdle DEF Keeps, Flying, IssueLabels, RenewLabels
  <2>6. \A l \in Leases : TokenOf[l] \in dead' /\ TokenOf[l] \notin dead => Reaching(job'[w], l)
    BY Zenon, <1>2, <2>2 DEF Reaching
  <2> QED BY Zenon, <1>2, <2>2, <2>3, <2>4, <2>5, <2>6, TokenStep
<1>4. CASE r # "ok"
  <2>1. job' = job
    BY Zenon, <1>4 DEF RevokeToken
  <2>2. JobOK(job[w])' /\ Alone(w)' /\ Shapes'
    <3>1. Alone(w)' /\ Shapes'
      BY ZenonT(60), <1>1, <1>2, <2>1 DEF Shapes, Alone
    <3>2. JobOK(job[w])'
      BY Zenon, <1>1, <1>2, <2>1 DEF At, JobOK, JobAny, JobIssues, JobRevokes, JobClears
    <3> QED BY ZenonT(60), <3>1, <3>2
  <2>3. \A l \in Leases : Keeps(w, l)
    BY <2>1 DEF Keeps
  <2> QED BY Zenon, <1>2, <1>4, <2>1, <2>2, <2>3, TokenStep
<1> QED BY Zenon, <1>3, <1>4

\* Time passes for a lease.
LEMMA ExpireStep ==
  ASSUME IInv, NEW l \in Leases, Expire(l)
  PROVE  IInv'
<1>1. UNCHANGED <<lease, secret, user, dead, job, hurt, overlap>> /\ expired' = expired \cup {l} /\ lease[l] = "held"
  BY Zenon DEF Expire, Active
<1>2. PICK w \in Workers : TRUE
  BY Zenon, LeasesAssumption
<1>3. JobOK(job[w])' /\ Alone(w)' /\ Shapes'
  BY Zenon, <1>1 DEF IInv, Shapes, Alone, JobOK, JobAny, JobIssues, JobRevokes, JobClears, Excused
<1>4. \A m \in Leases : Keeps(w, m)
  BY Zenon, <1>1 DEF Keeps
<1> QED BY Zenon, <1>1, <1>3, <1>4, TokenStep

\* Every step of a worker keeps the invariant.
LEMMA WorkersStep ==
  ASSUME IInv, NEW w \in Workers, Start(w) \/ Continue(w) \/ Crash(w)
  PROVE  IInv'
<1>1. CASE Start(w)
  BY Zenon, <1>1, IssueStep, RenewStep, SweepsStart, RevokeTokenStep DEF Start, RenewExpiring
<1>2. CASE GenerateCredentials(w)
  BY Zenon, <1>2, IssueStoreStep, IssueSaveStep, IssueUnleaseStep, IssueCreateStep DEF GenerateCredentials
<1>3. CASE Renewal(w)
  BY Zenon, <1>3, RenewCredsStep, RenewSaveStep, RenewStoreStep DEF Renewal
<1>4. CASE RevokeLease(w)
  BY Zenon, <1>4, NextLeaseStep, ReadCredsStep, FindStep, MarkStep, DropStep, DestroyItStep DEF RevokeLease
<1>5. CASE SweepDone(w) \/ \E r \in Outcomes : Cascade(w, r)
  BY Zenon, <1>5, SweepDoneStep, CascadeStep
<1>6. CASE Crash(w)
  BY Zenon, <1>6, CrashStep
<1> QED BY Zenon, <1>1, <1>2, <1>3, <1>4, <1>5, <1>6 DEF Continue

\* Nothing happens.
LEMMA Stuttering == ASSUME IInv, UNCHANGED vars PROVE IInv'
<1>1. UNCHANGED <<lease, secret, user, dead, job, hurt, overlap, expired>>
  BY Zenon DEF vars
<1>2. PICK w \in Workers : TRUE
  BY Zenon, LeasesAssumption
<1>3. JobOK(job[w])' /\ Alone(w)' /\ Shapes'
  BY Zenon, <1>1 DEF IInv, Shapes, Alone, JobOK, JobAny, JobIssues, JobRevokes, JobClears, Excused
<1>4. \A m \in Leases : Keeps(w, m)
  BY <1>1 DEF Keeps
<1> QED BY Zenon, <1>1, <1>3, <1>4, TokenStep

\* The inductive invariant holds in every state: whatever is left of a lease
\* has a worker that will take it away, or a recorded excuse.
THEOREM Inductive == Spec => []IInv
<1>1. IInv /\ [Next]_vars => IInv'
  BY Zenon, WorkersStep, ExpireStep, Stuttering DEF Next
<1> QED BY <1>1, Initially, PTL DEF Spec

\* A user in the target database always has a lease record, in every state
\* and whatever fails: no user exists that no sweep can find.
THEOREM UserHasLeaseAlways == Spec => []UserHasLease
<1>1. IInv => UserHasLease
  BY Zenon DEF IInv, LeaseOK, UserHasLease
<1> QED BY <1>1, Inductive, PTL

\* A revocation that no failure and no renewal disturbed takes user and
\* credential away, and that of a token leaves no active lease: for any
\* number of workers that revoke at once.
THEOREM RevocationReachesAlways == Spec => []RevocationReaches
<1>1. IInv => RevocationReaches
  <2> SUFFICES ASSUME IInv, NEW l \in Leases \ (hurt \cup overlap), Quiet(l)
               PROVE  /\ lease[l] = "revoked" => ~user[l] /\ (l \notin Renewable => ~HasLatest(secret[l]))
                      /\ TokenOf[l] \in dead => ~Active(l)
    BY Zenon DEF RevocationReaches, RevocationComplete, CascadeReaches
  <2>1. \A w \in Workers : ~Dropping(job[w], l) /\ ~Clearing(job[w], l) /\ ~Reaching(job[w], l)
    BY Zenon DEF Quiet, Dropping, Clearing, Reaching
  <2>2. LeaseOK(l) /\ ~Excused(l)
    BY Zenon DEF IInv, Excused
  <2> QED BY Zenon, <2>1, <2>2 DEF LeaseOK
<1> QED BY <1>1, Inductive, PTL

\* The record of a lease changes only as Moved says, so a revoked lease is
\* held again only when a renewal was under way as it was revoked.
THEOREM RevokedForGoodAlways == Spec => RevokedForGood
<1> DEFINE A == \A l \in Leases \ overlap : lease[l] = "revoked" => lease'[l] = "revoked"
<1>1. ASSUME IInv, [Next]_vars PROVE [A]_vars
  <2>1. CASE UNCHANGED lease
    BY Zenon, <2>1
  <2>2. ASSUME NEW w \in Workers, NEW r \in Outcomes, IssueSave(w, r) \/ RenewSave(w, r) PROVE A
    <3>1. Shapes /\ job[w] \in Job /\ JobOK(job[w]) /\ job[w].at \in {"save", "rsave"}
      BY Zenon, <1>1, <2>2 DEF IInv, Shapes, IssueSave, RenewSave, At
    <3>2. PICK l \in Leases : l = job[w].id
      BY Zenon, <3>1 DEF Job, JobOK, JobAny
    <3>3. lease[l] # "revoked" \/ l \in overlap
      BY Zenon, <3>1, <3>2 DEF JobOK, JobIssues
    <3>4. \A m \in Leases : m # l => lease'[m] = lease[m]
      BY Zenon, <2>2, <3>1, <3>2 DEF IssueSave, RenewSave, Save, Shapes
    <3> QED BY Zenon, <3>3, <3>4
  <2>3. ASSUME NEW w \in Workers, NEW r \in Outcomes, IssueUnlease(w, r) \/ Mark(w, r) PROVE A
    <3>1. lease' = lease \/ lease' = [lease EXCEPT ![job[w].id] = "revoked"]
      BY Zenon, <2>3 DEF IssueUnlease, Mark, Revoke
    <3>2. lease \in [Leases -> {"none", "held", "revoked"}]
      BY Zenon, <1>1 DEF IInv, Shapes
    <3> QED BY Zenon, <3>1, <3>2
  <2>4. ASSUME NEW w \in Workers, Start(w) PROVE UNCHANGED lease
    BY Zenon, <2>4 DEF Start, Issue, RenewExpiring, Renew, RevokeOne, BulkRevoke, CleanupExpired, Tidy, Sweep,
      RevokeToken
  <2>5. ASSUME NEW w \in Workers, Continue(w) PROVE A \/ UNCHANGED lease
    BY Zenon, <2>2, <2>3, <2>5 DEF Continue, GenerateCredentials, Renewal, RevokeLease, SweepDone, Cascade,
      IssueStore, IssueCreate, RenewCreds, RenewStore, NextLease, ReadCreds, Find, Drop, DestroyIt
  <2>6. ASSUME NEW w \in Workers, Crash(w) PROVE UNCHANGED lease
    BY Zenon, <2>6 DEF Crash
  <2>7. ASSUME NEW l \in Leases, Expire(l) PROVE UNCHANGED lease
    BY Zenon, <2>7 DEF Expire
  <2>8. CASE UNCHANGED vars
    BY Zenon, <2>8
  <2> HIDE DEF A
  <2>9. A \/ UNCHANGED lease \/ UNCHANGED vars
    BY Zenon, <1>1, <2>4, <2>5, <2>6, <2>7, <2>8 DEF Next
  <2> QED BY Zenon, <2>1, <2>9
<1>2. Spec => [][A]_vars
  BY <1>1, Inductive, PTL DEF Spec
<1> QED BY Zenon, <1>2 DEF RevokedForGood

\* However requests overlap, an engine has no more active leases than the
\* quota and one for every other worker, which had counted before the lease
\* was saved (CheckMaxLeases, Issue).
THEOREM QuotaBoundAlways == Spec => []QuotaBound
<1>1. Init => Quota
  BY QuotaInitially
<1>2. IInv /\ Quota /\ [Next]_vars => Quota'
  BY QuotaStep
<1>3. Quota => QuotaBound
  BY QuotaBounds
<1> QED
  BY <1>1, <1>2, <1>3, Inductive, PTL DEF Spec
=============================================================================
