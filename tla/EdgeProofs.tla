----------------------------- MODULE EdgeProofs -----------------------------
(***************************************************************************)
(* The parts around the data plane, for every value of their constants:    *)
(* the memory of signed reports, the times of leases, the operator's       *)
(* certificate, the ACME client and the PKI engine.                        *)
(***************************************************************************)
EXTENDS Replay, Tuning, Operator, ACME, PKI, TLAPS

-----------------------------------------------------------------------------
(* Signed reports.                                                         *)

ReplayTypes ==
  /\ age \in [Reports -> Int] /\ entry \in [Stores -> [Reports -> 0 .. Skew]]
  /\ taken \in [Reports -> Nat]

\* A report that was taken, and not by way of an exception, is remembered in
\* the cache until its stamp is too old.
Remembered(r) == taken[r] >= 1 => entry["cache"][r] + age[r] > Skew

ReplayInv == ReplayTypes /\ \A r \in Reports \ waived : taken[r] <= 1 /\ Remembered(r)

\* Nothing is taken at first.
LEMMA ReplayInitially == ReplayInit => ReplayInv
  BY ReplayAssumption DEF ReplayInit, ReplayInv, ReplayTypes, Remembered

\* One look at a store: what it changes.
LEMMA SubmitStep ==
  ASSUME ReplayInv, NEW d \in Doors, NEW r \in Reports, Submit(d, r)
  PROVE  ReplayInv'
<1>1. PICK reached \in BOOLEAN :
        LET place == IF reached THEN "cache" ELSE d
        IN  /\ InSkew(r) /\ MarkSeen(place, r)
            /\ IF entry[place][r] = 0
               THEN /\ taken' = [taken EXCEPT ![r] = IF @ < 2 THEN @ + 1 ELSE @]
                    /\ waived' = IF reached /\ age[r] > 0 THEN waived ELSE waived \cup {r}
               ELSE UNCHANGED <<taken, waived>>
            /\ UNCHANGED age
  BY Zenon DEF Submit
<1> DEFINE place == IF reached THEN "cache" ELSE d
<1>2. place \in Stores /\ "cache" \in Stores /\ (reached => place = "cache")
  BY DEF Stores
<1>3. entry' = [entry EXCEPT ![place][r] = Skew] /\ age' = age /\ InSkew(r)
  BY Zenon, <1>1 DEF MarkSeen, SeenTTL
<1>4. IF entry[place][r] = 0
      THEN /\ taken' = [taken EXCEPT ![r] = IF @ < 2 THEN @ + 1 ELSE @]
           /\ waived' = IF reached /\ age[r] > 0 THEN waived ELSE waived \cup {r}
      ELSE UNCHANGED <<taken, waived>>
  BY Zenon, <1>1
<1> HIDE DEF place
<1>5. ReplayTypes
  BY Zenon DEF ReplayInv
<1>6. ReplayTypes'
  BY <1>2, <1>3, <1>4, <1>5, ReplayAssumption DEF ReplayTypes
<1>7. waived \subseteq waived' /\ (waived' = waived \/ waived' = waived \cup {r})
  BY <1>4
<1>8. ASSUME NEW q \in Reports \ waived' PROVE taken'[q] <= 1 /\ Remembered(q)'
  <2>1. taken[q] <= 1 /\ Remembered(q) /\ q \in Reports
    BY <1>7, <1>8 DEF ReplayInv
  <2>2. CASE q # r
    BY <1>2, <1>3, <1>4, <1>5, <2>1, <2>2 DEF ReplayTypes, Remembered
  <2>3. CASE q = r /\ entry[place][r] # 0
    <3>1. taken' = taken
      BY <1>4, <2>3
    <3>2. taken[r] >= 1 => age[r] + entry["cache"][r] > Skew
      BY <1>2, <1>5, <2>1, <2>3 DEF Remembered, ReplayTypes
    <3>3. entry'["cache"][r] = (IF place = "cache" THEN Skew ELSE entry["cache"][r])
      BY <1>2, <1>3, <1>5 DEF ReplayTypes
    <3>4. taken[r] >= 1 => entry'["cache"][r] + age[r] > Skew
      <4>1. entry["cache"][r] \in 0 .. Skew /\ age[r] \in Int /\ Skew \in Nat /\ taken[r] \in Nat
        BY <1>2, <1>5, ReplayAssumption DEF ReplayTypes
      <4> QED
        BY <3>2, <3>3, <4>1
    <3> QED
      BY <1>3, <2>1, <2>3, <3>1, <3>4 DEF Remembered
  <2>4. CASE q = r /\ entry[place][r] = 0
    <3>1. reached /\ age[r] > 0 /\ taken' = [taken EXCEPT ![r] = IF @ < 2 THEN @ + 1 ELSE @] /\ place = "cache"
      BY <1>2, <1>4, <1>8, <2>4
    <3>2. /\ entry["cache"][r] = 0 /\ age[r] \in Int /\ Skew \in Nat /\ taken[r] \in Nat /\ age[r] <= Skew
      BY <1>3, <1>5, <2>4, <3>1, ReplayAssumption DEF ReplayTypes, InSkew
    <3>3. taken[r] = 0
      BY <2>1, <2>4, <3>2 DEF Remembered
    <3>4. taken'[r] = 1
      BY <1>5, <3>1, <3>3 DEF ReplayTypes
    <3>5. entry'["cache"][r] = Skew
      BY <1>2, <1>3, <1>5, <3>1 DEF ReplayTypes
    <3> QED
      BY <1>3, <2>4, <3>1, <3>2, <3>4, <3>5 DEF Remembered
  <2> QED
    BY <2>2, <2>3, <2>4
<1> QED
  BY Zenon, <1>6, <1>8 DEF ReplayInv

\* A tick makes a report older and its entry shorter by the same.
LEMMA ReplayTickStep ==
  ASSUME ReplayInv, ReplayTick
  PROVE  ReplayInv'
<1>1. ReplayTypes /\ "cache" \in Stores
  BY DEF ReplayInv, Stores
<1>2. ReplayTypes'
  BY <1>1, ReplayAssumption DEF ReplayTypes, ReplayTick
<1>3. ASSUME NEW r \in Reports \ waived' PROVE taken'[r] <= 1 /\ Remembered(r)'
  <2>1. taken' = taken /\ waived' = waived
    BY DEF ReplayTick
  <2>2. taken[r] <= 1 /\ (taken[r] >= 1 => entry["cache"][r] + age[r] > Skew)
    BY <1>3, <2>1 DEF ReplayInv, Remembered
  <2>3. /\ entry'["cache"][r] = (IF entry["cache"][r] = 0 THEN 0 ELSE entry["cache"][r] - 1)
        /\ age'[r] = (IF age[r] > Skew THEN age[r] ELSE age[r] + 1)
    BY <1>1, <1>3 DEF ReplayTick
  <2>4. entry["cache"][r] \in 0 .. Skew /\ age[r] \in Int /\ Skew \in Nat
    BY <1>1, <1>3, ReplayAssumption DEF ReplayTypes
  <2>5. taken[r] >= 1 => entry'["cache"][r] + age'[r] > Skew
    BY <2>2, <2>3, <2>4
  <2> QED
    BY Zenon, <2>1, <2>2, <2>5 DEF Remembered
<1> QED
  BY Zenon, <1>2, <1>3 DEF ReplayInv

\* Every step.
LEMMA ReplayPreserved == ReplayInv /\ [ReplayNext]_replayVars => ReplayInv'
<1>1. ASSUME ReplayInv, UNCHANGED replayVars PROVE ReplayInv'
  BY Zenon, <1>1 DEF replayVars, ReplayInv, ReplayTypes, Remembered
<1> QED
  BY Zenon, <1>1, SubmitStep, ReplayTickStep DEF ReplayNext

\* Through any number of processes and for any skew a report is taken once,
\* but for a stamp that is ahead and a cache that does not answer (MarkSeen).
THEOREM ReportedOnceAlways == ReplaySpec => []ReportedOnce
<1>1. ReplayInv => ReportedOnce
  BY Zenon DEF ReplayInv, ReportedOnce
<1> QED
  BY <1>1, ReplayInitially, ReplayPreserved, PTL DEF ReplaySpec
-----------------------------------------------------------------------------
(* The times of a lease.                                                   *)

TuningTypes ==
  /\ setting \in [ssh : BOOLEAN, ttl : Nat, default : Nat, max : Nat, period : Nat]
  /\ held \in [left : Nat, ttl : Nat, cap : Nat, same : BOOLEAN]

\* What a lease was given when its role was last as it is now: no more than
\* the role's limit, and its period where it has one.
Granted(t, h) ==
  /\ h.left <= h.ttl /\ h.ttl <= t.max
  /\ t.period > 0 => h.ttl = IF t.period > t.max THEN t.max ELSE t.period

TuningInv == TuningTypes /\ (held.same => Granted(TuningOf(setting), held))

\* The settings a role comes to are numbers.
LEMMA TuningType ==
  ASSUME NEW s \in [ssh : BOOLEAN, ttl : Nat, default : Nat, max : Nat, period : Nat]
  PROVE  TuningOf(s) \in [default : Nat, max : Nat, period : Nat]
  BY TuningAssumption DEF TuningOf, LeaseTuningFromDatabaseRole, LeaseTuningFromSSHRole, Or

\* Nothing is held at first.
LEMMA TuningInitially == TuningInit => TuningInv
  BY DEF TuningInit, TuningInv, TuningTypes, NoSetting, NoHeld

\* What a grant of time leaves is within what the role gives.
LEMMA GrantStep ==
  ASSUME TuningInv, NEW ttl \in Nat,
         held' = [left |-> ttl, ttl |-> ttl, cap |-> TuningOf(setting).max, same |-> TRUE], setting' = setting,
         ttl <= TuningOf(setting).max,
         TuningOf(setting).period > 0 =>
           ttl = IF TuningOf(setting).period > TuningOf(setting).max THEN TuningOf(setting).max
                 ELSE TuningOf(setting).period
  PROVE  TuningInv'
<1> DEFINE t == TuningOf(setting)
<1>1. t \in [default : Nat, max : Nat, period : Nat]
  BY Zenon, TuningType DEF TuningInv, TuningTypes
<1>2. TuningOf(setting)' = t
  BY Zenon
<1> HIDE DEF t
<1>3. /\ t.max \in Nat /\ ttl <= t.max /\ held' = [left |-> ttl, ttl |-> ttl, cap |-> t.max, same |-> TRUE]
      /\ t.period > 0 => ttl = IF t.period > t.max THEN t.max ELSE t.period
  BY <1>1 DEF t
<1>4. Granted(t, held')
  BY <1>3 DEF Granted
<1>5. TuningTypes'
  BY <1>3 DEF TuningInv, TuningTypes
<1> QED
  BY Zenon, <1>2, <1>4, <1>5 DEF TuningInv

\* Every step.
LEMMA TuningPreserved ==
  ASSUME TuningInv, [TuningNext]_tuningVars
  PROVE  TuningInv'
<1> DEFINE t == TuningOf(setting)
<1>0. t \in [default : Nat, max : Nat, period : Nat] /\ TuningTypes
  BY Zenon, TuningType DEF TuningInv, TuningTypes
<1>1. CASE SaveSetting
  <2>1. held' = [held EXCEPT !.same = FALSE]
    BY Zenon, <1>1 DEF SaveSetting
  <2>2. setting' \in [ssh : BOOLEAN, ttl : Nat, default : Nat, max : Nat, period : Nat]
    <3>1. PICK ssh \in BOOLEAN, ttl, default, max, period \in Ttls :
            LET raw == [ssh |-> ssh, ttl |-> ttl, default |-> default, max |-> max, period |-> period]
                s == IF ssh THEN NormalizeSSH(raw) ELSE NormalizeDatabase(raw)
            IN /\ held.left > 0 => ssh = setting.ssh
               /\ s.ttl > 0
               /\ setting' = s
      BY Zenon, <1>1 DEF SaveSetting
    <3>2. ttl \in Nat /\ default \in Nat /\ max \in Nat /\ period \in Nat /\ Hour \in Nat
      BY TuningAssumption
    <3> QED
      BY Zenon, <3>1, <3>2 DEF NormalizeSSH, NormalizeDatabase, Or
  <2>3. held' \in [left : Nat, ttl : Nat, cap : Nat, same : BOOLEAN] /\ held'.same = FALSE
    BY Zenon, <1>0, <2>1 DEF TuningTypes
  <2> QED
    BY Zenon, <2>2, <2>3 DEF TuningInv, TuningTypes
<1>2. ASSUME NEW w \in Wishes, IssueFor(w) PROVE TuningInv'
  <2> DEFINE ttl == ResolveIssueTTL(t, w)
  <2>1. /\ ttl > 0 /\ held' = [left |-> ttl, ttl |-> ttl, cap |-> t.max, same |-> TRUE] /\ setting' = setting
    BY Zenon, <1>2 DEF IssueFor
  <2> HIDE DEF t
  <2>2. /\ ttl \in Nat /\ ttl <= t.max
        /\ t.period > 0 => ttl = IF t.period > t.max THEN t.max ELSE t.period
    BY <1>0, <2>1, TuningAssumption DEF ResolveIssueTTL, Or
  <2> HIDE DEF ttl
  <2> QED
    BY Zenon, <2>1, <2>2, GrantStep DEF t
<1>3. ASSUME NEW w \in Wishes, RenewFor(w) PROVE TuningInv'
  <2> DEFINE ttl == ResolveRenewTTL(t, w, held.ttl)
  <2>1. held' = [left |-> ttl, ttl |-> ttl, cap |-> t.max, same |-> TRUE] /\ setting' = setting
    BY Zenon, <1>3 DEF RenewFor
  <2>2. held.ttl \in Nat
    BY <1>0 DEF TuningTypes
  <2> HIDE DEF t
  <2>3. /\ ttl \in Nat /\ ttl <= t.max
        /\ t.period > 0 => ttl = IF t.period > t.max THEN t.max ELSE t.period
    BY <1>0, <2>2, TuningAssumption DEF ResolveRenewTTL, Or
  <2> HIDE DEF ttl
  <2> QED
    BY Zenon, <2>1, <2>3, GrantStep DEF t
<1>4. CASE Pass
  <2>1. held.left > 0 /\ held' = [held EXCEPT !.left = @ - 1] /\ setting' = setting
    BY Zenon, <1>4 DEF Pass
  <2>2. held' \in [left : Nat, ttl : Nat, cap : Nat, same : BOOLEAN]
    BY <1>0, <2>1 DEF TuningTypes
  <2>3. held'.same = held.same /\ held'.ttl = held.ttl /\ held'.left <= held.left
    BY <1>0, <2>1 DEF TuningTypes
  <2>4. held.same => Granted(t, held')
    <3>1. held.same => Granted(t, held)
      BY Zenon DEF TuningInv
    <3>2. held.left \in Nat /\ held'.left \in Nat /\ held.ttl \in Nat
      BY <1>0, <2>2 DEF TuningTypes
    <3> HIDE DEF t
    <3> QED
      BY <2>3, <3>1, <3>2 DEF Granted
  <2>5. TuningOf(setting)' = t
    BY Zenon, <2>1
  <2>6. setting' \in [ssh : BOOLEAN, ttl : Nat, default : Nat, max : Nat, period : Nat]
    BY Zenon, <1>0, <2>1 DEF TuningTypes
  <2> QED
    BY Zenon, <2>2, <2>3, <2>4, <2>5, <2>6 DEF TuningInv, TuningTypes
<1>5. CASE UNCHANGED tuningVars
  BY Zenon, <1>5 DEF tuningVars, TuningInv, TuningTypes
<1> QED
  BY Zenon, <1>1, <1>2, <1>3, <1>4, <1>5 DEF TuningNext

\* For every setting of a role and every wish: renewing without asking for a
\* time takes none away while the role is as it was (ResolveRenewTTL).
THEOREM RenewalKeepsAlways == TuningSpec => RenewalKeeps
<1>1. ASSUME TuningInv, \E w \in {0} : RenewFor(w), held.same PROVE held'.left >= held.left
  <2> DEFINE t == TuningOf(setting)
             ttl == ResolveRenewTTL(t, 0, held.ttl)
  <2>1. held' = [left |-> ttl, ttl |-> ttl, cap |-> t.max, same |-> TRUE] /\ Granted(t, held)
    BY Zenon, <1>1 DEF RenewFor, TuningInv
  <2>2. t \in [default : Nat, max : Nat, period : Nat] /\ held.left \in Nat /\ held.ttl \in Nat
    <3>1. t \in [default : Nat, max : Nat, period : Nat] /\ TuningTypes
      BY Zenon, <1>1, TuningType DEF TuningInv, TuningTypes
    <3> HIDE DEF t
    <3> QED
      BY <3>1 DEF TuningTypes
  <2> HIDE DEF t
  <2>3. ttl >= held.left
    BY <2>1, <2>2 DEF Granted, ResolveRenewTTL, Or
  <2>4. held'.left = ttl
    BY <2>1
  <2> QED
    BY <2>3, <2>4
<1>2. TuningInv /\ [TuningNext]_tuningVars => TuningInv'
  BY TuningPreserved
<1>3. TuningInv => [(\E w \in {0} : RenewFor(w)) /\ held.same => held'.left >= held.left]_tuningVars
  BY Zenon, <1>1
<1> QED
  BY <1>2, <1>3, TuningInitially, PTL DEF TuningSpec, RenewalKeeps
-----------------------------------------------------------------------------
(* The operator's certificate.                                             *)

Crts == [names : Hosts \cup {"none"}, left : 0 .. Duration]
Works == [pc : {"idle", "issue", "secret", "status"}, names : Hosts \cup {"none"}, crt : Crts, prior : Crts,
          stale : BOOLEAN]

CertTypes ==
  /\ hosts \in Hosts /\ work \in Works /\ secret \in [owner : {"none", "cert", "other"}, crt : Crts]
  /\ cert \in [names : Hosts, issuer : Issuers, crt : Crts, ready : BOOLEAN]

\* A certificate on its way is new; once it is in the Secret it is there
\* until the status follows, or the Secret is gone.
OnItsWay ==
  /\ work.pc \in {"secret", "status"} => work.crt.left = Duration
  /\ work.pc = "status" /\ secret.owner = "cert" => secret.crt = work.crt

CertInv == CertTypes /\ OnItsWay /\ SecretOutlastsStatus

\* No certificate and no work are values of these sets.
LEMMA NothingYet == NoCrt \in Crts /\ NoWork \in Works /\ NoWork.pc = "idle" /\ Duration \in Nat /\ NoCrt.left = 0
<1>1. Duration \in Nat
  BY OperatorAssumption
<1>2. NoCrt \in Crts
  BY <1>1 DEF NoCrt, Crts
<1> QED
  BY <1>1, <1>2 DEF NoWork, Works, NoCrt

\* Nothing is issued at first.
LEMMA CertInitially == OperatorInit => CertInv
<1> SUFFICES ASSUME OperatorInit PROVE CertInv
  OBVIOUS
<1>1. hosts \in Hosts /\ cert \in [names : {hosts}, issuer : Issuers, crt : {NoCrt}, ready : {FALSE}]
  BY Zenon DEF OperatorInit
<1>2. secret = [owner |-> "none", crt |-> NoCrt] /\ work = NoWork
  BY Zenon DEF OperatorInit
<1>3. secret \in [owner : {"none", "cert", "other"}, crt : Crts] /\ secret.owner = "none"
  BY <1>2, NothingYet
<1>4. cert \in [names : Hosts, issuer : Issuers, crt : Crts, ready : BOOLEAN]
  BY Zenon, <1>1, NothingYet
<1>5. work \in Works /\ work.pc = "idle"
  BY Zenon, <1>2, NothingYet
<1> QED
  BY <1>1, <1>3, <1>4, <1>5 DEF CertInv, CertTypes, OnItsWay, SecretOutlastsStatus

\* A step that leaves certificate and Secret as they are, and work that is
\* not yet, or no more, under way.
LEMMA QuietStep ==
  ASSUME CertInv, hosts' \in Hosts, work' \in Works, work'.pc \in {"idle", "issue"},
         secret' = secret, cert' \in [names : Hosts, issuer : Issuers, crt : Crts, ready : BOOLEAN],
         cert'.crt = cert.crt
  PROVE  CertInv'
<1>1. CertTypes'
  BY Zenon DEF CertInv, CertTypes
<1>2. OnItsWay'
  BY DEF OnItsWay
<1>3. SecretOutlastsStatus'
  BY Zenon DEF CertInv, SecretOutlastsStatus
<1> QED
  BY Zenon, <1>1, <1>2, <1>3 DEF CertInv

\* The fields of the four resources.
LEMMA CertFields ==
  ASSUME CertInv
  PROVE  /\ hosts \in Hosts /\ work \in Works /\ secret \in [owner : {"none", "cert", "other"}, crt : Crts]
         /\ cert \in [names : Hosts, issuer : Issuers, crt : Crts, ready : BOOLEAN]
         /\ cert.crt \in Crts /\ work.crt \in Crts /\ work.prior \in Crts /\ secret.crt \in Crts
         /\ cert.names \in Hosts /\ work.names \in Hosts \cup {"none"} /\ cert.issuer \in Issuers
<1>1. CertTypes
  BY Zenon DEF CertInv
<1> QED
  BY <1>1 DEF CertTypes, Works

\* A reconcile starts, or finds nothing to do.
LEMMA ReconcileStep ==
  ASSUME CertInv, Reconcile
  PROVE  CertInv'
<1>1. hosts' = hosts /\ cert' = cert /\ secret' = secret /\ work.pc = "idle"
  BY Zenon DEF Reconcile
<1>2. work' = work \/ work' = [NoWork EXCEPT !.pc = "issue", !.names = cert.names, !.prior = cert.crt]
  BY Zenon DEF Reconcile
<1>3. work' \in Works /\ work'.pc \in {"idle", "issue"}
  BY Zenon, <1>1, <1>2, CertFields, NothingYet DEF Works
<1> QED
  BY Zenon, <1>1, <1>3, CertFields, QuietStep

\* It fails before a certificate is there.
LEMMA failCertStep ==
  ASSUME CertInv, failCert
  PROVE  CertInv'
<1>1. /\ hosts' = hosts /\ secret' = secret /\ work' = NoWork
      /\ cert' = cert \/ cert' = [cert EXCEPT !.ready = FALSE]
  BY Zenon DEF failCert
<1>2. cert' \in [names : Hosts, issuer : Issuers, crt : Crts, ready : BOOLEAN] /\ cert'.crt = cert.crt
  BY Zenon, <1>1, CertFields
<1>3. work' \in Works /\ work'.pc \in {"idle", "issue"}
  BY Zenon, <1>1, NothingYet
<1> QED
  BY Zenon, <1>1, <1>2, <1>3, CertFields, QuietStep

\* Every issuer gives a certificate of the full duration.
LEMMA IssuedType ==
  ASSUME CertInv, Mode # "error"
  PROVE  /\ IssueFromResolved \in Crts /\ IssueFromResolved.left = Duration
         /\ VaultRenew(work.prior) \in Crts /\ VaultRenew(work.prior).left = Duration
<1>1. Mode \in {"vault", "selfsigned", "acme"}
  <2>1. cert.issuer \in [legacy : BOOLEAN, modes : SUBSET {"vault", "selfsigned", "acme"}]
    BY Zenon, CertFields, OperatorAssumption
  <2>2. cert.issuer.modes \subseteq {"vault", "selfsigned", "acme"}
    BY <2>1
  <2> QED
    BY <2>2 DEF Mode, resolveMulti
<1>2. work.names \in Hosts \cup {"none"} /\ work.prior.names \in Hosts \cup {"none"} /\ Duration \in 0 .. Duration
  BY CertFields, NothingYet DEF Crts
<1>3. IssueFromResolved = [names |-> work.names, left |-> Duration]
  BY <1>1 DEF IssueFromResolved, VaultIssue, SelfSignedIssue, issueACME
<1>4. VaultRenew(work.prior) = [names |-> work.prior.names, left |-> Duration]
  BY Zenon DEF VaultRenew
<1> QED
  BY <1>2, <1>3, <1>4 DEF Crts

\* A certificate is issued or renewed.
LEMMA issueStep ==
  ASSUME CertInv, issueOrRenewMulti
  PROVE  CertInv'
<1>1. PICK crt : /\ crt = VaultRenew(work.prior) \/ crt = IssueFromResolved
                 /\ work' = [work EXCEPT !.pc = "secret", !.crt = crt]
  BY Zenon DEF issueOrRenewMulti
<1>2. hosts' = hosts /\ cert' = cert /\ secret' = secret /\ Mode # "error"
  BY Zenon DEF issueOrRenewMulti
<1>3. crt \in Crts /\ crt.left = Duration
  BY Zenon, <1>1, <1>2, IssuedType
<1>4. work' \in Works /\ work'.pc = "secret" /\ work'.crt = crt
  BY Zenon, <1>1, <1>3, CertFields DEF Works
<1>5. CertTypes'
  BY Zenon, <1>2, <1>4, CertFields DEF CertTypes
<1>6. OnItsWay'
  BY <1>3, <1>4 DEF OnItsWay
<1>7. SecretOutlastsStatus'
  BY Zenon, <1>2 DEF CertInv, SecretOutlastsStatus
<1> QED
  BY Zenon, <1>5, <1>6, <1>7 DEF CertInv

\* It is written to the Secret, or dropped.
LEMMA applyStep ==
  ASSUME CertInv, applyTLSSecret
  PROVE  CertInv'
<1>1. hosts' = hosts /\ cert' = cert /\ work.pc = "secret"
  BY Zenon DEF applyTLSSecret
<1>2. CASE secret' = secret /\ work' = NoWork
  BY Zenon, <1>1, <1>2, CertFields, NothingYet, QuietStep
<1>3. CASE ApplySecret /\ work' = [work EXCEPT !.pc = "status"]
  <2>1. work.crt.left = Duration
    BY <1>1 DEF CertInv, OnItsWay
  <2>2. secret' = [owner |-> "cert", crt |-> work.crt]
    BY Zenon, <1>3 DEF ApplySecret
  <2>3. work' \in Works /\ work'.pc = "status" /\ work'.crt = work.crt
    BY <1>3, CertFields DEF Works
  <2>4. secret' \in [owner : {"none", "cert", "other"}, crt : Crts] /\ secret'.crt = work.crt
    BY <2>2, CertFields
  <2>5. CertTypes'
    BY Zenon, <1>1, <2>3, <2>4, CertFields DEF CertTypes
  <2>6. OnItsWay'
    BY <2>1, <2>3, <2>4 DEF OnItsWay
  <2>7. SecretOutlastsStatus'
    <3>1. cert.crt.left \in 0 .. Duration
      BY CertFields DEF Crts
    <3> QED
      BY SMTT(30), <1>1, <2>1, <2>4, <3>1, NothingYet DEF SecretOutlastsStatus
  <2> QED
    BY Zenon, <2>5, <2>6, <2>7 DEF CertInv
<1> QED
  BY Zenon, <1>2, <1>3 DEF applyTLSSecret

\* The status follows, or the resource moved on.
LEMMA UpdateStatusStep ==
  ASSUME CertInv, UpdateStatus
  PROVE  CertInv'
<1>1. hosts' = hosts /\ secret' = secret /\ work' = NoWork /\ work.pc = "status"
  BY Zenon DEF UpdateStatus
<1>2. CASE cert' = cert
  BY Zenon, <1>1, <1>2, CertFields, NothingYet, QuietStep
<1>3. CASE cert' = [cert EXCEPT !.crt = work.crt, !.ready = TRUE]
  <2>1. cert' \in [names : Hosts, issuer : Issuers, crt : Crts, ready : BOOLEAN] /\ cert'.crt = work.crt
    BY Zenon, <1>3, CertFields
  <2>2. CertTypes'
    BY Zenon, <1>1, <2>1, CertFields, NothingYet DEF CertTypes
  <2>3. OnItsWay'
    <3>1. work'.pc = "idle"
      BY Zenon, <1>1, NothingYet
    <3> QED
      BY <3>1 DEF OnItsWay
  <2>4. SecretOutlastsStatus'
    <3>1. secret.owner = "cert" => secret.crt = work.crt
      BY <1>1 DEF CertInv, OnItsWay
    <3>2. work.crt.left \in 0 .. Duration
      BY CertFields DEF Crts
    <3> QED
      BY <1>1, <2>1, <3>1, <3>2 DEF SecretOutlastsStatus
  <2> QED
    BY Zenon, <2>2, <2>3, <2>4 DEF CertInv
<1> QED
  BY Zenon, <1>2, <1>3 DEF UpdateStatus

\* The certificate takes over the hosts of the Ingress.
LEMMA IngressStep ==
  ASSUME CertInv, IngressReconcile
  PROVE  CertInv'
<1>1. /\ hosts' = hosts /\ secret' = secret /\ cert' = [cert EXCEPT !.names = hosts]
      /\ work' = work \/ work' = [work EXCEPT !.stale = TRUE]
  BY Zenon DEF IngressReconcile
<1>2. cert' \in [names : Hosts, issuer : Issuers, crt : Crts, ready : BOOLEAN] /\ cert'.crt = cert.crt
  BY <1>1, CertFields
<1>3. work' \in Works /\ work'.pc = work.pc /\ work'.crt = work.crt
  BY Zenon, <1>1, CertFields DEF Works
<1>4. CertTypes'
  BY Zenon, <1>1, <1>2, <1>3, CertFields DEF CertTypes
<1>5. OnItsWay' /\ SecretOutlastsStatus'
  BY Zenon, <1>1, <1>2, <1>3 DEF CertInv, OnItsWay, SecretOutlastsStatus
<1> QED
  BY Zenon, <1>4, <1>5 DEF CertInv

\* The Secret is deleted, or somebody else takes the name.
LEMMA SecretGoneStep ==
  ASSUME CertInv, DeleteSecret \/ ForeignSecret
  PROVE  CertInv'
<1>1. /\ hosts' = hosts /\ cert' = cert /\ work' = work
      /\ secret' = [owner |-> "none", crt |-> NoCrt] \/ secret' = [owner |-> "other", crt |-> NoCrt]
  BY Zenon DEF DeleteSecret, ForeignSecret
<1>2. secret' \in [owner : {"none", "cert", "other"}, crt : Crts] /\ secret'.owner # "cert"
  BY <1>1, NothingYet
<1>3. CertTypes'
  BY Zenon, <1>1, <1>2, CertFields DEF CertTypes
<1>4. OnItsWay' /\ SecretOutlastsStatus'
  BY Zenon, <1>1, <1>2 DEF CertInv, OnItsWay, SecretOutlastsStatus
<1> QED
  BY Zenon, <1>3, <1>4 DEF CertInv

\* A certificate of a day later.
LEMMA OlderType ==
  ASSUME NEW c \in Crts
  PROVE  Older(c) \in Crts /\ Older(c).left = IF c.left = 0 THEN 0 ELSE c.left - 1
  BY NothingYet DEF Older, Crts

\* A day passes for both alike.
LEMMA NextDayStep ==
  ASSUME CertInv, NextDay
  PROVE  CertInv'
<1>1. /\ hosts' = hosts /\ work' = work /\ work.pc = "idle"
      /\ cert' = [cert EXCEPT !.crt = Older(@)] /\ secret' = [secret EXCEPT !.crt = Older(@)]
  BY Zenon DEF NextDay
<1>2. /\ cert' = [cert EXCEPT !.crt = Older(cert.crt)] /\ secret' = [secret EXCEPT !.crt = Older(secret.crt)]
  BY <1>1
<1>3. /\ Older(cert.crt) \in Crts /\ Older(cert.crt).left = IF cert.crt.left = 0 THEN 0 ELSE cert.crt.left - 1
      /\ Older(secret.crt) \in Crts /\ Older(secret.crt).left = IF secret.crt.left = 0 THEN 0 ELSE secret.crt.left - 1
  BY Zenon, CertFields, OlderType
<1>4. /\ cert' \in [names : Hosts, issuer : Issuers, crt : Crts, ready : BOOLEAN] /\ cert'.crt = Older(cert.crt)
      /\ secret' \in [owner : {"none", "cert", "other"}, crt : Crts] /\ secret'.crt = Older(secret.crt)
      /\ secret'.owner = secret.owner
  BY <1>2, <1>3, CertFields
<1>5. CertTypes'
  BY Zenon, <1>1, <1>4, CertFields DEF CertTypes
<1>6. OnItsWay'
  BY ZenonT(60), <1>1 DEF OnItsWay
<1>7. SecretOutlastsStatus'
  <2>1. cert.crt.left \in 0 .. Duration /\ secret.crt.left \in 0 .. Duration
    BY CertFields DEF Crts
  <2>2. secret.owner = "cert" => secret.crt.left >= cert.crt.left
    BY Zenon DEF CertInv, SecretOutlastsStatus
  <2> QED
    BY SMTT(30), <1>3, <1>4, <2>1, <2>2, NothingYet DEF SecretOutlastsStatus
<1> QED
  BY Zenon, <1>5, <1>6, <1>7 DEF CertInv

\* The other controllers leave the certificate alone.
LEMMA OthersStep ==
  ASSUME CertInv, hosts' = hosts, cert' = cert, secret' = secret, work' = work
  PROVE  CertInv'
  BY Zenon DEF CertInv, CertTypes, OnItsWay, SecretOutlastsStatus

\* Every step.
LEMMA CertPreserved ==
  ASSUME CertInv, [CertNext \/ RequestNext \/ ChainNext]_operatorVars
  PROVE  CertInv'
<1>1. CASE EditIngress
  <2>1. hosts' \in Hosts /\ cert' = cert /\ secret' = secret /\ work' = work
    BY Zenon, <1>1 DEF EditIngress
  <2> QED
    BY Zenon, <2>1 DEF CertInv, CertTypes, OnItsWay, SecretOutlastsStatus
<1>2. CASE Restart
  BY Zenon, <1>2, CertFields, NothingYet, QuietStep DEF Restart
<1>3. CASE TimerFires
  BY Zenon, <1>3, OthersStep DEF TimerFires
<1>4. CASE RequestNext
  BY Zenon, <1>4, OthersStep
     DEF RequestNext, SignRequest, RecordRequest, WriteRequestSecret, RestartRequest, SetRequest
<1>5. CASE ReconcileIssuer
  BY Zenon, <1>5, OthersStep DEF ReconcileIssuer, SetChain
<1>6. ASSUME NEW n \in {"root", "inter"}, ChainStep(n) \/ RestartCA(n) PROVE CertInv'
  BY Zenon, <1>6, OthersStep DEF ChainStep, ReconcileCA, CreateCA, RecordCA, RestartCA, SetChain
<1>7. CASE UNCHANGED operatorVars
  BY Zenon, <1>7, OthersStep DEF operatorVars
<1> QED
  BY Zenon, <1>1, <1>2, <1>3, <1>4, <1>5, <1>6, <1>7, ReconcileStep, failCertStep, issueStep, applyStep,
     UpdateStatusStep, IngressStep, SecretGoneStep, NextDayStep DEF CertNext, Controller, ChainNext

\* Whatever fails, dies or is edited between the two writes, for every
\* duration and issuer: the certificate in the Secret never ends before the
\* one the status records (applyTLSSecret, UpdateStatus).
THEOREM SecretOutlastsStatusAlways == OperatorSpec => []SecretOutlastsStatus
<1>1. CertInv => SecretOutlastsStatus
  BY DEF CertInv
<1>2. CertInv /\ [CertNext \/ RequestNext \/ ChainNext]_operatorVars => CertInv'
  BY ZenonT(60), CertPreserved
<1> QED
  BY <1>1, <1>2, CertInitially, PTL DEF OperatorSpec
-----------------------------------------------------------------------------
(* The ACME client.                                                        *)

\* A command, whatever it has to do and has published.
IsRun(r) ==
  /\ r = [pc |-> r.pc, cmd |-> r.cmd, key |-> r.key, todo |-> r.todo, up |-> r.up, serial |-> r.serial]
  /\ r.serial \in Nat /\ r.cmd \in {"none", "issue", "renew"}

Disks == [cert : Nat, key : Nat, by : {"none", "issue", "renew"}, state : [serial : Nat, notAfter : Nat]]

\* What the files hold, and how far a command is with them.  The record is
\* overwritten only when certificate and key belong together, and a renewal
\* is under way only as long as the record says that it is due.
Filed(d, r) ==
  /\ d.cert # d.key /\ d.by = "renew" => NeedsRenew(d.state)
  /\ r.cmd = "renew" /\ r.pc # "idle" => NeedsRenew(d.state)
  /\ r.pc = "key" => d.cert = r.serial
  /\ r.pc = "state" => d.cert = d.key

\* The server has heard of the key in the file, if of any.
Known(a, r) ==
  /\ a.registered \subseteq {a.file} \ {0}
  /\ r.pc = "register" => r.key = a.file /\ r.key # 0

Accounts == [file : 0 .. 3, registered : SUBSET (1 .. 3)]

ACMEInv ==
  /\ clock \in Nat /\ disk \in Disks /\ account \in Accounts /\ IsRun(run)
  /\ Filed(disk, run) /\ Known(account, run)
  /\ NothingLeftPublished /\ DialsAllowed

\* No command runs.
LEMMA IdleRun == IsRun(Idle) /\ Idle.pc = "idle" /\ Idle.cmd = "none"
  BY DEF Idle, IsRun

\* One field of a command is set.
LEMMA RunSet ==
  ASSUME NEW r, IsRun(r), NEW x
  PROVE  /\ LET s == [r EXCEPT !.pc = x] IN
            /\ IsRun(s) /\ s.pc = x /\ s.cmd = r.cmd /\ s.key = r.key /\ s.serial = r.serial
         /\ LET s == [r EXCEPT !.todo = x] IN
            /\ IsRun(s) /\ s.pc = r.pc /\ s.cmd = r.cmd /\ s.key = r.key /\ s.serial = r.serial
         /\ LET s == [r EXCEPT !.up = x] IN
            /\ IsRun(s) /\ s.pc = r.pc /\ s.cmd = r.cmd /\ s.key = r.key /\ s.serial = r.serial
  BY DEF IsRun

\* Nothing is there at first.
LEMMA ACMEInitially == ACMEInit => ACMEInv
<1> SUFFICES ASSUME ACMEInit PROVE ACMEInv
  OBVIOUS
<1>1. disk = [cert |-> 0, key |-> 0, by |-> "none", state |-> NoState] /\ run = Idle /\ clock = 0
      /\ account = [file |-> 0, registered |-> {}] /\ orphans = {} /\ dialed = {}
  BY Zenon DEF ACMEInit
<1>2. disk \in Disks /\ disk.cert = disk.key /\ account \in Accounts /\ account.registered = {}
  BY <1>1 DEF Disks, Accounts, NoState
<1>3. clock \in Nat /\ IsRun(run) /\ run.pc = "idle" /\ run.cmd = "none"
  BY ZenonT(60), <1>1, IdleRun
<1>4. Filed(disk, run) /\ Known(account, run)
  BY <1>2, <1>3 DEF Filed, Known
<1> QED
  BY Zenon, <1>1, <1>2, <1>3, <1>4 DEF ACMEInv, NothingLeftPublished, DialsAllowed

\* A step of a command that touches no file, or ends it.
LEMMA Onward ==
  ASSUME ACMEInv, disk' = disk, clock' = clock, account' = account, profile' = profile, dialed' = dialed,
         IsRun(run'), run'.pc = "idle" \/ (run.pc # "idle" /\ run'.cmd = run.cmd),
         run'.pc \notin {"register", "key", "state"}, NothingLeftPublished'
  PROVE  ACMEInv'
<1>1. Filed(disk, run)' /\ Known(account, run)'
  <2>1. Filed(disk, run) /\ Known(account, run)
    BY Zenon DEF ACMEInv
  <2> QED
    BY <2>1 DEF Filed, Known, NeedsRenew
<1>2. DialsAllowed'
  BY Zenon DEF ACMEInv, DialsAllowed
<1> QED
  BY Zenon, <1>1, <1>2 DEF ACMEInv

\* A run is killed or fails.
LEMMA EndStep ==
  ASSUME ACMEInv, Killed \/ Fail
  PROVE  ACMEInv'
<1>1. run' = Idle /\ profile' = profile /\ account' = account /\ disk' = disk /\ dialed' = dialed /\ clock' = clock
  BY Zenon DEF Killed, Fail
<1>2. NothingLeftPublished'
  <2>1. CASE Killed
    BY <2>1 DEF Killed, ACMEInv, NothingLeftPublished
  <2>2. CASE Fail
    <3>1. PICK lost \in SUBSET Losable(run.up) : CleanUp(lost)
      BY Zenon, <2>2 DEF Fail
    <3> QED
      BY Zenon, <3>1 DEF CleanUp, cleanupChallenge, ACMEInv, NothingLeftPublished
  <2> QED
    BY Zenon, <2>1, <2>2
<1>3. IsRun(run') /\ run'.pc = "idle"
  BY Zenon, <1>1, IdleRun
<1> QED
  BY <1>1, <1>2, <1>3, Onward

\* A challenge is presented, or cannot be.
LEMMA SolveStep ==
  ASSUME ACMEInv, Solve
  PROVE  ACMEInv'
<1>1. PICK n \in run.todo :
        /\ run.pc = "authz"
        /\ \/ run' = [run EXCEPT !.todo = @ \ {n}] /\ UNCHANGED <<orphans, excused, mishaps>>
           \/ \E offered \in SUBSET {"http-01", "dns-01"} : \E s \in pickChallenge(profile, offered) :
                \E r \in Present(s, run.up, n) :
                  IF r.ok
                  THEN /\ run' = [run EXCEPT !.pc = "accept", !.todo = @ \ {n}, !.up = r.up]
                       /\ UNCHANGED <<orphans, excused, mishaps>>
                  ELSE /\ Mishap /\ run' = Idle
                       /\ \E lost \in SUBSET Losable(run.up) : LET more == lost \cup (r.up \ run.up) IN
                            /\ orphans' = orphans \cup cleanupChallenge(run.up, lost) \cup more
                            /\ excused' = excused \cup more
        /\ UNCHANGED <<profile, account, disk, dialed, clock>>
  BY Zenon DEF Solve
<1>2. profile' = profile /\ account' = account /\ disk' = disk /\ dialed' = dialed /\ clock' = clock /\ run.pc = "authz"
  BY Zenon, <1>1
<1>3. NothingLeftPublished /\ IsRun(run)
  BY Zenon DEF ACMEInv
<1>4. CASE run' = [run EXCEPT !.todo = @ \ {n}] /\ UNCHANGED <<orphans, excused, mishaps>>
  <2>1. IsRun(run') /\ run'.pc = "authz" /\ run'.cmd = run.cmd
    BY <1>2, <1>3, <1>4 DEF IsRun
  <2>2. NothingLeftPublished'
    BY Zenon, <1>3, <1>4 DEF NothingLeftPublished
  <2> QED
    BY ZenonT(60), <1>2, <2>1, <2>2, Onward
<1>5. ASSUME NEW r, run' = [run EXCEPT !.pc = "accept", !.todo = @ \ {n}, !.up = r.up],
             UNCHANGED <<orphans, excused, mishaps>>
      PROVE  ACMEInv'
  <2>1. IsRun(run') /\ run'.pc = "accept" /\ run'.cmd = run.cmd
    BY Zenon, <1>2, <1>3, <1>5 DEF IsRun
  <2>2. NothingLeftPublished'
    BY Zenon, <1>3, <1>5 DEF NothingLeftPublished
  <2> QED
    BY ZenonT(60), <1>2, <2>1, <2>2, Onward
<1>6. ASSUME NEW r, run' = Idle,
             \E lost \in SUBSET Losable(run.up) : LET more == lost \cup (r.up \ run.up) IN
               /\ orphans' = orphans \cup cleanupChallenge(run.up, lost) \cup more
               /\ excused' = excused \cup more
      PROVE  ACMEInv'
  <2>1. IsRun(run') /\ run'.pc = "idle"
    BY Zenon, <1>6, IdleRun
  <2>2. NothingLeftPublished'
    BY Zenon, <1>3, <1>6 DEF NothingLeftPublished, cleanupChallenge
  <2> QED
    BY <1>2, <2>1, <2>2, Onward
<1> QED
  BY Zenon, <1>1, <1>4, <1>5, <1>6

\* The challenge is accepted, and the order finalized.
LEMMA OrderStep ==
  ASSUME ACMEInv, Accepted \/ Finalize
  PROVE  ACMEInv'
<1>1. /\ profile' = profile /\ account' = account /\ disk' = disk /\ dialed' = dialed /\ clock' = clock
      /\ run.pc # "idle" /\ IsRun(run)
  BY DEF Accepted, Finalize, ACMEInv
<1>2. CASE Accepted
  <2>1. IsRun(run') /\ run'.pc = "authz" /\ run'.cmd = run.cmd
    BY ZenonT(60), <1>1, <1>2, RunSet DEF Accepted
  <2>2. NothingLeftPublished'
    BY Zenon, <1>2 DEF Accepted, ACMEInv, NothingLeftPublished
  <2> QED
    BY <1>1, <2>1, <2>2, Onward
<1>3. CASE Finalize
  <2>1. run' = [run EXCEPT !.pc = "deliver", !.up = {}, !.serial = Serial]
    BY Zenon, <1>3 DEF Finalize
  <2>2. Serial \in 1 .. 4
    <3>1. \E s \in 1 .. 4 : s \notin {disk.cert, disk.key, disk.state.serial}
      OBVIOUS
    <3> QED
      BY Zenon, <3>1 DEF Serial
  <2>3. IsRun(run') /\ run'.pc = "deliver" /\ run'.cmd = run.cmd
    <3>1. Serial \in Nat
      BY <2>2
    <3>2. PICK k \in Nat : run' = [run EXCEPT !.pc = "deliver", !.up = {}, !.serial = k]
      BY Zenon, <2>1, <3>1
    <3> QED
      BY Zenon, <1>1, <3>2 DEF IsRun
  <2>4. NothingLeftPublished'
    BY Zenon, <1>3 DEF Finalize, CleanUp, cleanupChallenge, ACMEInv, NothingLeftPublished
  <2> QED
    BY <1>1, <2>3, <2>4, Onward
<1> QED
  BY Zenon, <1>2, <1>3

\* A command starts; a renewal only when the record says it is due.
LEMMA StartStep ==
  ASSUME ACMEInv, RunIssue("issue") \/ RunRenew
  PROVE  ACMEInv'
<1>1. PICK cmd \in {"issue", "renew"} : RunIssue(cmd) /\ (cmd = "renew" => NeedsRenew(disk.state))
  BY Zenon DEF RunRenew
<1>2. /\ profile' = profile /\ account' = account /\ disk' = disk /\ orphans' = orphans /\ excused' = excused
      /\ dialed' = dialed /\ clock' = clock /\ run' = [Idle EXCEPT !.pc = "account", !.cmd = cmd]
  BY Zenon, <1>1 DEF RunIssue
<1>3. IsRun(run') /\ run'.pc = "account" /\ run'.cmd = cmd
  BY Zenon, <1>2 DEF Idle, IsRun
<1>4. Filed(disk, run)'
  <2>1. Filed(disk, run)
    BY Zenon DEF ACMEInv
  <2> QED
    BY <1>1, <1>2, <1>3, <2>1 DEF Filed, NeedsRenew
<1>5. Known(account, run)'
  BY <1>2, <1>3 DEF ACMEInv, Known
<1> QED
  BY Zenon, <1>2, <1>3, <1>4, <1>5 DEF ACMEInv, NothingLeftPublished, DialsAllowed

\* The account key is in the file before it is used.
LEMMA AccountStep ==
  ASSUME ACMEInv, Account
  PROVE  ACMEInv'
<1> DEFINE k == NewKey
<1>1. /\ profile' = profile /\ disk' = disk /\ orphans' = orphans /\ excused' = excused
      /\ dialed' = dialed /\ clock' = clock /\ run.pc = "account"
      /\ account' = [account EXCEPT !.file = IF @ = 0 THEN k ELSE @]
  BY Zenon DEF Account, LoadOrCreate
<1>2. run' = Idle \/ run' = [run EXCEPT !.pc = "register", !.key = IF account'.file = 0 THEN k ELSE account'.file]
  BY Zenon DEF Account
<1>3. k \in 1 .. 3
  <2>1. \E j \in 1 .. 3 : j \notin account.registered \/ j = 3
    OBVIOUS
  <2> QED
    BY Zenon, <2>1 DEF NewKey
<1>4. account \in Accounts /\ Known(account, run) /\ IsRun(run) /\ Filed(disk, run)
  BY Zenon DEF ACMEInv
<1> HIDE DEF k
<1>5. /\ account' \in Accounts /\ account'.registered = account.registered /\ account'.file # 0
      /\ (account.file # 0 => account'.file = account.file)
  BY <1>1, <1>3, <1>4 DEF Accounts
<1>6. /\ IsRun(run') /\ (run'.pc = "idle" \/ (run'.pc = "register" /\ run'.cmd = run.cmd /\ run'.key = account'.file))
  <2>1. CASE run' = Idle
    BY Zenon, <2>1, IdleRun
  <2>2. CASE run' = [run EXCEPT !.pc = "register", !.key = IF account'.file = 0 THEN k ELSE account'.file]
    BY Zenon, <1>4, <1>5, <2>2 DEF IsRun
  <2> QED
    BY Zenon, <1>2, <2>1, <2>2
<1>7. Known(account, run)'
  BY <1>4, <1>5, <1>6 DEF Known
<1>8. Filed(disk, run)'
  BY <1>1, <1>4, <1>6 DEF Filed, NeedsRenew
<1> QED
  BY Zenon, <1>1, <1>5, <1>6, <1>7, <1>8 DEF ACMEInv, NothingLeftPublished, DialsAllowed

\* The server hears of the key, at an address that may be dialled.
LEMMA RegisterStep ==
  ASSUME ACMEInv, Register
  PROVE  ACMEInv'
<1>1. /\ profile' = profile /\ disk' = disk /\ orphans' = orphans /\ excused' = excused /\ clock' = clock
      /\ run.pc = "register" /\ account' = [account EXCEPT !.registered = @ \cup {run.key}]
      /\ run' = [run EXCEPT !.pc = "authz", !.todo = profile.names]
  BY Zenon DEF Register
<1>2. account \in Accounts /\ Known(account, run) /\ IsRun(run) /\ Filed(disk, run)
  BY Zenon DEF ACMEInv
<1>3. run.key = account.file /\ run.key # 0
  BY <1>1, <1>2 DEF Known
<1>4. /\ account' \in Accounts /\ account'.file = account.file
      /\ account'.registered = account.registered \cup {account.file}
  BY <1>1, <1>2, <1>3 DEF Accounts
<1>5. IsRun(run') /\ run'.pc = "authz" /\ run'.cmd = run.cmd
  BY Zenon, <1>1, <1>2 DEF IsRun
<1>6. Known(account, run)'
  BY <1>2, <1>3, <1>4, <1>5 DEF Known
<1>7. Filed(disk, run)'
  BY <1>1, <1>2, <1>5 DEF Filed, NeedsRenew
<1>8. DialsAllowed'
  <2>1. PICK ips, a : a \in safeHTTPClient(ips, profile.skipVerify) /\ dialed' = dialed \cup {a}
    BY Zenon DEF Register
  <2>2. a = "public" \/ (profile.skipVerify /\ a = "loopback")
    BY Zenon, <2>1 DEF safeHTTPClient, isBlockedIP
  <2>3. DialsAllowed
    BY Zenon DEF ACMEInv
  <2> QED
    BY Zenon, <1>1, <2>1, <2>2, <2>3 DEF DialsAllowed
<1> QED
  BY Zenon, <1>1, <1>4, <1>5, <1>6, <1>7, <1>8 DEF ACMEInv, NothingLeftPublished

\* A file is written: the certificate, then the key, then the record.
LEMMA FileStep ==
  ASSUME ACMEInv, WriteCert \/ WriteKey \/ SaveState
  PROVE  ACMEInv'
<1>1. /\ profile' = profile /\ account' = account /\ orphans' = orphans /\ excused' = excused
      /\ dialed' = dialed /\ clock' = clock
  BY Zenon DEF WriteCert, WriteKey, SaveState
<1>2. disk \in Disks /\ Known(account, run) /\ IsRun(run) /\ Filed(disk, run) /\ clock \in Nat
  BY Zenon DEF ACMEInv
<1>3. run.serial \in Nat /\ run.cmd \in {"none", "issue", "renew"}
  BY Zenon, <1>2 DEF IsRun
<1>4. CASE WriteCert
  <2>1. /\ run.pc = "deliver" /\ disk' = [disk EXCEPT !.cert = run.serial, !.by = run.cmd]
        /\ run' = [run EXCEPT !.pc = "key"]
    BY Zenon, <1>4 DEF WriteCert
  <2>2. /\ disk' \in Disks /\ disk'.cert = run.serial /\ disk'.by = run.cmd /\ disk'.state = disk.state
    BY Zenon, <1>2, <1>3, <2>1 DEF Disks
  <2>3. IsRun(run') /\ run'.pc = "key" /\ run'.cmd = run.cmd /\ run'.serial = run.serial
    BY <1>2, <2>1 DEF IsRun
  <2>4. Filed(disk, run)' /\ Known(account, run)'
    BY <1>1, <1>2, <2>1, <2>2, <2>3 DEF Filed, Known, NeedsRenew
  <2> QED
    BY Zenon, <1>1, <2>2, <2>3, <2>4 DEF ACMEInv, NothingLeftPublished, DialsAllowed
<1>5. CASE WriteKey
  <2>1. /\ run.pc = "key" /\ disk' = [disk EXCEPT !.key = run.serial] /\ run' = [run EXCEPT !.pc = "state"]
    BY Zenon, <1>5 DEF WriteKey
  <2>2. disk' \in Disks /\ disk'.key = run.serial /\ disk'.cert = disk.cert /\ disk'.state = disk.state
    BY <1>2, <1>3, <2>1 DEF Disks
  <2>3. IsRun(run') /\ run'.pc = "state" /\ run'.cmd = run.cmd
    BY <1>2, <2>1 DEF IsRun
  <2>4. Filed(disk, run)' /\ Known(account, run)'
    BY <1>1, <1>2, <2>1, <2>2, <2>3 DEF Filed, Known, NeedsRenew
  <2> QED
    BY Zenon, <1>1, <2>2, <2>3, <2>4 DEF ACMEInv, NothingLeftPublished, DialsAllowed
<1>6. CASE SaveState
  <2>1. run.pc = "state" /\ disk' = [disk EXCEPT !.state = Record] /\ run' = Idle
    BY Zenon, <1>6 DEF SaveState
  <2>2. Record \in [serial : Nat, notAfter : Nat]
    BY <1>2, <1>3, ACMEAssumption DEF Record
  <2>3. disk' \in Disks /\ disk'.cert = disk.cert /\ disk'.key = disk.key
    BY <1>2, <2>1, <2>2 DEF Disks
  <2>4. IsRun(run') /\ run'.pc = "idle"
    BY Zenon, <2>1, IdleRun
  <2>5. Filed(disk, run)' /\ Known(account, run)'
    BY <1>1, <1>2, <2>1, <2>3, <2>4 DEF Filed, Known
  <2> QED
    BY Zenon, <1>1, <2>3, <2>4, <2>5 DEF ACMEInv, NothingLeftPublished, DialsAllowed
<1> QED
  BY Zenon, <1>4, <1>5, <1>6

\* A day brings no record further from its end.
LEMMA DayStep ==
  ASSUME ACMEInv, Day
  PROVE  ACMEInv'
<1>1. /\ profile' = profile /\ account' = account /\ orphans' = orphans /\ excused' = excused
      /\ dialed' = dialed /\ disk' = disk /\ run' = run /\ clock' = clock + 1
  BY Zenon DEF Day
<1>2. disk \in Disks /\ Known(account, run) /\ Filed(disk, run) /\ clock \in Nat
  BY Zenon DEF ACMEInv
<1>3. clock' \in Nat
  BY SMTT(30), <1>1, <1>2
<1>4. NeedsRenew(disk.state) => NeedsRenew(disk.state)'
  <2>1. disk.state.notAfter \in Nat /\ RenewBefore \in Nat
    BY <1>2, ACMEAssumption DEF Disks
  <2> QED
    BY SMTT(30), <1>1, <1>2, <2>1 DEF NeedsRenew
<1>5. Filed(disk, run)'
  BY Zenon, <1>1, <1>2, <1>4 DEF Filed
<1> QED
  BY Zenon, <1>1, <1>3, <1>5 DEF ACMEInv, Known, NothingLeftPublished, DialsAllowed

\* Every step.
LEMMA ACMEPreserved ==
  ASSUME ACMEInv, [ACMENext]_acmeVars
  PROVE  ACMEInv'
<1>1. CASE UNCHANGED acmeVars
  BY Zenon, <1>1 DEF acmeVars, ACMEInv, Filed, Known, NeedsRenew, NothingLeftPublished, DialsAllowed
<1> QED
  BY Zenon, <1>1, StartStep, AccountStep, RegisterStep, SolveStep, OrderStep, FileStep, EndStep, DayStep
     DEF ACMENext, Command

\* For every lifetime and renewal window: a mismatched pair that a renewal
\* left behind is due for the next one (WritePEMFiles, RunIssue).
THEOREM MismatchIsDueAlways == ACMESpec => []MismatchIsDue
<1>1. ACMEInv => MismatchIsDue
  BY Zenon DEF ACMEInv, Filed, MismatchIsDue
<1>2. ACMEInv /\ [ACMENext]_acmeVars => ACMEInv'
  BY ACMEPreserved
<1> QED
  BY <1>1, <1>2, ACMEInitially, PTL DEF ACMESpec

\* For every profile, however often orders fail or die: at most one account,
\* no forbidden address, no challenge material left (LoadOrCreate,
\* safeHTTPClient, cleanupChallenge).
THEOREM FootprintAlways == ACMESpec => []Footprint
<1>1. ACMEInv => Footprint
  BY Zenon DEF ACMEInv, Known, OneAccount, Footprint
<1>2. ACMEInv /\ [ACMENext]_acmeVars => ACMEInv'
  BY ACMEPreserved
<1> QED
  BY <1>1, <1>2, ACMEInitially, PTL DEF ACMESpec

-----------------------------------------------------------------------------
(* The PKI engine.  What a renewal starts from is a record, so that what   *)
(* is recorded must be true of all certificates for what is signed to obey *)
(* the role; and the job's list must be of records that exist.             *)

\* A record and the certificate of its serial.
Tells(s) ==
  /\ s \in 1 .. Len(certs)
  /\ issued[s].ca = certs[s].ca /\ issued[s].names = certs[s].names /\ issued[s].expires = certs[s].expires
  /\ issued[s].ttl \in Nat /\ issued[s].expires \in Nat /\ issued[s].expires - issued[s].ttl \in 0 .. now

\* A record and the one it says it renews.
Continues(new, old) ==
  old.ca = new.ca /\ old.role = new.role /\ old.names = new.names /\ old.auto = new.auto
Descends(s) ==
  issued[s].from # 0 =>
    issued[s].from \in DOMAIN issued /\ issued[s].from < s /\ Continues(issued[s], issued[issued[s].from])

PKITypes ==
  /\ now \in Nat /\ \E S : certs \in Seq(S)
  /\ \A n \in DOMAIN roles : roles[n].max \in Int

\* The renewal job has records to renew.
Renewing ==
  /\ job = [kind |-> job.kind, todo |-> job.todo]
  /\ job.kind = "renew" => job.todo \in Seq(DOMAIN issued) /\ job.todo # <<>>

PKIInv ==
  /\ PKITypes /\ Renewing
  /\ \A s \in DOMAIN issued : Tells(s) /\ Descends(s)

\* A certificate that obeys a role of the moment.
Obeys(new) ==
  \E n \in DOMAIN roles :
    /\ cas[new.ca].name = roles[n].ca
    /\ \A d \in new.names : AllowedDomain(roles[n], d)
    /\ new.ip => AllowsAnyDomain(roles[n])
    /\ new.expires <= now + MaxTTL(roles[n])

\* A table with one row more.
LEMMA WithRow ==
  ASSUME NEW table, NEW key, NEW row
  PROVE  /\ DOMAIN With(table, key, row) = DOMAIN table \cup {key}
         /\ With(table, key, row)[key] = row
         /\ \A k \in DOMAIN table \ {key} : With(table, key, row)[k] = table[k]
  BY DEF With

\* The lifetime that is given is within the role's maximum when the one that
\* is asked for is.
LEMMA Lifetimes ==
  ASSUME NEW role, role.max \in Int, NEW req, req.ttl \in Nat
  PROVE  /\ MaxTTL(role) \in Nat /\ IssueTTL(role, req) \in Nat
         /\ req.ttl <= MaxTTL(role) => IssueTTL(role, req) <= MaxTTL(role)
<1>1. MaxTTL(role) \in Nat /\ LeafTTL \in Nat
  BY PKIAssumption DEF MaxTTL
<1> QED
  BY <1>1 DEF IssueTTL

\* One certificate more, at the end.
LEMMA OneMore ==
  ASSUME PKITypes, NEW leaf, certs' = Append(certs, leaf)
  PROVE  /\ \E S : certs' \in Seq(S)
         /\ Len(certs) \in Nat /\ Len(certs') = Len(certs) + 1 /\ certs'[Len(certs) + 1] = leaf
         /\ \A s \in 1 .. Len(certs) : certs'[s] = certs[s]
<1>1. PICK S : certs \in Seq(S)
  BY Zenon DEF PKITypes
<1>2. certs \in Seq(S \cup {leaf})
  BY <1>1
<1>3. certs' \in Seq(S \cup {leaf})
  BY <1>2
<1> QED
  BY <1>1, <1>2, <1>3

\* IssueCertificate signs what the role allows and records what it signed.
LEMMA Issuing ==
  ASSUME PKIInv, NEW req, req.ttl \in Nat, NEW ca \in Signers(req), NEW from,
         IssueCertificate(ca, req, from), roles' = roles, now' = now, cas' = cas,
         from # 0 => /\ from \in DOMAIN issued /\ issued[from].ca = ca /\ issued[from].role = req.role
                     /\ issued[from].names = req.names /\ issued[from].auto = req.auto
  PROVE  /\ PKITypes' /\ DOMAIN issued \subseteq DOMAIN issued'
         /\ \A s \in DOMAIN issued' : (Tells(s) /\ Descends(s))'
         /\ Obeys(certs'[Len(certs')])
<1> DEFINE role == roles[req.role]
           ttl == IssueTTL(role, req)
           leaf == Leaf(ca, req, ttl, Usage(role, req))
           record == IssuedRecord(ca, req, from)
<1>0. PICK k : k = Len(certs) + 1
  BY Zenon
<1>1. certs' = Append(certs, leaf) /\ issued' = With(issued, k, record)
  BY Zenon, <1>0 DEF IssueCertificate
<1>2. /\ req.role \in DOMAIN roles /\ cas[ca].name = role.ca /\ validateIssueAgainstRole(role, req)
  BY Zenon DEF Signers
<1>3. ttl \in Nat /\ MaxTTL(role) \in Nat /\ ttl <= MaxTTL(role)
  BY Zenon, <1>2, Lifetimes DEF PKIInv, PKITypes, validateIssueAgainstRole
<1>4. /\ leaf.ca = ca /\ leaf.names = req.names /\ leaf.ip = req.ip /\ leaf.expires = now + ttl
  BY Zenon DEF Leaf
<1>5. /\ record.ca = ca /\ record.role = req.role /\ record.names = req.names /\ record.ttl = ttl
      /\ record.expires = now + ttl /\ record.auto = req.auto /\ record.from = from
  BY Zenon DEF IssuedRecord
<1> HIDE DEF leaf, record, ttl, role
<1>6. /\ \E S : certs' \in Seq(S)
      /\ Len(certs) \in Nat /\ Len(certs') = k /\ certs'[k] = leaf /\ k = Len(certs) + 1
      /\ \A s \in 1 .. Len(certs) : certs'[s] = certs[s]
  BY Zenon, <1>0, <1>1, OneMore DEF PKIInv
<1>7. /\ DOMAIN issued' = DOMAIN issued \cup {k} /\ issued'[k] = record
      /\ \A s \in DOMAIN issued \ {k} : issued'[s] = issued[s]
  <2> DEFINE W == With(issued, k, record)
  <2>1. /\ DOMAIN W = DOMAIN issued \cup {k} /\ W[k] = record
        /\ \A s \in DOMAIN issued \ {k} : W[s] = issued[s]
    BY DEF With
  <2> QED
    BY Zenon, <1>1, <2>1
<1>8. now \in Nat
  BY Zenon DEF PKIInv, PKITypes
<1>9. PKITypes'
  BY ZenonT(60), <1>6 DEF PKIInv, PKITypes
<1>10. \A s \in DOMAIN issued : Tells(s) /\ Descends(s) /\ s \in 1 .. Len(certs) /\ s # k
  <2>1. \A s \in DOMAIN issued : Tells(s) /\ Descends(s)
    BY Zenon DEF PKIInv
  <2> QED
    BY <1>6, <2>1 DEF Tells
<1>11. Obeys(certs'[Len(certs')])
  <2>1. leaf.expires <= now + MaxTTL(role)
    BY <1>3, <1>4, <1>8
  <2> QED
    BY Zenon, <1>2, <1>4, <1>6, <2>1 DEF Obeys, validateIssueAgainstRole, role
<1>12. ASSUME NEW s \in DOMAIN issued PROVE (Tells(s) /\ Descends(s))'
  <2>1. /\ issued'[s] = issued[s] /\ certs'[s] = certs[s] /\ Tells(s) /\ Descends(s)
    BY Zenon, <1>6, <1>7, <1>10
  <2>2. Tells(s)'
    BY <1>6, <2>1 DEF Tells
  <2>3. Descends(s)'
    BY Zenon, <1>7, <1>10, <2>1 DEF Descends
  <2> QED
    BY Zenon, <2>2, <2>3
<1>13. Tells(k)'
  <2>1. now + ttl \in Nat /\ (now + ttl) - ttl \in 0 .. now /\ k \in 1 .. k
    BY <1>3, <1>6, <1>8
  <2> QED
    BY Zenon, <1>3, <1>4, <1>5, <1>6, <1>7, <2>1 DEF Tells
<1>14. Descends(k)'
  <2> SUFFICES ASSUME from # 0 PROVE Descends(k)'
    BY Zenon, <1>5, <1>7 DEF Descends
  <2>1. from \in DOMAIN issued /\ from # k /\ from \in 1 .. Len(certs)
    BY Zenon, <1>10
  <2>2. from < k
    BY <1>6, <2>1
  <2>3. issued'[from] = issued[from] /\ from \in DOMAIN issued'
    BY Zenon, <1>7, <2>1
  <2> QED
    BY Zenon, <1>5, <1>7, <2>2, <2>3 DEF Descends, Continues
<1> QED
  BY Zenon, <1>7, <1>9, <1>11, <1>12, <1>13, <1>14

\* A record that is kept stays true while time passes and others are added.
LEMMA RecordsKept ==
  ASSUME PKIInv, certs' = certs, issued' = issued, now' = now \/ now' = now + 1
  PROVE  \A s \in DOMAIN issued' : (Tells(s) /\ Descends(s))'
<1> SUFFICES ASSUME NEW s \in DOMAIN issued PROVE (Tells(s) /\ Descends(s))'
  BY Zenon
<1>1. Tells(s) /\ Descends(s) /\ now \in Nat
  BY Zenon DEF PKIInv, PKITypes
<1>2. Tells(s)'
  BY <1>1 DEF Tells
<1>3. Descends(s)'
  BY Zenon, <1>1 DEF Descends
<1> QED
  BY Zenon, <1>2, <1>3

\* A signed request of a client: no record is renewed.
LEMMA IssueStep ==
  ASSUME PKIInv, Issue \/ IssueClientCert
  PROVE  PKIInv' /\ Obeys(certs'[Len(certs')])
<1>1. PICK req \in Requests : \E ca \in Signers(req) : IssueCertificate(ca, req, 0)
  BY Zenon DEF Issue, IssueClientCert
<1>2. PICK ca \in Signers(req) : IssueCertificate(ca, req, 0)
  BY Zenon, <1>1
<1>3. cas' = cas /\ roles' = roles /\ job' = job /\ now' = now
  BY Zenon DEF Issue, IssueClientCert
<1>4. req.ttl \in Nat
  BY Zenon, PKIAssumption
<1>5. /\ PKITypes' /\ DOMAIN issued \subseteq DOMAIN issued' /\ Obeys(certs'[Len(certs')])
      /\ \A s \in DOMAIN issued' : (Tells(s) /\ Descends(s))'
  BY Zenon, <1>2, <1>3, <1>4, Issuing
<1>6. Renewing'
  BY <1>3, <1>5 DEF PKIInv, Renewing
<1> QED
  BY Zenon, <1>5, <1>6 DEF PKIInv

\* A signed CSR is not recorded.
LEMMA SignCSRStep ==
  ASSUME PKIInv, SignCSR
  PROVE  PKIInv' /\ Obeys(certs'[Len(certs')])
<1>1. PICK req \in CSRs : EngineSignCSR(req)
  BY Zenon DEF SignCSR
<1>2. cas' = cas /\ roles' = roles /\ issued' = issued /\ job' = job /\ now' = now
  BY Zenon DEF SignCSR
<1> DEFINE role == roles[req.role]
           ttl == IF req.ttl = 0 THEN LeafTTL ELSE req.ttl
<1>3. PICK ca \in GetByName(role.ca) : certs' = Append(certs, CSRLeaf(ca, req))
  BY Zenon, <1>1 DEF EngineSignCSR
<1>4. req.role \in DOMAIN roles /\ CSRAllowed(role, req) /\ cas[ca].name = role.ca
  BY Zenon, <1>1, <1>3 DEF EngineSignCSR, GetByName
<1> DEFINE leaf == CSRLeaf(ca, req)
<1>5. leaf.ca = ca /\ leaf.names = req.names /\ leaf.ip = req.ip /\ leaf.expires = now + ttl
  BY Zenon DEF CSRLeaf, Leaf
<1>6. role.max \in Int /\ req.ttl \in Nat /\ now \in Nat
  BY Zenon, <1>4, PKIAssumption DEF PKIInv, PKITypes
<1>7. MaxTTL(role) \in Nat
  BY Zenon, <1>6, Lifetimes
<1>8. ttl <= MaxTTL(role) /\ ttl \in Nat
  <2>1. LeafTTL \in Nat /\ (req.ttl = 0 => LeafTTL <= MaxTTL(role)) /\ req.ttl <= MaxTTL(role)
    BY ZenonT(60), <1>4, PKIAssumption DEF CSRAllowed, validateCSRAgainstRole
  <2> QED
    BY ZenonT(60), <1>6, <2>1
<1> HIDE DEF leaf, ttl, role
<1>9. leaf.expires <= now + MaxTTL(role)
  BY <1>5, <1>6, <1>7, <1>8
<1>10. /\ \E S : certs' \in Seq(S)
       /\ Len(certs) \in Nat /\ Len(certs') = Len(certs) + 1 /\ certs'[Len(certs) + 1] = leaf
       /\ \A s \in 1 .. Len(certs) : certs'[s] = certs[s]
  <2>1. certs' = Append(certs, leaf)
    BY Zenon, <1>3 DEF leaf
  <2> QED
    BY Zenon, <2>1, OneMore DEF PKIInv
<1>11. Obeys(certs'[Len(certs')])
  BY Zenon, <1>4, <1>5, <1>9, <1>10 DEF Obeys, CSRAllowed, validateCSRAgainstRole, role
<1>12. ASSUME NEW s \in DOMAIN issued PROVE (Tells(s) /\ Descends(s))'
  <2>1. Tells(s) /\ Descends(s) /\ s \in 1 .. Len(certs)
    BY ZenonT(60) DEF PKIInv, Tells
  <2>2. Tells(s)'
    <3>1. certs'[s] = certs[s]
      BY Zenon, <1>10, <2>1
    <3>2. s \in 1 .. Len(certs')
      BY ONLY <1>10, <2>1
    <3> QED
      BY Zenon, <1>2, <2>1, <3>1, <3>2 DEF Tells
  <2>3. Descends(s)'
    BY Zenon, <1>2, <2>1 DEF Descends
  <2> QED
    BY Zenon, <2>2, <2>3
<1> QED
  BY Zenon, <1>2, <1>10, <1>11, <1>12 DEF PKIInv, PKITypes, Renewing

\* A renewal continues the record it was asked for, or stands alone.
LEMMA Renewal ==
  ASSUME PKIInv, NEW s \in DOMAIN issued, NEW ttl \in Nat, NEW ok \in BOOLEAN, RenewCertificate(s, ttl, ok),
         cas' = cas, roles' = roles, now' = now
  PROVE  /\ PKITypes' /\ DOMAIN issued \subseteq DOMAIN issued' /\ Obeys(certs'[Len(certs')])
         /\ \A t \in DOMAIN issued' : (Tells(t) /\ Descends(t))'
<1> DEFINE req == RenewalOf(issued[s], ttl)
<1>1. PICK ca \in Signers(req) : IssueCertificate(ca, req, Link(s, ca, ok))
  BY Zenon DEF RenewCertificate
<1>2. /\ req.role = issued[s].role /\ req.names = issued[s].names /\ req.auto = issued[s].auto
      /\ req.ttl \in Nat
  <2>1. issued[s].ttl \in Nat
    BY Zenon DEF PKIInv, Tells
  <2> QED
    BY Zenon, <2>1 DEF RenewalOf
<1>3. Link(s, ca, ok) # 0 => Link(s, ca, ok) = s /\ issued[s].ca = ca
  BY Zenon DEF Link
<1> HIDE DEF req
<1>4. PICK from : from = Link(s, ca, ok)
  BY Zenon
<1> QED
  BY Zenon, <1>1, <1>2, <1>3, <1>4, Issuing

\* A renewal by hand.
LEMMA RenewStep ==
  ASSUME PKIInv, Renew
  PROVE  PKIInv' /\ Obeys(certs'[Len(certs')])
<1>1. PICK s \in DOMAIN issued, ttl \in RenewTTLs, ok \in BOOLEAN : RenewCertificate(s, ttl, ok)
  BY Zenon DEF Renew
<1>2. cas' = cas /\ roles' = roles /\ job' = job /\ now' = now
  BY Zenon DEF Renew
<1>3. ttl \in Nat
  BY Zenon, PKIAssumption
<1>4. /\ PKITypes' /\ DOMAIN issued \subseteq DOMAIN issued' /\ Obeys(certs'[Len(certs')])
      /\ \A t \in DOMAIN issued' : (Tells(t) /\ Descends(t))'
  BY Zenon, <1>1, <1>2, <1>3, Renewal
<1>5. Renewing'
  BY <1>2, <1>4 DEF PKIInv, Renewing
<1> QED
  BY Zenon, <1>4, <1>5 DEF PKIInv

\* What is left of the job's list.
LEMMA ListLeft ==
  ASSUME PKIInv, job' = NoJob \/ job' = EndsAfter(job.todo), DOMAIN issued \subseteq DOMAIN issued'
  PROVE  Renewing'
<1>1. CASE job' = NoJob
  BY <1>1 DEF NoJob, Renewing
<1>2. CASE job' = EndsAfter(job.todo) /\ job' # NoJob
  <2>1. Len(job.todo) # 1 /\ job' = [job EXCEPT !.todo = Tail(job.todo)]
    BY Zenon, <1>2 DEF EndsAfter
  <2>2. job = [kind |-> job.kind, todo |-> job.todo]
    BY Zenon DEF PKIInv, Renewing
  <2>3. job' = [kind |-> job.kind, todo |-> Tail(job.todo)]
    BY Zenon, <2>1, <2>2
  <2>4. job'.kind = job.kind /\ job'.todo = Tail(job.todo) /\ job' = [kind |-> job'.kind, todo |-> job'.todo]
    BY <2>3
  <2>5. ASSUME job.kind = "renew"
        PROVE  Tail(job.todo) \in Seq(DOMAIN issued') /\ Tail(job.todo) # <<>>
    <3>1. job.todo \in Seq(DOMAIN issued) /\ job.todo # <<>>
      BY Zenon, <2>5 DEF PKIInv, Renewing
    <3>2. job.todo \in Seq(DOMAIN issued')
      BY <3>1
    <3>3. Len(Tail(job.todo)) = Len(job.todo) - 1 /\ Len(job.todo) \in Nat /\ Len(job.todo) # 0
      BY <3>1
    <3>4. Tail(job.todo) \in Seq(DOMAIN issued')
      <4>1. \A S, q : q \in Seq(S) /\ q # <<>> => Tail(q) \in Seq(S)
        OBVIOUS
      <4> QED
        BY Zenon, <3>1, <3>2, <4>1
    <3>5. Len(<<>>) = 0 /\ Len(Tail(job.todo)) # 0
      BY <2>1, <3>3
    <3> QED
      BY Zenon, <3>4, <3>5
  <2> QED
    BY Zenon, <2>4, <2>5 DEF Renewing
<1> QED
  BY Zenon, <1>1, <1>2

\* The job renews the next record of its list, or gives up.
LEMMA RenewNextStep ==
  ASSUME PKIInv, RenewNext
  PROVE  PKIInv' /\ (certs' # certs => Obeys(certs'[Len(certs')]))
<1>1. cas' = cas /\ roles' = roles /\ now' = now /\ job.kind = "renew"
  BY Zenon DEF RenewNext
<1>2. PICK s : s = Head(job.todo)
  BY Zenon
<1>3. s \in DOMAIN issued
  <2>1. job.todo \in Seq(DOMAIN issued) /\ job.todo # <<>>
    BY Zenon, <1>1 DEF PKIInv, Renewing
  <2> QED
    BY <1>2, <2>1
<1>4. CASE \E ok \in BOOLEAN : /\ RenewCertificate(s, 0, ok)
                               /\ job' = IF issued'[Len(certs) + 1].from = s THEN EndsAfter(job.todo) ELSE NoJob
  <2>1. PICK ok \in BOOLEAN : RenewCertificate(s, 0, ok)
    BY Zenon, <1>4
  <2>2. /\ PKITypes' /\ DOMAIN issued \subseteq DOMAIN issued' /\ Obeys(certs'[Len(certs')])
        /\ \A t \in DOMAIN issued' : (Tells(t) /\ Descends(t))'
    <3>1. 0 \in Nat
      OBVIOUS
    <3> QED
      BY Zenon, <1>1, <1>3, <2>1, <3>1, Renewal
  <2>3. job' = NoJob \/ job' = EndsAfter(job.todo)
    BY Zenon, <1>4
  <2>4. Renewing'
    BY Zenon, <2>2, <2>3, ListLeft
  <2> QED
    BY Zenon, <2>2, <2>4 DEF PKIInv
<1>5. CASE job' = NoJob /\ certs' = certs /\ issued' = issued
  <2>1. Renewing'
    BY Zenon, <1>5, ListLeft
  <2> QED
    BY Zenon, <1>1, <1>5, <2>1, RecordsKept DEF PKIInv, PKITypes
<1> QED
  BY Zenon, <1>2, <1>4, <1>5 DEF RenewNext

\* The job's list is one of records.
LEMMA StartRenewalStep ==
  ASSUME PKIInv, StartRenewal
  PROVE  PKIInv' /\ certs' = certs
<1>1. /\ cas' = cas /\ roles' = roles /\ certs' = certs /\ issued' = issued /\ now' = now
  BY Zenon DEF StartRenewal
<1>2. PICK q \in ListExpiring(now + Grace) : q # <<>> /\ job' = [kind |-> "renew", todo |-> q]
  BY Zenon DEF StartRenewal
<1>3. Expiring(now + Grace) \subseteq DOMAIN issued
  BY Zenon DEF Expiring
<1>4. PICK k \in 0 .. Limit : q \in [1 .. k -> Expiring(now + Grace)]
  BY Zenon, <1>2 DEF ListExpiring
<1>5. k \in Nat
  BY PKIAssumption
<1>6. q \in Seq(DOMAIN issued)
  <2>1. q \in [1 .. k -> DOMAIN issued]
    BY Zenon, <1>3, <1>4
  <2> QED
    BY <1>5, <2>1
<1>7. Renewing'
  BY <1>1, <1>2, <1>6 DEF Renewing
<1> QED
  BY Zenon, <1>1, <1>7, RecordsKept DEF PKIInv, PKITypes

\* A role is put, or made for a new CA.
LEMMA RoleStep ==
  ASSUME PKIInv, NEW name, NEW role, {"max", "usage"} \subseteq DOMAIN role, role.max \in Int,
         roles' = roles \/ roles' = With(roles, name, Normalized(role)),
         certs' = certs, issued' = issued, job' = job, now' = now
  PROVE  PKIInv'
<1>1. Normalized(role).max = role.max
  BY Zenon DEF Normalized
<1>2. \A n \in DOMAIN roles : roles[n].max \in Int
  BY Zenon DEF PKIInv, PKITypes
<1>3. \A n \in DOMAIN roles' : roles'[n].max \in Int
  <2>1. CASE roles' = With(roles, name, Normalized(role))
    <3> DEFINE row == Normalized(role)
               W == With(roles, name, row)
    <3> HIDE DEF row
    <3>1. \A n \in DOMAIN W : W[n] = row \/ (n \in DOMAIN roles /\ W[n] = roles[n])
      BY DEF With
    <3>2. roles' = W
      BY Zenon, <2>1 DEF row
    <3>3. row.max \in Int
      BY Zenon, <1>1 DEF row
    <3> HIDE DEF W
    <3> QED
      BY Zenon, <1>2, <3>1, <3>2, <3>3
  <2> QED
    BY Zenon, <1>2, <2>1
<1> QED
  BY Zenon, <1>3, RecordsKept DEF PKIInv, PKITypes, Renewing

\* A new CA, or its default role.
LEMMA CreateStep ==
  ASSUME PKIInv, CreateRoot \/ CreateIntermediate \/ ImportCA \/ RotateCA \/ PutRole
  PROVE  PKIInv' /\ certs' = certs
<1>1. ASSUME NEW req, NEW ok, EngineCreateRoot(req, ok) \/ EngineCreateIntermediate(req, ok)
      PROVE  PKIInv' /\ certs' = certs
  <2> DEFINE role == [ca |-> req.name, domains |-> IF req.domains = {} THEN {Unconfigured} ELSE req.domains,
                      subdomains |-> req.subdomains, max |-> MaxLeafTTL, usage |-> ""]
  <2>1. /\ certs' = certs /\ issued' = issued /\ job' = job /\ now' = now
        /\ EnsureDefaultRole(req.name, req.domains, req.subdomains, ok)
    BY Zenon, <1>1 DEF EngineCreateRoot, EngineCreateIntermediate
  <2>2. roles' = roles \/ roles' = With(roles, req.name, Normalized(role))
    BY Zenon, <2>1 DEF EnsureDefaultRole
  <2>3. {"max", "usage"} \subseteq DOMAIN role /\ role.max \in Int
    BY PKIAssumption
  <2> HIDE DEF role
  <2> QED
    BY Zenon, <2>1, <2>2, <2>3, RoleStep
<1>2. CASE CreateRoot \/ CreateIntermediate
  BY Zenon, <1>1, <1>2 DEF CreateRoot, CreateIntermediate
<1>3. CASE RotateCA
  BY Zenon, <1>1, <1>3 DEF RotateCA, EngineRotateCA
<1>4. CASE ImportCA
  <2>1. roles' = roles /\ certs' = certs /\ issued' = issued /\ job' = job /\ now' = now
    BY Zenon, <1>4 DEF ImportCA, EngineImportCA
  <2> QED
    BY Zenon, <2>1, RecordsKept DEF PKIInv, PKITypes, Renewing
<1>5. CASE PutRole
  <2>1. PICK name \in DOMAIN RolePuts : \E role \in RolePuts[name] : SaveRole(name, role)
    BY Zenon, <1>5 DEF PutRole
  <2>2. PICK role \in RolePuts[name] : SaveRole(name, role)
    BY Zenon, <2>1
  <2>3. {"max", "usage"} \subseteq DOMAIN role /\ role.max \in Int
    BY Zenon, PKIAssumption
  <2>4. certs' = certs /\ issued' = issued /\ job' = job /\ now' = now
    BY Zenon, <1>5 DEF PutRole
  <2> QED
    BY Zenon, <2>2, <2>3, <2>4, RoleStep DEF SaveRole
<1> QED
  BY Zenon, <1>2, <1>3, <1>4, <1>5

\* Steps that neither sign nor record.
LEMMA OtherStep ==
  ASSUME PKIInv, Revoke \/ StartCRLRefresh \/ RefreshNext \/ Tick
  PROVE  PKIInv' /\ certs' = certs
<1>1. roles' = roles /\ certs' = certs /\ issued' = issued /\ (now' = now \/ now' = now + 1)
  BY Zenon DEF Revoke, StartCRLRefresh, RefreshNext, Tick
<1>2. PKITypes'
  <2>1. now' \in Nat
    BY <1>1 DEF PKIInv, PKITypes
  <2> QED
    BY Zenon, <1>1, <2>1 DEF PKIInv, PKITypes
<1>3. CASE Revoke \/ Tick
  <2>1. job' = job
    BY Zenon, <1>3 DEF Revoke, Tick
  <2> QED
    BY Zenon, <1>1, <1>2, <2>1, RecordsKept DEF PKIInv, Renewing
<1>4. CASE StartCRLRefresh
  <2>1. PICK q : job' = [kind |-> "crl", todo |-> q]
    BY Zenon, <1>4 DEF StartCRLRefresh
  <2>2. Renewing'
    BY <2>1 DEF Renewing
  <2> QED
    BY Zenon, <1>1, <1>2, <2>2, RecordsKept DEF PKIInv
<1>5. CASE RefreshNext
  <2>1. Renewing'
    BY Zenon, <1>1, <1>5, ListLeft DEF RefreshNext
  <2> QED
    BY Zenon, <1>1, <1>2, <2>1, RecordsKept DEF PKIInv
<1> QED
  BY Zenon, <1>3, <1>4, <1>5

\* Every step keeps the invariant, and signs only what a role allows.
LEMMA PKIStep ==
  ASSUME PKIInv, [PKINext]_pkiVars
  PROVE  PKIInv' /\ (certs' # certs => Obeys(certs'[Len(certs')]))
<1>1. CASE UNCHANGED pkiVars
  BY Zenon, <1>1 DEF pkiVars, stores, PKIInv, PKITypes, Renewing, Tells, Descends
<1>2. CASE Authorities
  BY Zenon, <1>2, CreateStep, IssueStep, OtherStep DEF Authorities
<1>3. CASE Leaves
  BY Zenon, <1>3, CreateStep, IssueStep, SignCSRStep, RenewStep, StartRenewalStep, RenewNextStep, OtherStep
     DEF Leaves
<1> QED
  BY Zenon, <1>1, <1>2, <1>3 DEF PKINext

\* Nothing is issued at first.
LEMMA PKIInitially == PKIInit => PKIInv
<1> SUFFICES ASSUME PKIInit PROVE PKIInv
  OBVIOUS
<1>1. certs = <<>> /\ issued = <<>> /\ job = NoJob /\ now = 0
  BY Zenon DEF PKIInit
<1>2. certs \in Seq({}) /\ DOMAIN issued = {} /\ now \in Nat
  BY <1>1
<1>3. \A n \in DOMAIN roles : roles[n].max \in Int
  <2>1. CASE roles = <<>>
    BY <2>1
  <2>2. CASE roles = Founded.roles
    BY Zenon, <2>2, PKIAssumption
  <2> QED
    BY Zenon, <2>1, <2>2 DEF PKIInit
<1>4. Renewing
  BY <1>1 DEF Renewing, NoJob
<1> QED
  BY Zenon, <1>2, <1>3, <1>4 DEF PKIInv, PKITypes

\* For every set of requests, roles and CAs and every number of failed
\* writes: a record tells of its certificate, and of the one it renews, what
\* renewal and the expiry scan go by (IssueCertificate, RenewCertificate).
THEOREM RecordsTrueAlways == PKISpec => []RecordsTrue
<1>1. PKIInv => RecordsTrue
  <2> SUFFICES ASSUME PKIInv PROVE RecordsTrue
    OBVIOUS
  <2>1. \A s \in DOMAIN issued : Tells(s) /\ Descends(s)
    BY Zenon DEF PKIInv
  <2>2. LineageHolds
    BY Zenon, <2>1 DEF LineageHolds, Descends, Continues
  <2> QED
    BY Zenon, <2>1, <2>2 DEF RecordsTrue, Tells
<1>2. PKIInv /\ [PKINext]_pkiVars => PKIInv'
  BY Zenon, PKIStep
<1> QED
  BY <1>1, <1>2, PKIInitially, PTL DEF PKISpec

\* For the same: every certificate obeys a role as it is when it is signed,
\* also when the renewal job signs for a record from before the role was
\* changed (validateIssueAgainstRole, validateCSRAgainstRole).
THEOREM PolicyHoldsAlways == PKISpec => PolicyHolds
<1>1. PKIInv /\ [PKINext]_pkiVars =>
        [Len(certs') > Len(certs) =>
           LET new == certs'[Len(certs')]
           IN \E n \in DOMAIN roles :
                /\ cas[new.ca].name = roles[n].ca
                /\ \A d \in new.names : AllowedDomain(roles[n], d)
                /\ new.ip => AllowsAnyDomain(roles[n])
                /\ new.expires <= now + MaxTTL(roles[n])]_pkiVars
  <2> SUFFICES ASSUME PKIInv, [PKINext]_pkiVars, Len(certs') > Len(certs)
               PROVE  Obeys(certs'[Len(certs')])
    BY Zenon DEF Obeys
  <2>1. certs' # certs
    <3> SUFFICES ASSUME certs' = certs PROVE FALSE
      OBVIOUS
    <3>1. PICK S : certs \in Seq(S)
      BY Zenon DEF PKIInv, PKITypes
    <3>2. Len(certs) \in Nat /\ Len(certs) > Len(certs)
      BY <3>1
    <3> QED
      BY <3>2
  <2> QED
    BY Zenon, <2>1, PKIStep
<1>2. PKIInv /\ [PKINext]_pkiVars => PKIInv'
  BY Zenon, PKIStep
<1> QED
  BY <1>1, <1>2, PKIInitially, PTL DEF PKISpec, PolicyHolds
=============================================================================
