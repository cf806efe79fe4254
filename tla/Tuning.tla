------------------------------ MODULE Tuning ------------------------------
(***************************************************************************)
(* How long a lease lives: the lease settings of database and SSH roles    *)
(* (internal/domain/secrets/lease_tuning.go, database_role_config.go,      *)
(* ssh_role.go) and the two functions that turn them, and what a caller    *)
(* asks for, into a time to live.                                          *)
(*                                                                         *)
(* One role, edited at will, and one lease.  Times are small numbers of    *)
(* seconds; Hour stands for the built-in default of 3600.                  *)
(***************************************************************************)
EXTENDS Naturals

CONSTANTS Ttls,   \* the settings an operator may give; 0 is "not set"
          Wishes, \* the ttl a caller may ask for; 0 is "not given"
          Hour    \* the built-in default

ASSUME TuningAssumption == Ttls \subseteq Nat /\ Wishes \subseteq Nat /\ Hour \in Nat \ {0}

VARIABLES setting,  \* the role as stored, or NoSetting
          held      \* the lease: seconds left, its ttl, the limit when it was granted

tuningVars == <<setting, held>>

NoSetting == [ssh |-> FALSE, ttl |-> 0, default |-> 0, max |-> 0, period |-> 0]
NoHeld == [left |-> 0, ttl |-> 0, cap |-> 0, same |-> FALSE]
Or(a, b) == IF a = 0 THEN b ELSE a

\* NormalizeDatabaseLeaseTuning
NormalizeDatabase(s) ==
  LET default == Or(s.default, s.ttl)
  IN [s EXCEPT !.default = default, !.max = Or(s.max, default), !.ttl = Or(s.ttl, default)]

\* NormalizeSSHRole
NormalizeSSH(s) ==
  LET ttl == Or(s.ttl, Hour)
      default == Or(s.default, ttl)
  IN [s EXCEPT !.ttl = ttl, !.default = default, !.max = Or(s.max, default)]

\* LeaseTuningFromDatabaseRole
LeaseTuningFromDatabaseRole(s) ==
  LET default == Or(s.default, s.ttl)
  IN [default |-> Or(default, Hour), max |-> Or(Or(s.max, default), Or(default, Hour)),
      period |-> s.period]

\* LeaseTuningFromSSHRole
LeaseTuningFromSSHRole(s) ==
  LET default == Or(s.default, s.ttl)
  IN [default |-> Or(default, Hour), max |-> Or(Or(s.max, default), Or(default, Hour)),
      period |-> s.period]

TuningOf(s) == IF s.ssh THEN LeaseTuningFromSSHRole(s) ELSE LeaseTuningFromDatabaseRole(s)

\* ResolveIssueTTL: a period overrides the caller; 0 is an error.
ResolveIssueTTL(t, wish) ==
  LET ttl == IF t.period > 0 THEN t.period ELSE Or(wish, t.default)
  IN IF ttl > t.max THEN 0 ELSE ttl

\* as below, from the role's default instead of the lease's own ttl
RenewDefault(t, wish, current) ==
  LET asked == IF t.period > 0 THEN t.period ELSE Or(wish, t.default)
  IN IF asked > t.max THEN t.max ELSE asked

\* ResolveRenewTTL: capped, never refused.
ResolveRenewTTL(t, wish, current) ==
  LET asked == IF t.period > 0 THEN t.period ELSE Or(wish, current)
  IN IF asked > t.max THEN t.max ELSE asked

TuningInit == setting = NoSetting /\ held = NoHeld

\* SaveRole: Validate normalises and wants a positive ttl.
SaveSetting ==
  /\ \E ssh \in BOOLEAN, ttl, default, max, period \in Ttls :
       LET raw == [ssh |-> ssh, ttl |-> ttl, default |-> default, max |-> max, period |-> period]
           s == IF ssh THEN NormalizeSSH(raw) ELSE NormalizeDatabase(raw)
       IN /\ held.left > 0 => ssh = setting.ssh
          /\ s.ttl > 0
          /\ setting' = s
  /\ held' = [held EXCEPT !.same = FALSE]

\* GenerateCredentials
IssueFor(wish) ==
  LET t == TuningOf(setting)
      ttl == ResolveIssueTTL(t, wish)
  IN /\ setting # NoSetting /\ held.left = 0 /\ ttl > 0
     /\ held' = [left |-> ttl, ttl |-> ttl, cap |-> t.max, same |-> TRUE]
     /\ UNCHANGED setting

\* Renew, and RenewExpiring, which asks for the lease's own ttl.
RenewFor(wish) ==
  LET t == TuningOf(setting)
      ttl == ResolveRenewTTL(t, wish, held.ttl)
  IN /\ held.left > 0
     /\ held' = [left |-> ttl, ttl |-> ttl, cap |-> t.max, same |-> TRUE]
     /\ UNCHANGED setting

Pass == held.left > 0 /\ held' = [held EXCEPT !.left = @ - 1] /\ UNCHANGED setting

TuningNext == SaveSetting \/ (\E w \in Wishes : IssueFor(w) \/ RenewFor(w)) \/ Pass

TuningSpec == TuningInit /\ [][TuningNext]_tuningVars

-----------------------------------------------------------------------------

\* Renewing without asking for a time never takes time away from a lease
\* whose role has not been edited since it was granted: what
\* ResolveIssueTTL granted, ResolveRenewTTL grants again.
RenewalKeeps == [][(\E w \in {0} : RenewFor(w)) /\ held.same => held'.left >= held.left]_tuningVars
============================================================================
