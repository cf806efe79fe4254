----------------------------- MODULE MCRequest -----------------------------
(***************************************************************************)
(* Instances of what a request passes before and while it is served: the   *)
(* chain of middleware in front of its handler, the limiters, the memory   *)
(* of signed reports, the tenant's prefix, and the rules its contents are  *)
(* held against: patterns, policies, audit details, SQL, shares and lease  *)
(* times.  They share no state, so each behaviour is one of the parts.     *)
(***************************************************************************)
EXTENDS Gate, Throttle, Replay, Tenancy, Decisions, Screening, Shamir, Tuning

CONSTANT Parts

VARIABLE part

Plain == [bearer |-> TRUE, policy |-> "admin", agent |-> FALSE, account |-> "none", header |-> "none",
          signature |-> "absent", cert |-> FALSE]

\* An administrator, a reader of secrets, an agent, a signed request without
\* a token, accounts of a namespace that name their own or another one, and
\* a caller without an account that names one.
MCCallers ==
  {[Plain EXCEPT !.policy = p] : p \in {"admin", "secrets_reader"}}
    \cup {[Plain EXCEPT !.agent = TRUE], [Plain EXCEPT !.bearer = FALSE, !.signature = "valid"],
          [Plain EXCEPT !.account = "ns1", !.header = "ns2", !.cert = TRUE],
          [Plain EXCEPT !.account = "ns1", !.signature = "valid", !.policy = "secrets_admin"],
          [Plain EXCEPT !.header = "ns2", !.signature = "wrong", !.cert = TRUE],
          [Plain EXCEPT !.header = "ns2", !.signature = "valid", !.cert = TRUE, !.policy = "secrets_reader"]}

MCOptions ==
  {[signing |-> "off", tenant |-> FALSE, mtls |-> FALSE, coarse |-> TRUE],
   [signing |-> "optional", tenant |-> TRUE, mtls |-> TRUE, coarse |-> FALSE]}

\* One namespace is the beginning of the other, and names repeat both.
MCTenants == {<<"a">>, <<"a", "b">>}
MCPathNames == {<<>>, <<"x">>, <<"a", "/", "/", "x">>, <<"/", "a", "b", "/", "x", "/">>, <<".", "/", "x">>, <<".", ".", "/", "x">>}

\* A legacy policy over a subtree, a broad one bound to a network and the
\* morning, and a deny whose capabilities hide its legacy actions.
MCShapes ==
  {[effect |-> "allow", resources |-> {<<"a", "/", "*">>}, capabilities |-> {}, actions |-> {"read"},
    conditions |-> <<>>],
   [effect |-> "allow", resources |-> {<<"*">>}, capabilities |-> {"*"}, actions |-> {"read"},
    conditions |-> [time_before |-> 12, ip_cidr |-> {"inside"}]],
   [effect |-> "deny", resources |-> {<<"a", "?", "*">>, <<"a", "/", "b">>}, capabilities |-> {"write", "read"},
    actions |-> {"list"}, conditions |-> <<>>]}

MCRequests ==
  {[resource |-> <<"a", "/", "b">>, action |-> "read", hour |-> 3, ip |-> "inside", labels |-> {},
    namespace |-> "n"],
   [resource |-> <<"a", "b">>, action |-> "list", hour |-> 3, ip |-> "inside", labels |-> {},
    namespace |-> "n"]}

Others(own) ==
  /\ own = "gate" \/ UNCHANGED gateVars
  /\ own = "bucket" \/ UNCHANGED bucketVars
  /\ own = "shared" \/ UNCHANGED sharedVars
  /\ own = "replay" \/ UNCHANGED replayVars
  /\ own = "tenancy" \/ UNCHANGED tenancyVars
  /\ own = "globs" \/ UNCHANGED globVars
  /\ own = "rules" \/ UNCHANGED ruleVars
  /\ own = "details" \/ UNCHANGED detailVars
  /\ own = "text" \/ UNCHANGED textVars
  /\ own = "shares" \/ UNCHANGED shamirVars
  /\ own = "tuning" \/ UNCHANGED tuningVars
  /\ UNCHANGED part

vars == <<gateVars, throttleVars, replayVars, tenancyVars,
          globVars, ruleVars, detailVars, textVars, shamirVars, tuningVars, part>>

\* A part that does not run starts in one state.
Init ==
  /\ part \in Parts
  /\ GateInit /\ ThrottleInit /\ ReplayInit /\ TenancyInit
  /\ GlobInit /\ RuleInit /\ DetailInit /\ TextInit /\ ShamirInit /\ TuningInit
  /\ part # "gate" => option.signing = "off" /\ caller = Plain
  /\ part # "bucket" => maxBuckets = 1
  /\ part # "replay" => age = [r \in Reports |-> 0]
  /\ part # "shares" => coeffs = [i \in 1..2 |-> Zero]

Next ==
  \/ part = "gate" /\ GateNext /\ Others(part)
  \/ part = "bucket" /\ BucketNext /\ Others(part)
  \/ part = "shared" /\ SharedNext /\ Others(part)
  \/ part = "replay" /\ ReplayNext /\ Others(part)
  \/ part = "tenancy" /\ TenancyNext /\ Others(part)
  \/ part = "globs" /\ GlobNext /\ Others(part)
  \/ part = "rules" /\ RuleNext /\ Others(part)
  \/ part = "details" /\ RecordDetails /\ Others(part)
  \/ part = "text" /\ TypeChar /\ Others(part)
  \/ part = "shares" /\ HandIn /\ Others(part)
  \/ part = "tuning" /\ TuningNext /\ Others(part)

Charged(step) == part = "bucket" /\ step /\ Others("bucket")

(* Time passes, and a client that is to be served goes on asking. *)
Spec ==
  /\ Init /\ [][Next]_vars
  /\ WF_vars(Charged(BucketTick))
  /\ \A k \in Callees : WF_vars(Charged(Ask(k)))

(* The liveness of the limiter, for the part it is about. *)
KeptAskingServed == part = "bucket" => AskersAreServed

(* The functions written as loops over indices, bits and trees compute     *)
(* what their reference definitions say: the two pattern matchers, the     *)
(* decision over policies and includes, delegation, redaction and its      *)
(* test, the SQL normal form and the recovery of a shared secret.          *)
FunctionsMeanReferences ==
  /\ PatternsMeanTokens /\ SegmentsWithinPolicies
  /\ DenyWins /\ DelegationNarrows
  /\ RedactedExactly /\ RejectedIsRedacted
  /\ NormalIsLexed
  /\ ThresholdRecovers /\ FewerTellNothing
=============================================================================
