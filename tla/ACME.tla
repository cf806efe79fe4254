------------------------------- MODULE ACME -------------------------------
(***************************************************************************)
(* The ACME client (internal/acme) as its command line runs it: one        *)
(* process at a time loads or creates the account key, answers the         *)
(* challenges of an order, delivers certificate and key to two files,      *)
(* records them in a state file and runs a hook.  It may fail at every     *)
(* exchange with the server and die between any two writes.                *)
(*                                                                         *)
(* A certificate is its serial; a new one differs from those on disk.      *)
(* Challenge material is a pair of the solver that published it and the    *)
(* name it is for; tokens are fresh, so what an earlier order left behind  *)
(* (orphans) is never touched again.                                       *)
(***************************************************************************)
EXTENDS Integers, Sequences

CONSTANTS
  Profiles,     \* the profiles a command may be started with
  Lifetime,     \* of a certificate
  RenewBefore,  \* renew_before
  MaxNow,       \* bound of the model
  MaxMishaps    \* failures and crashes in one behaviour

ASSUME ACMEAssumption ==
  {Lifetime, RenewBefore, MaxNow, MaxMishaps} \subseteq Nat /\ RenewBefore < Lifetime

VARIABLES
  profile,   \* the profile file
  account,   \* account key file and the keys the server has registered
  disk,      \* [cert, key: serial on disk or 0, state: the state file]
  run,       \* the running command
  orphans,   \* challenge material no running order will clean up
  excused,   \* what became an orphan because a process died or a request failed
  dialed,    \* addresses connected to
  clock,
  mishaps

acmeVars == <<profile, account, disk, run, orphans, excused, dialed, clock, mishaps>>

Idle == [pc |-> "idle", cmd |-> "none", key |-> 0, todo |-> {}, up |-> {}, serial |-> 0]
NoState == [serial |-> 0, notAfter |-> 0]

----------------------------------------------------------------------------
(* Outbound connections.  A host is an address literal, given by its kind, *)
(* or a name, which may resolve differently at every look-up.              *)

Addrs == {"public", "loopback", "private"}
LookupIP(host) == IF host \in Addrs THEN {{host}} ELSE SUBSET Addrs \ {{}}
isBlockedHostname(host) == host = "metadata"
isBlockedIP(a) == a # "public"
PublicLEHost(host) == host = "letsencrypt"
IsLoopbackDirectoryURL(host) == host = "loopback"

ValidateDirectoryURL(host) ==
  ~isBlockedHostname(host) /\ (host \in Addrs => ~isBlockedIP(host))

ValidateOutboundURL(host, ips) ==
  ValidateDirectoryURL(host) /\ (host \notin Addrs => \A a \in ips : ~isBlockedIP(a))

(* The addresses the client will dial: the policy is applied to what the *)
(* name resolves to at that moment.                                      *)
safeHTTPClient(ips, allowLoopback) ==
  {a \in ips : ~isBlockedIP(a) \/ (allowLoopback /\ a = "loopback")}

----------------------------------------------------------------------------
(* Profiles *)

(* A profile that names no http01 mode gets webroot if it has one. *)
HTTPMode(p) ==
  IF p.http01 = "default" THEN (IF p.webroot THEN "webroot" ELSE "listen") ELSE p.http01

Validate(p) ==
  /\ p.tos /\ p.email /\ p.paths /\ p.names # {}
  /\ ~(p.skipVerify /\ PublicLEHost(p.directory))
  /\ ValidateDirectoryURL(p.directory) \/ (p.skipVerify /\ IsLoopbackDirectoryURL(p.directory))
  /\ p.http01 # "none" \/ p.dns # "none"

(* The solvers of a profile; each needs what it works with. *)
BuildSolvers(p) ==
  CASE p.dns \in {"none", "memory"} -> {p.dns} \ {"none"}
    [] p.dns = "webhook" /\ p.hook # "none" -> {"webhook"}
    [] p.dns = "cloudflare" /\ p.token -> {"cloudflare"}
    [] OTHER -> {"refused"}

BuildSolversFromProfile(p) ==
  BuildSolvers(p) \cup
  CASE HTTPMode(p) = "webroot" /\ ~p.webroot -> {"refused"}
    [] OTHER -> {HTTPMode(p)} \ {"none"}

Buildable(p) == BuildSolversFromProfile(p) # {} /\ "refused" \notin BuildSolversFromProfile(p)

(* The first preferred type that is offered and has a solver. *)
TypeOf(solver) == IF solver \in {"webroot", "listen"} THEN "http-01" ELSE "dns-01"
ToConfig(p) == IF p.challenges = <<>> THEN <<"http-01", "dns-01">> ELSE p.challenges

pickChallenge(p, offered) ==
  LET fit(i) == {s \in BuildSolversFromProfile(p) :
                   TypeOf(s) = ToConfig(p)[i] /\ TypeOf(s) \in offered}
  IN UNION {fit(i) : i \in {i \in DOMAIN ToConfig(p) : \A j \in 1..i - 1 : fit(j) = {}}}

----------------------------------------------------------------------------
(* Presenters: what Present for a name may come to, as the set of possible *)
(* [ok, up] with the material that is then published, and what CleanUp of  *)
(* that material may leave.                                                *)

Done(up, s, n) == [ok |-> TRUE, up |-> up \cup {<<s, n>>}]
Lost(up, s, n) == [ok |-> FALSE, up |-> up \cup {<<s, n>>}]
Refused(up) == [ok |-> FALSE, up |-> up]

MemoryHTTP01(up, n) == {Done(up, "listen", n)}
MemoryDNS01(up, n) == {Done(up, "memory", n)}
WebrootHTTP01(up, n) == {Done(up, "webroot", n), Refused(up)}

(* The URL is validated, then dialled: two look-ups. *)
WebhookDNS01(up, n) ==
  LET checked == {ips \in LookupIP(profile.hook) : ValidateOutboundURL(profile.hook, ips)}
      reached == {a \in Addrs : \E ips \in LookupIP(profile.hook) : a \in safeHTTPClient(ips, FALSE)}
  IN {Refused(up)} \cup
     (IF checked = {} \/ reached = {} THEN {} ELSE {Done(up, "webhook", n), Lost(up, "webhook", n)})

(* The zone of the longest matching name; none is an error. *)
CloudflareDNS01(up, n) ==
  {Refused(up), Lost(up, "cloudflare", n), Done(up, "cloudflare", n)}

Present(s, up, n) ==
  CASE s = "listen" -> MemoryHTTP01(up, n)
    [] s = "memory" -> MemoryDNS01(up, n)
    [] s = "webroot" -> WebrootHTTP01(up, n)
    [] s = "webhook" -> WebhookDNS01(up, n)
    [] s = "cloudflare" -> CloudflareDNS01(up, n)

Losable(up) == {m \in up : m[1] \in {"webhook", "cloudflare"}}

(* Everything presented is cleaned up when Issue returns, with an error or *)
(* without; a request to a remote solver may be lost, and nobody is told.  *)
cleanupChallenge(up, lost) == up \cap lost

----------------------------------------------------------------------------
(* NeedsRenew: no record, or the window before its end has begun. *)
NeedsRenew(state) == state.serial = 0 \/ clock + RenewBefore >= state.notAfter

ACMEInit ==
  /\ profile \in Profiles
  /\ account = [file |-> 0, registered |-> {}]
  /\ disk = [cert |-> 0, key |-> 0, by |-> "none", state |-> NoState]
  /\ run = Idle /\ orphans = {} /\ excused = {} /\ dialed = {} /\ clock = 0 /\ mishaps = 0

Mishap == mishaps < MaxMishaps /\ mishaps' = mishaps + 1

(* The process is gone and what it served itself; all else stays. *)
Killed ==
  /\ run.pc # "idle" /\ Mishap
  /\ run' = Idle
  /\ orphans' = orphans \cup {m \in run.up : m[1] \notin {"listen", "memory"}}
  /\ excused' = excused \cup run.up
  /\ UNCHANGED <<profile, account, disk, dialed, clock>>

(* Issue returns: the deferred calls run. *)
CleanUp(lost) ==
  /\ orphans' = orphans \cup cleanupChallenge(run.up, lost)
  /\ excused' = excused \cup lost


----------------------------------------------------------------------------
(* A command *)

(* RunIssue starts whenever asked, RunRenew if the state file says so. *)
RunIssue(cmd) ==
  /\ run.pc = "idle" /\ Validate(profile)
  /\ run' = [Idle EXCEPT !.pc = "account", !.cmd = cmd]
  /\ UNCHANGED <<profile, account, disk, orphans, excused, dialed, clock, mishaps>>

RunRenew == NeedsRenew(disk.state) /\ RunIssue("renew")

NewKey == CHOOSE k \in 1..3 : k \notin account.registered \/ k = 3

CreateUnstored == account' = account
(* A new key is on disk before it is used. *)
LoadOrCreate == account' = [account EXCEPT !.file = IF @ = 0 THEN NewKey ELSE @]

(* Without solvers, or if the listener cannot be opened, it ends here. *)
Account ==
  /\ run.pc = "account" /\ LoadOrCreate
  /\ \/ /\ Buildable(profile)
        /\ run' = [run EXCEPT !.pc = "register", !.key = IF account'.file = 0 THEN NewKey ELSE account'.file]
        /\ UNCHANGED mishaps
     \/ ~Buildable(profile) /\ run' = Idle /\ UNCHANGED mishaps
     \/ "listen" \in BuildSolversFromProfile(profile) /\ run' = Idle /\ Mishap
  /\ UNCHANGED <<profile, disk, orphans, excused, dialed, clock>>

(* Register, where "already registered" is no error, and AuthorizeOrder. *)
Register ==
  /\ run.pc = "register"
  /\ \E ips \in LookupIP(profile.directory) :
       \E a \in safeHTTPClient(ips, profile.skipVerify) : dialed' = dialed \cup {a}
  /\ account' = [account EXCEPT !.registered = @ \cup {run.key}]
  /\ run' = [run EXCEPT !.pc = "authz", !.todo = profile.names]
  /\ UNCHANGED <<profile, disk, orphans, excused, clock, mishaps>>

(* An authorization is valid already, or a challenge is presented for it. *)
Solve == \E n \in run.todo :
  /\ run.pc = "authz"
  /\ \/ run' = [run EXCEPT !.todo = @ \ {n}] /\ UNCHANGED <<orphans, excused, mishaps>>
     \/ \E offered \in SUBSET {"http-01", "dns-01"} : \E s \in pickChallenge(profile, offered) :
          \E r \in Present(s, run.up, n) :
            IF r.ok
            THEN /\ run' = [run EXCEPT !.pc = "accept", !.todo = @ \ {n}, !.up = r.up]
                 /\ UNCHANGED <<orphans, excused, mishaps>>
            ELSE /\ Mishap /\ run' = Idle
                 /\ \E lost \in SUBSET Losable(run.up) : LET more == lost \cup (r.up \ run.up) IN
                      /\ orphans' = orphans \cup cleanupChallenge(run.up, lost) \cup more
                      /\ excused' = excused \cup more
  /\ UNCHANGED <<profile, account, disk, dialed, clock>>

(* Accept and WaitAuthorization *)
Accepted ==
  /\ run.pc = "accept"
  /\ run' = [run EXCEPT !.pc = "authz"]
  /\ UNCHANGED <<profile, account, disk, orphans, excused, dialed, clock, mishaps>>

(* Any other exchange with the server fails, or it offers no usable challenge. *)
Fail ==
  /\ run.pc \in {"register", "authz", "accept"} /\ Mishap
  /\ \E lost \in SUBSET Losable(run.up) : CleanUp(lost)
  /\ run' = Idle
  /\ UNCHANGED <<profile, account, disk, dialed, clock>>

(* WaitOrder, CreateOrderCert, and the deferred cleanup on the way out. *)
Serial == CHOOSE s \in 1..4 : s \notin {disk.cert, disk.key, disk.state.serial}

Finalize ==
  /\ run.pc = "authz" /\ run.todo = {}
  /\ \E lost \in SUBSET Losable(run.up) :
       CleanUp(lost) /\ IF lost = {} THEN UNCHANGED mishaps ELSE Mishap
  /\ run' = [run EXCEPT !.pc = "deliver", !.up = {}, !.serial = Serial]
  /\ UNCHANGED <<profile, account, disk, dialed, clock>>

Record == [serial |-> run.serial, notAfter |-> clock + Lifetime]

WriteCertAndState ==
  /\ run.pc = "deliver"
  /\ disk' = [disk EXCEPT !.state = Record, !.cert = run.serial, !.by = run.cmd]
  /\ run' = [run EXCEPT !.pc = "key"]
  /\ UNCHANGED <<profile, account, orphans, excused, dialed, clock, mishaps>>

(* WritePEMFiles: the certificate, then the key, each by rename. *)
WriteCert ==
  /\ run.pc = "deliver"
  /\ disk' = [disk EXCEPT !.cert = run.serial, !.by = run.cmd]
  /\ run' = [run EXCEPT !.pc = "key"]
  /\ UNCHANGED <<profile, account, orphans, excused, dialed, clock, mishaps>>

WriteKey ==
  /\ run.pc = "key"
  /\ disk' = [disk EXCEPT !.key = run.serial]
  /\ run' = [run EXCEPT !.pc = "state"]
  /\ UNCHANGED <<profile, account, orphans, excused, dialed, clock, mishaps>>

(* The state file follows; whether the hook then fails is not recorded. *)
SaveState ==
  /\ run.pc = "state"
  /\ disk' = [disk EXCEPT !.state = Record]
  /\ run' = Idle
  /\ UNCHANGED <<profile, account, orphans, excused, dialed, clock, mishaps>>

Day ==
  /\ clock < MaxNow /\ clock' = clock + 1
  /\ UNCHANGED <<profile, account, disk, run, orphans, excused, dialed, mishaps>>

Command ==
  \/ Account \/ Register \/ Solve \/ Accepted \/ Finalize
  \/ WriteCert \/ WriteKey \/ SaveState

ACMENext == RunIssue("issue") \/ RunRenew \/ Command \/ Fail \/ Killed \/ Day

ACMESpec == ACMEInit /\ [][ACMENext]_acmeVars

----------------------------------------------------------------------------
(* What the client leaves published after an order: nothing, unless it     *)
(* died, or a remote solver reported a failure (cleanupChallenge).         *)
NothingLeftPublished == orphans \subseteq excused

(* A certificate without its key on disk, left by a renewal that died      *)
(* between the two files, is put right by the next one: the record, which  *)
(* is saved after both (RunIssue), still says that renewal is due.  Only   *)
(* an issue ordered by hand can leave a mismatch that is not due.          *)
MismatchIsDue ==
  run.pc = "idle" /\ disk.cert # disk.key /\ disk.by = "renew" => NeedsRenew(disk.state)

(* LoadOrCreate stores a key before the server hears of it, so one account *)
(* is registered however often orders fail or the process dies.            *)
OneAccount == \A k, l \in account.registered : k = l

(* Whatever a host name resolves to between the check of a URL and the     *)
(* connection, a non-public address is dialled only where a lab directory  *)
(* asks for loopback (safeHTTPClient).                                     *)
DialsAllowed == dialed \subseteq {"public"} \cup (IF profile.skipVerify THEN {"loopback"} ELSE {})

(* A profile that can work is renewed whenever it is due, failures and     *)
(* crashes notwithstanding, if the renew command is run again and again.   *)
Workable == Validate(profile) /\ Buildable(profile)
Renewed == Workable /\ NeedsRenew(disk.state) ~> ~NeedsRenew(disk.state)

(* What the world outside sees of the client, whatever fails or dies, is   *)
(* one account, connections to allowed addresses and, after an order, no   *)
(* challenge material (LoadOrCreate, safeHTTPClient, cleanupChallenge).    *)
Footprint == NothingLeftPublished /\ OneAccount /\ DialsAllowed
=============================================================================
