-------------------------------- MODULE Gate --------------------------------
(***************************************************************************)
(* The way of a request through the HTTP layer (internal/api/router.go):   *)
(* the chain of middleware that the router registers for its route, one    *)
(* step for each of them, and the events that may come between two steps.  *)
(* A resource is the sequence of its path segments.  Throttles are left    *)
(* open here: each of them may refuse any request (see Throttle).          *)
(***************************************************************************)
EXTENDS Naturals, Sequences, SequencesExt

CONSTANTS
  Callers,     \* who sends the request: records of Caller
  Options      \* router configurations: records of Option

VARIABLES
  option,      \* the configuration of this process
  caller,      \* the sender
  sealed,      \* the seal state
  live,        \* whether the sender's token is in the token store
  granted,     \* whether the sender's policy still grants what its name says
  req          \* the request in flight

gateVars == <<option, caller, sealed, live, granted, req>>

Caller == [bearer : BOOLEAN, policy : STRING, agent : BOOLEAN, account : STRING,
           header : STRING, signature : {"valid", "absent", "wrong"}, cert : BOOLEAN]
Option == [signing : {"off", "optional", "required"}, tenant : BOOLEAN, mtls : BOOLEAN, coarse : BOOLEAN]

Every == {"read", "write", "list", "delete", "sudo"}
Allow(under, exact, acts) == [under |-> under, exact |-> exact, acts |-> acts]

(* The built-in policies: `pki/*` covers pki and all below it. *)
Builtins ==
  [admin            |-> Allow({<<>>}, {}, Every),
   pki_admin        |-> Allow({<<"pki">>}, {}, Every),
   secrets_admin    |-> Allow({<<"secrets">>}, {}, Every),
   secrets_reader   |-> Allow({<<"secrets">>}, {}, {"read"}),
   audit_reader     |-> Allow({<<"audit">>}, {}, {"read"}),
   policy_admin     |-> Allow({}, {<<"sys", "policies">>, <<"sys", "roles">>}, Every),
   inject_reader    |-> Allow({<<"inject">>}, {}, {"read"}),
   agent_delegator  |-> Allow({<<"auth", "agent">>}, {}, {"write"})]

(* RBAC.Authorize for a sender with one policy. *)
Permits(policy, need) ==
  /\ need.act \in Builtins[policy].acts
  /\ need.on \in Builtins[policy].exact \/ \E p \in Builtins[policy].under : IsPrefix(p, need.on)

------------------------------------------------------------------------------
(* Steps of a chain. *)
Need(on, act) == [on |-> on, act |-> act]
Step(op) == [op |-> op, any |-> {}]
RequireAny(needs) == [op |-> "permit", any |-> needs]
Require(on, act) == RequireAny({Need(on, act)})

(* RequirePathCapability: the path of the route, when it has one, narrows  *)
(* the resource.                                                           *)
PathResource(base, path) == IF path = "" THEN base ELSE Append(base, path)
RequirePathCapability(base, act, path) == Require(PathResource(base, path), act)

(* A sign request may be allowed on its role, on its mount's sign path, or *)
(* on the whole mount; a write on pki alone is not enough.                 *)
RequirePKISignCapability(mount) ==
  RequireAny({Need(on, "write") : on \in {<<mount, "sign", "role">>, <<mount, "sign", "*">>, <<mount, "sign">>, <<mount, "*">>}})

Route(handler, chain) == [handler |-> handler, chain |-> chain]
Routes(handlers, chain) == {Route(h, chain) : h \in handlers}

(* The group that most routes hang from, without its seal guard. *)
SecuredOpen(o) ==
  <<Step("signing"), Step("auth")>> \o (IF o.tenant THEN <<Step("tenant")>> ELSE <<>>) \o <<Step("throttle")>>

(* The group that most routes hang from. *)
Secured(o) ==
  <<Step("signing"), Step("auth")>> \o (IF o.tenant THEN <<Step("tenant")>> ELSE <<>>)
    \o <<Step("seal"), Step("throttle")>>

(* Routes of that group with one permission. *)
Guarded(o, handlers, on, act) == Routes(handlers, Append(Secured(o), Require(on, act)))

AuthRoutes(o) ==
  LET group == <<Step("seal"), Step("throttle")>>
      own   == group \o <<Step("auth"), Step("seal")>>
  IN  Routes({"LoginKubernetes", "LoginOIDC", "LoginToken", "LoginCert", "LoginLDAP"}, group)
      \cup Routes({"RenewToken", "RevokeSelfToken"}, own)
      \cup {Route("CreateToken", own \o <<Step("throttle"), Require(<<"sys", "auth">>, "sudo")>>),
            Route("DelegateAgent", own \o <<Step("throttle"), Require(<<"auth", "agent">>, "write")>>)}

SysRoutes(o) ==
  {Route("Capabilities", Secured(o))}
    \cup Guarded(o, {"Init"}, <<"sys", "init">>, "write")
    \cup Guarded(o, {"IssueListenerTLS"}, <<"sys", "tls">>, "write")
    \cup Guarded(o, {"RunRotation", "RotateMasterKey"}, <<"sys", "rotate">>, "write")
    \cup Guarded(o, {"ClearLockout", "RegisterAppRole"}, <<"sys", "auth">>, "sudo")
    \cup Guarded(o, {"Seal", "GenerateUnsealShares"}, <<"sys", "seal">>, "write")
    \cup Guarded(o, {"RaftAddNode", "RaftRemoveNode"}, <<"sys", "raft">>, "write")

(* The Vault profile: the health probe comes before the group's throttle.  *)
V1Routes(o) ==
  LET own == <<Step("throttle"), Step("auth"), Step("seal")>>
  IN  {Route("SysHealth", <<>>)}
      \cup Routes({"V1LoginKubernetes", "V1LoginAppRole", "V1LoginMount"}, <<Step("throttle"), Step("seal")>>)
      \cup {Route("SignPKI", Append(own, RequirePKISignCapability("pki"))),
            Route("SignMount", Append(own, RequirePKISignCapability("mount")))}

(* In the coarse mode a write on pki stands in for the finer resources. *)
PKIRoutes(o) ==
  LET write(handlers, on) ==
        Routes(handlers, Append(Secured(o), RequireAny({Need(on, "write")}
                           \cup (IF o.coarse THEN {Need(<<"pki">>, "write")} ELSE {}))))
      path(handlers, base, act) == Routes(handlers, Append(Secured(o), RequirePathCapability(base, act, "id")))
  IN  {Route("OCSP", <<Step("seal"), Step("throttle")>>)}
      \cup write({"CreateRoot", "CreateIntermediate", "ImportCA"}, <<"pki", "ca">>)
      \cup write({"PutPKIRole"}, <<"pki", "roles">>)
      \cup write({"Issue", "IssueClientCert", "Renew"}, <<"pki", "issue">>)
      \cup write({"SignCSR"}, <<"pki", "sign">>)
      \cup write({"Revoke"}, <<"pki", "revoke">>)
      \cup path({"RotateCA"}, <<"pki", "ca">>, "write")
      \cup Guarded(o, {"GetCAByName"}, <<"pki">>, "read")
      \cup path({"GetCA", "ExportCA"}, <<"pki", "ca">>, "read")
      \cup path({"CRL"}, <<"pki", "crl">>, "read")

(* Lists, and the metadata and versions of a path, need list, not read. *)
KVCapability(handler) == IF handler = "ReadKV" THEN "read" ELSE "list"

RequireKVAccess(act) == Require(<<"secrets", "kv", "path">>, act)

KVRoutes(o) ==
  Routes({"WriteKV"}, Secured(o) \o (IF o.mtls THEN <<Step("mtls")>> ELSE <<>>) \o <<RequireKVAccess("write")>>)
    \cup {Route(h, Append(Secured(o), RequireKVAccess(KVCapability(h)))) :
            h \in {"ReadKV", "ListKV", "KVMetadata", "KVVersions"}}
    \cup Routes({"DeleteKV"}, Append(Secured(o), RequireKVAccess("delete")))

DatabaseRoutes(o) ==
  Guarded(o, {"PutDBRole", "GenerateDBCreds", "RenewDB", "RevokeDB"}, <<"secrets", "database">>, "write")
    \cup Guarded(o, {"GetDBRole"}, <<"secrets", "database">>, "read")

SSHRoutes(o) ==
  Guarded(o, {"PutSSHRole", "GenerateSSHCreds", "RenewSSH", "RevokeSSH"}, <<"secrets", "ssh">>, "write")
    \cup Guarded(o, {"GetSSHRole"}, <<"secrets", "ssh">>, "read")

RotationRoutes(o) == Guarded(o, {"PutRotation", "DeleteRotation"}, <<"secrets", "kv">>, "write")

PolicyRoutes(o) ==
  Guarded(o, {"PutPolicy", "DeletePolicy", "PutRole", "DeleteRole", "ImportHCL"}, <<"sys", "policies">>, "write")
    \cup Guarded(o, {"ListPolicies", "GetPolicy", "Simulate"}, <<"sys", "policies">>, "read")
    \cup Guarded(o, {"ListRoles", "GetRole"}, <<"sys", "roles">>, "read")

LeaseRoutes(o) ==
  Guarded(o, {"GetLease", "ListLeases"}, <<"sys", "leases">>, "read")
    \cup Guarded(o, {"RenewLease", "RevokeLease", "BulkRevoke", "RevokePrefix", "Tidy"}, <<"sys", "leases">>, "write")

CubbyholeRoutes(o) ==
  UNION {Guarded(o, {h}, <<"cubbyhole">>, h) : h \in {"write", "read", "delete"}}

(* Unwrapping changes the store and asks for read only. *)
WrappingRoutes(o) ==
  Guarded(o, {"Wrap"}, <<"sys", "wrapping">>, "write")
    \cup Guarded(o, {"Unwrap", "Lookup"}, <<"sys", "wrapping">>, "read")

TransitRoutes(o) ==
  Guarded(o, {"CreateTransitKey", "RotateTransitKey"}, <<"transit", "keys">>, "write")
    \cup Guarded(o, {"ReadTransitKey"}, <<"transit", "keys">>, "read")
    \cup Guarded(o, {"Encrypt", "Rewrap"}, <<"transit", "encrypt">>, "write")
    \cup Guarded(o, {"Decrypt"}, <<"transit", "decrypt">>, "write")
    \cup Guarded(o, {"Sign"}, <<"transit", "sign">>, "write")
    \cup Guarded(o, {"Verify"}, <<"transit", "sign">>, "read")
    \cup Guarded(o, {"HMAC"}, <<"transit", "hmac">>, "write")

IdentityRoutes(o) ==
  Guarded(o, {"CreateEntity", "DisableEntity", "CreateAlias", "CreateGroup"}, <<"identity">>, "sudo")
    \cup Guarded(o, {"ListEntities", "GetEntity", "ListGroups"}, <<"identity">>, "read")

(* These routes have no path parameter, so the base resource is asked for; *)
(* the handlers then ask for every secret that the request names.          *)
InjectRoutes(o) ==
  LET also(handler, base) ==
        Route(handler, Secured(o) \o <<RequirePathCapability(base, "read", ""), RequireKVAccess("read")>>)
  IN  {also("Render", <<"inject", "render">>), also("RecordCSIMount", <<"inject", "csi">>)}

AuditRoutes(o) ==
  Guarded(o, {"Export", "ExportPack"}, <<"audit", "export">>, "read")
    \cup Guarded(o, {"VerifyAudit"}, <<"audit", "verify">>, "read")

NHIRoutes(o) ==
  Guarded(o, {"ListMachines"}, <<"sys", "policies">>, "read")
    \cup Guarded(o, {"RevokeMachine"}, <<"sys", "policies">>, "write")

UnsealRoute(o) == {Route("Unseal", <<Step("throttle")>>)}
ExposureRoute(o) == {Route("ReportExposure", <<Step("exposure")>>)}
BackupRoutes(o) == Guarded(o, {"Backup", "Restore"}, <<"sys", "backup">>, "write")
OpenRoutes(o) == Routes({"Metrics", "Live", "Ready"}, <<>>)

NewRouter(o) ==
  UNION {OpenRoutes(o), AuthRoutes(o), SysRoutes(o), V1Routes(o), PKIRoutes(o), KVRoutes(o), DatabaseRoutes(o),
         SSHRoutes(o), RotationRoutes(o), PolicyRoutes(o), LeaseRoutes(o), CubbyholeRoutes(o), WrappingRoutes(o),
         TransitRoutes(o), IdentityRoutes(o), InjectRoutes(o), AuditRoutes(o), NHIRoutes(o), UnsealRoute(o),
         ExposureRoute(o), BackupRoutes(o)}

------------------------------------------------------------------------------
(* The request: where it is in its chain, whether the KV path it names is  *)
(* in the agent's prefix, what the context carries, and what was true at   *)
(* some moment since it arrived.                                           *)
Idle == [state |-> "idle", handler |-> "none", rest |-> <<>>, inside |-> TRUE, principal |-> FALSE, ns |-> "none",
         sawOpen |-> FALSE, sawLive |-> FALSE, sawGrant |-> FALSE]

Seen(r, isSealed, isLive, isGranted) ==
  IF r.state = "running"
  THEN [r EXCEPT !.sawOpen = @ \/ ~isSealed, !.sawLive = @ \/ isLive, !.sawGrant = @ \/ isGranted]
  ELSE r

GateInit ==
  /\ option \in Options /\ caller \in Callers
  /\ sealed \in BOOLEAN /\ live = TRUE /\ granted = TRUE
  /\ req = Idle

Arrive ==
  /\ req.state = "idle"
  /\ \E route \in NewRouter(option), inside \in (IF caller.agent THEN BOOLEAN ELSE {TRUE}) :
       req' = Seen([Idle EXCEPT !.state = "running", !.handler = route.handler, !.rest = route.chain, !.inside = inside],
                   sealed, live, granted)
  /\ UNCHANGED <<option, caller, sealed, live, granted>>

(* A signature is checked when both headers are there; a wrong or stale    *)
(* one is refused even where signing is optional.                          *)
SigningPasses ==
  \/ option.signing = "off" \/ caller.signature = "valid"
  \/ option.signing = "optional" /\ caller.signature = "absent"

(* A service account's namespace is its own; its header may only repeat it. *)
ResolveTenantNamespace == IF caller.account # "none" THEN caller.account ELSE caller.header
NamespaceAgrees == caller.account = "none" \/ caller.header \in {"none", caller.account}

AuthPasses == caller.bearer /\ live /\ NamespaceAgrees

(* Actions that a delegated token was narrowed to, and its KV prefix. *)
AgentActions == {"read"}
ActionAllowedForPrincipal(act) == caller.agent => act \in AgentActions
KVPathAllowedForPrincipal(on) == IsStrictPrefix(<<"secrets", "kv">>, on) => req.inside

Authorize(need) ==
  /\ ActionAllowedForPrincipal(need.act) /\ KVPathAllowedForPrincipal(need.on)
  /\ granted /\ Permits(caller.policy, need)

SealPasses == ~sealed
TenantPasses == req.ns # "none"
MTLSPasses == caller.cert

(* What each middleware lets pass. *)
Passes(step) ==
  CASE step.op = "signing"  -> SigningPasses
    [] step.op = "auth"     -> AuthPasses
    [] step.op = "tenant"   -> TenantPasses
    [] step.op = "seal"     -> SealPasses
    [] step.op = "mtls"     -> MTLSPasses
    [] step.op = "exposure" -> caller.signature = "valid"
    [] step.op = "permit"   -> req.principal /\ \E need \in step.any : Authorize(need)
    [] step.op = "throttle" -> TRUE

Advance(r, step) ==
  [r EXCEPT !.rest = Tail(@), !.principal = @ \/ step.op = "auth",
            !.ns = IF step.op = "auth" THEN ResolveTenantNamespace ELSE @]

(* One middleware: the next one runs, or the request is answered here.  A  *)
(* throttle may answer although it would have let other requests pass.     *)
Run ==
  /\ req.state = "running" /\ req.rest # <<>>
  /\ \/ Passes(Head(req.rest)) /\ req' = Advance(req, Head(req.rest))
     \/ /\ ~Passes(Head(req.rest)) \/ Head(req.rest).op = "throttle"
        /\ req' = [Idle EXCEPT !.state = "refused"]
  /\ UNCHANGED <<option, caller, sealed, live, granted>>

Handle ==
  /\ req.state = "running" /\ req.rest = <<>>
  /\ req' = [req EXCEPT !.state = "served"]
  /\ UNCHANGED <<option, caller, sealed, live, granted>>

Answered == req.state \in {"served", "refused"} /\ req' = Idle /\ UNCHANGED <<option, caller, sealed, live, granted>>

(* The other requests that matter to this one. *)
SealIt == sealed' = ~sealed /\ req' = Seen(req, sealed', live, granted) /\ UNCHANGED <<option, caller, live, granted>>
RevokeIt == live /\ live' = FALSE /\ UNCHANGED <<option, caller, sealed, granted, req>>
WithdrawIt == granted /\ granted' = FALSE /\ UNCHANGED <<option, caller, sealed, live, req>>

GateNext == Arrive \/ Run \/ Handle \/ Answered \/ SealIt \/ RevokeIt \/ WithdrawIt

------------------------------------------------------------------------------
Served(handlers) == req.state = "served" /\ req.handler \in handlers

(* Routes that a sealed vault answers, and those that need no token. *)
Unsealed == {"Metrics", "Live", "Ready", "SysHealth", "Unseal", "ReportExposure"}
Anonymous == Unsealed \cup {"OCSP", "LoginKubernetes", "LoginOIDC", "LoginToken", "LoginCert", "LoginLDAP",
                            "V1LoginKubernetes", "V1LoginAppRole", "V1LoginMount"}
SelfService == {"RenewToken", "RevokeSelfToken", "Capabilities"}
All == {route.handler : route \in NewRouter(option)}

(* A vault that stays sealed from the arrival of a request on serves none  *)
(* of the data plane, logins and OCSP included: a request served had the   *)
(* vault open at some moment of its way (SealGuard on every group).        *)
SealHolds == Served(All \ Unsealed) => req.sawOpen

(* A token that was revoked before the request came is not served, and a   *)
(* policy withdrawn before it came serves nothing but the requests about   *)
(* the token itself (Auth and RequirePermission on every secured route).   *)
RevokedIsRefused ==
  /\ Served(All \ Anonymous) => req.sawLive
  /\ Served(All \ (Anonymous \cup SelfService)) => req.sawGrant

(* Handlers that change what the vault stores. *)
Changes ==
  {"CreateToken", "DelegateAgent", "Init", "IssueListenerTLS", "RunRotation", "RotateMasterKey", "ClearLockout",
   "RegisterAppRole", "Seal", "GenerateUnsealShares", "RaftAddNode", "RaftRemoveNode", "SignPKI", "SignMount",
   "CreateRoot", "CreateIntermediate", "ImportCA", "PutPKIRole", "Issue", "IssueClientCert", "Renew", "SignCSR",
   "Revoke", "RotateCA", "WriteKV", "DeleteKV", "PutDBRole", "GenerateDBCreds", "RenewDB", "RevokeDB", "PutSSHRole",
   "GenerateSSHCreds", "RenewSSH", "RevokeSSH", "PutRotation", "DeleteRotation", "PutPolicy", "DeletePolicy",
   "PutRole", "DeleteRole", "ImportHCL", "RenewLease", "RevokeLease", "BulkRevoke", "RevokePrefix", "Tidy", "write",
   "delete", "Wrap", "CreateTransitKey", "RotateTransitKey", "CreateEntity", "DisableEntity", "CreateAlias",
   "CreateGroup", "RevokeMachine", "Backup", "Restore"}

(* Who may only read, by policy or by delegation, changes nothing: no      *)
(* mutating route hangs behind a read permission.  Unwrapping is the one   *)
(* exception, on purpose.  And a delegated token sees secrets of its own   *)
(* prefix only, through whichever route it asks for them.                  *)
ReadersOnlyRead ==
  /\ caller.agent \/ Builtins[caller.policy].acts \subseteq {"read"} => ~Served(Changes)
  /\ caller.agent => ~Served({"ReadKV", "ListKV", "KVMetadata", "KVVersions", "Render"}) \/ req.inside

(* In tenant mode a request behind the secured group has a namespace, and  *)
(* a service account's is its own whatever the header says.                *)
TenantBound ==
  option.tenant /\ Served(All \ (Anonymous \cup {"SignPKI", "SignMount", "RenewToken", "RevokeSelfToken",
                                                 "CreateToken", "DelegateAgent"}))
    => req.ns # "none" /\ caller.account \in {"none", req.ns}

(* Who is served was entitled to it at some moment of the request's way:   *)
(* by the seal, by the token and its policy, by what readers may do, and   *)
(* by the tenant (the middleware that NewRouter puts before each handler). *)
Entitled == SealHolds /\ RevokedIsRefused /\ ReadersOnlyRead /\ TenantBound
=============================================================================
