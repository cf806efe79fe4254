------------------------------ MODULE MCEdge ------------------------------
(***************************************************************************)
(* Instances of the ACME command line and of the operator's controllers.   *)
(* They share nothing, so each behaviour is one of the four parts.         *)
(***************************************************************************)
EXTENDS ACME, Operator

CONSTANT Parts

VARIABLE part

vars == <<acmeVars, operatorVars, part>>

Plain == [tos |-> TRUE, email |-> TRUE, paths |-> TRUE, names |-> {"a", "b"}, skipVerify |-> FALSE,
          directory |-> "letsencrypt", http01 |-> "default", webroot |-> FALSE, dns |-> "none",
          hook |-> "none", token |-> FALSE, challenges |-> <<>>]

MCProfiles ==
  { Plain,
    [Plain EXCEPT !.webroot = TRUE, !.dns = "cloudflare", !.token = TRUE],
    [Plain EXCEPT !.dns = "cloudflare"],
    [Plain EXCEPT !.http01 = "none", !.dns = "webhook", !.hook = "name", !.directory = "name"],
    [Plain EXCEPT !.dns = "memory", !.skipVerify = TRUE, !.directory = "loopback",
                  !.challenges = <<"dns-01">>, !.names = {"a"}],
    [Plain EXCEPT !.skipVerify = TRUE],
    [Plain EXCEPT !.http01 = "webroot"],
    [Plain EXCEPT !.directory = "private"],
    [Plain EXCEPT !.tos = FALSE] }

Legacy == [legacy |-> TRUE, modes |-> {}]
MCIssuers == {Legacy, [legacy |-> FALSE, modes |-> {"selfsigned"}], [legacy |-> TRUE, modes |-> {"vault", "acme"}]}

Init ==
  /\ ACMEInit /\ OperatorInit /\ part \in Parts
  /\ part # "acme" => profile = Plain
  /\ part # "certificate" => hosts = "a" /\ cert.issuer = Legacy

Next ==
  \/ part = "acme" /\ ACMENext /\ UNCHANGED <<operatorVars, part>>
  \/ part = "certificate" /\ CertNext /\ UNCHANGED <<acmeVars, part>>
  \/ part = "request" /\ RequestNext /\ UNCHANGED <<acmeVars, part>>
  \/ part = "chain" /\ ChainNext /\ UNCHANGED <<acmeVars, part>>

Runs(step) == part = "acme" /\ step /\ UNCHANGED <<operatorVars, part>>
Works(step) == part = "certificate" /\ step /\ UNCHANGED <<acmeVars, part>>
Answers(step) == part = "request" /\ step /\ UNCHANGED <<acmeVars, part>>
Founds(step) == part = "chain" /\ step /\ UNCHANGED <<acmeVars, part>>

(* The renew command is run again and again and the servers answer in the  *)
(* end; the work queue hands out every key, and timers fire.               *)
Spec ==
  /\ Init /\ [][Next]_vars
  /\ WF_vars(Runs(RunRenew)) /\ WF_vars(Runs(Command))
  /\ WF_vars(Works(Controller)) /\ WF_vars(Works(TimerFires))
  /\ SF_vars(Works(NextDay)) /\ WF_vars(Works(IngressReconcile))
  /\ WF_vars(Answers(SignRequest)) /\ WF_vars(Answers(RecordRequest)) /\ WF_vars(Answers(WriteRequestSecret))
  /\ WF_vars(Founds(ReconcileIssuer))
  /\ \A n \in {"root", "inter"} : WF_vars(Founds(ChainStep(n)))

(* A due certificate is renewed, failures and crashes of the ACME command  *)
(* notwithstanding (RunRenew).                                             *)
ForTheClient == part = "acme" => Renewed

(* A missing or expired Secret is replaced (CertificateReconciler).        *)
ForTheCertificate == part = "certificate" => Delivered

(* A certificate request is answered (CertificateRequestReconciler).       *)
ForTheRequest == part = "request" => RequestAnswered

(* A chain of authorities and its issuer become ready (CAReconciler).      *)
ForTheChain == part = "chain" => ChainReady

(* All four get done what they were begun for, although commands die,      *)
(* writes fail and controllers restart.                                    *)
EdgeProgress == ForTheClient /\ ForTheCertificate /\ ForTheRequest /\ ForTheChain
=============================================================================
