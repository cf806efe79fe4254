------------------------------- MODULE MCPKI -------------------------------
(* PKI with two CAs beside what an import or a rotation adds, one role that *)
(* is moved between them and one that is tightened.                         *)
EXTENDS PKI, TLC

root == <<"root">>
sub == <<"sub">>
web == <<"web">>
a == <<"a">>
b == <<"b">>

MCRoots == {[name |-> root, ttl |-> 3, domains |-> {a}, subdomains |-> TRUE]}
MCIntermediates ==
  {[parent |-> root, name |-> sub, ttl |-> 2, domains |-> {}, subdomains |-> FALSE]}
MCImports ==
  {[name |-> sub, parent |-> root, ttl |-> 2, pair |-> p, key |-> k] :
     p \in {"same", "other"}, k \in {"rsa2048", "ec"}}

DenyAll == [domains |-> {Unconfigured}, subdomains |-> FALSE, max |-> 3, usage |-> "server"]
MCFounded ==
  [cas |-> <<[name |-> root, parent |-> 0, expires |-> 3, crlNext |-> -1],
             [name |-> sub, parent |-> 1, expires |-> 2, crlNext |-> -1]>>,
   roles |-> [n \in {root, sub} |-> DenyAll @@ [ca |-> n]]]

Client == [ca |-> root, domains |-> {AnyName}, subdomains |-> FALSE, max |-> 0, usage |-> "client"]
Short == [ca |-> sub, domains |-> {a}, subdomains |-> FALSE, max |-> 1, usage |-> ""]
MCRolePuts == [n \in {web} |-> {Client, Short}]

Auto == [role |-> root, names |-> {<<"x", "a">>}, ip |-> FALSE, ttl |-> 0, auto |-> TRUE, force |-> ""]
Web == [role |-> web, names |-> {a}, ip |-> FALSE, ttl |-> 0, auto |-> TRUE, force |-> ""]
Address == [role |-> web, names |-> {b}, ip |-> TRUE, ttl |-> 1, auto |-> FALSE, force |-> ""]
ClientCert == [role |-> web, names |-> {a}, ip |-> FALSE, ttl |-> 2, auto |-> FALSE, force |-> "client"]
MCRequests == {Auto, Web, Address, ClientCert}

MCCSRs == {[role |-> web, names |-> n, ip |-> FALSE, mail |-> FALSE, ttl |-> 0] : n \in {{b}}}
=============================================================================
