------------------------------ MODULE MCLogins ------------------------------
EXTENDS Logins, TLC

CONSTANTS w1, w2

TwoWorkers == {w1, w2}
AdminReader == {"admin", "reader"}
AdminIncludesReader == [p \in {"admin", "reader"} |-> IF p = "admin" THEN {"reader"} ELSE {}]
AllMethods == {"kubernetes", "oidc", "approle", "cert", "ldap", "token"}
Symmetric == Permutations(TwoWorkers)
=============================================================================
