SPECIFICATION Spec
CONSTANTS
  n1 = n1
  n2 = n2
  c1 = c1
  r1 = r1
  p1 = p1
  l1 = l1
  i1 = i1
  Nodes = {n1, n2}
  CAs = {c1}
  PKIRoles = {r1}
  Policies = {p1}
  Roles = {r1}
  Leases = {l1}
  Identities = {i1}
  NoCA = NoCA
  Cmds <- AllCmds
  MaxLog = 3
  MaxCrashes = 1
  MaxBackups = 0
  AuditLimit = 2
SYMMETRY Symmetric
CHECK_DEADLOCK FALSE
INVARIANT NodesRejoin
