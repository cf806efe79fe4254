CONSTANTS
  Nodes = {n1, n2}
  None = none
  Electors = {"k8s", "raft"}
  LeaseTime = 2
  MaxUpsets = 2
  Jobs = {"renewal", "rotation"}
  Paths = {p1, p2}
  Runners = {r1, r2}
  Interval = 1
  MaxTroubles = 2
  Members = {n1, n2}
  MaxKeys = 3
  MaxLapses = 1
  Names = {"admin", "app"}
  Builtin = {"admin"}
  Values = {1, 2}
  Absent = 9
  Replicas = {"n1", "n2"}
  Clients = {c1, c2}
  MaxEdits = 2
  MaxMisses = 1
  Hosts = {n1, n2}
  Entities = {e1, e2}
  Groups = {g1}
  Aliases = {a1}
  NoEntity = none
  MaxWrites = 5
  AppHosts = {n1, n2}
  RoleIDs = {i1}
  SecretIDs = {1, 2}
  MaxSaves = 3
  Recorders = {c1, c2}
  QueueSize = 1
  MaxRecords = 3
  Parts = {"election", "rotation", "transit", "policies", "identities", "approles", "audit"}
SPECIFICATION Spec
INVARIANTS Recoverable DecidedFromStore  
PROPERTIES RefusalsStand 
CHECK_DEADLOCK FALSE
