CONSTANTS
  Callers <- MCCallers
  Options <- MCOptions
  Callees = {k1, k2}
  Peers = {p1, p2}
  RPM = 2
  Minute = 3
  IdleTTL = 4
  Rooms = {1, 2}
  MaxBurst = 5
  Reports = {r1}
  Doors = {d1, d2}
  Skew = 3
  Tenants <- MCTenants
  PathNames <- MCPathNames
  MaxThings = 3
  MaxLeaseNo = 2
  PolicyNames = {"p", "q", "r"}
  Shapes <- MCShapes
  Requests <- MCRequests
  MaxIncludes = 1
  MaxPattern = 5
  MaxResource = 3
  Keys = {"role", "token"}
  Sensitive = {"token"}
  MaxText = 6
  Secrets = {0, 83, 202}
  Shares = 3
  Thresholds = {2, 3}
  Ttls = {0, 1, 3}
  Wishes = {0, 1, 3}
  Hour = 4
  Parts = {"gate", "bucket", "shared", "replay", "tenancy", "globs", "rules", "details", "text", "shares", "tuning"}
SPECIFICATION Spec
INVARIANTS Entitled BurstBound  ReportedOnce  
PROPERTIES RenewalKeeps KeptAskingServed
CHECK_DEADLOCK FALSE
