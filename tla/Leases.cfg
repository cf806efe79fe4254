SPECIFICATION MCSpec
CONSTANTS
  NoLease = NoLease
  NoToken = NoToken
  d1 = d1
  s1 = s1
  s2 = s2
  s3 = s3
  s4 = s4
  k1 = k1
  w1 = w1
  w2 = w2
  Leases = {d1, s1, s2, s3, s4}
  Engines = {"database", "ssh"}
  EngineOf <- MCEngineOf
  Tokens = {k1}
  TokenOf <- MCTokenOf
  Renewable = {s1}
  Managed = {"database"}
  Workers = {w1, w2}
  MaxLeases = 1
  Limit = 1
  MaxVersions = 2
  MaxFaults = 1
INVARIANTS  QuotaBound
PROPERTIES RevokedForGood SweepsReachAll
CHECK_DEADLOCK FALSE
