SPECIFICATION MCSpec
CONSTANTS
  n1 = n1
  n2 = n2
  n3 = n3
  w1 = w1
  w2 = w2
  w3 = w3
  w4 = w4
  Nodes = {n1, n2, n3}
  Workers = {w1, w2, w3, w4}
  NodeOf <- MCNodeOf
  Paths = {p}
  Connected = {n2, n3}
  Remote = remote
  Keeps = {0, 1}
  DefaultKeep = 2
  TTLs = {TRUE, FALSE}
  Asked = {0, 1}
  MaxPuts = 3
INVARIANTS VersionsUnique NoLostUpdate CacheHonest
PROPERTIES CachesBecomeFresh
