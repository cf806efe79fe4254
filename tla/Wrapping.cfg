SPECIFICATION MCSpec
CONSTANTS
  n1 = n1
  n2 = n2
  n3 = n3
  a = a
  b = b
  c = c
  d = d
  t1 = t1
  t2 = t2
  Nodes = {n1, n2, n3}
  Threads = {a, b, c, d}
  NodeOf <- MCNodeOf
  NoNode = none
  Tokens = {t1, t2}
  Faults = TRUE
  Restarts = TRUE
CHECK_DEADLOCK FALSE
INVARIANTS MinterIsTheException
PROPERTIES RedeemedOnce
