SPECIFICATION Spec
CONSTANTS
  n1 = n1
  n2 = n2
  k1 = k1
  k2 = k2
  ca = ca
  s1 = s1
  NoKey = NoKey
  NoItem = NoItem
  Nodes <- TwoNodes
  Configs <- AllConfigs
  Rotations <- RecipeConfigs
  Keys = {k2}
  Items <- ListOrder
  Secrets = {s1}
  Holders = {1, 2, 3}
  Threshold = 2
  DelayCap = 4
  MaxBad = 1
  MaxCrash = 1
  MaxWatch = 3
  VersionMax = 3
  Limit = 1
  Insecure = FALSE
  MaxGen = 2
CHECK_DEADLOCK FALSE
INVARIANT HoldingTheKeyOpens
