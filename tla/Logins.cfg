SPECIFICATION Spec
SYMMETRY Symmetric
CONSTANTS
  w1 = w1
  w2 = w2
  Workers <- TwoWorkers
  MaxTokens = 1
  MaxTime = 3
  TokenTTL = 1
  MaxTokenTTL = 2
  AgentTTL = 1
  RootTTL = 2
  Policies <- AdminReader
  Includes <- AdminIncludesReader
  Requests = {0, 2}
  Methods <- AllMethods
  Threshold = 2
  LockTTL = 1
  OnRecord = TRUE
  MaxOutages = 1
  MaxLoginTime = 2
CHECK_DEADLOCK FALSE
  
PROPERTIES LivesOnce 
