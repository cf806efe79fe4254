CONSTANTS
  Profiles <- MCProfiles
  Lifetime = 2
  RenewBefore = 1
  MaxNow = 3
  MaxMishaps = 2
  Hosts = {"a", "b"}
  Issuers <- MCIssuers
  Duration = 2
  RenewBeforeDays = 1
  MaxFaults = 2
  Parts = {"acme", "certificate", "request", "chain"}
SPECIFICATION Spec
INVARIANTS MismatchIsDue  
PROPERTIES EdgeProgress
CHECK_DEADLOCK FALSE
