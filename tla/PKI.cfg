SPECIFICATION PKISpec
CONSTANTS
  Roots <- MCRoots
  Intermediates <- MCIntermediates
  Imports <- MCImports
  RolePuts <- MCRolePuts
  Requests <- MCRequests
  CSRs <- MCCSRs
  Founded <- MCFounded
  RenewTTLs = {2}
  LeafTTL = 2
  MaxLeafTTL = 3
  CRLTTL = 1
  Grace = 1
  Limit = 2
  MaxCAs = 2
  MaxAsked = 2
  MaxCerts = 4
  MaxRevoked = 1
  MaxClock = 2
  MaxFailures = 1
CHECK_DEADLOCK FALSE
INVARIANTS RecordsTrue
PROPERTIES  AutoRenewed
