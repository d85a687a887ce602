SPECIFICATION Spec
CONSTANTS
  Documents <- MCDocuments
  Contents <- MCContents
INVARIANTS
  BridgeCarriesTheOps
  SshCarriesTheOps
  AcceptedKeepsLimits
CHECK_DEADLOCK FALSE
