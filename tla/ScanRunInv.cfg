\* The bounds of ScanRun.cfg.
SPECIFICATION ScanSpec
CONSTANTS
  None = None
  Records = {1, 2}
  Codes = {0, 1, 2, 3}
  MaxParallel = 1
  Ceiling = 1800
  MaxCalls = 2
  MaxTargets = 2
  Kinds <- AllKinds
  Issues <- TwoIssues
  Asset <- ProdAsset
  Epss <- Feed
  Exploited = {"CVE-2"}
  VexFiles <- Statements
CHECK_DEADLOCK FALSE
INVARIANTS ScanInv
