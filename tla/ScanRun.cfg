\* Every kind of request, two of its collectors, one slot, two issues.
SPECIFICATION ScanFairSpec
CONSTANTS
  None = None
  Records = {1, 2}
  Codes = {0, 1, 2, 3}
  MaxParallel = 1
  Ceiling = 1800
  MaxCalls = 2
  MaxTargets = 2
  Kinds <- AllKinds
  Issues <- TwoIssues
  Asset <- ProdAsset
  Epss <- Feed
  Exploited = {"CVE-2"}
  VexFiles <- Statements
INVARIANTS NothingIsDroppedSilently ToolsAreBounded
INVARIANTS EveryRecordIsReported ExploitedIsUrgent
PROPERTIES RunEnds
CHECK_DEADLOCK FALSE
