\* A repository, one collector: the EPSS of the feed must count, and does not.
SPECIFICATION ScanSpec
CONSTANTS
  None = None
  Records = {1, 2}
  Codes = {0, 1, 2, 3}
  MaxParallel = 1
  Ceiling = 1800
  MaxCalls = 1
  MaxTargets = 1
  Kinds = {"repo"}
  Issues <- TwoIssues
  Asset <- ProdAsset
  Epss <- Feed
  Exploited = {"CVE-2"}
  VexFiles <- Statements
INVARIANT EpssIsUsed
CHECK_DEADLOCK FALSE
