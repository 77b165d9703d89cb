\* The documented clean-up of every expired managed rule: violated.
SPECIFICATION FairSpec
CONSTANTS
  None = None
  h1 = h1
  alice = alice
  bob = bob
  Jobs = {j1}
  Workers = {w1}
  Hosts = {h1}
  HostOf <- OneHost
  Subjects = {alice, bob}
  Admins = {bob}
  Duration = 2
  LeaseTicks = 1
  RetryTicks = 1
  MaxFaults = 2
  DuplicateRefs = FALSE
PROPERTIES ExpiredRuleIsRemoved
