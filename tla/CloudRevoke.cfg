\* A request that races the revocation of its host: violated.
SPECIFICATION Spec
CONSTANTS
  None = None
  h1 = h1
  alice = alice
  bob = bob
  Jobs = {j1}
  Workers = {w1, w2}
  Hosts = {h1}
  HostOf <- OneHost
  Subjects = {alice, bob}
  Admins = {bob}
  Duration = 2
  LeaseTicks = 1
  RetryTicks = 1
  MaxFaults = 0
  DuplicateRefs = FALSE
PROPERTIES RevokedIsNeverAttempted
