\* One job, two workers that stall, duplicate references accepted.
SPECIFICATION FairSpec
CONSTANTS
  None = None
  h1 = h1
  alice = alice
  bob = bob
  Jobs = {j1}
  Workers = {w1, w2}
  Hosts = {h1}
  HostOf <- OneHost
  Subjects = {alice, bob}
  Admins = {bob}
  Duration = 3
  LeaseTicks = 2
  RetryTicks = 1
  MaxFaults = 2
  DuplicateRefs = TRUE
INVARIANTS AppliedIsEnforced RolledBackIsClean
PROPERTIES ImplementsReview AttemptedIsSettled
