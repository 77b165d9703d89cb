\* Two jobs of one host, two workers, one fault, duplicate references accepted.
SPECIFICATION Spec
CONSTANTS
  None = None
  h1 = h1
  alice = alice
  bob = bob
  Jobs = {j1, j2}
  Workers = {w1, w2}
  Hosts = {h1}
  HostOf <- OneHost
  Subjects = {alice, bob}
  Admins = {bob}
  Duration = 2
  LeaseTicks = 1
  RetryTicks = 1
  MaxFaults = 1
  DuplicateRefs = TRUE
SYMMETRY Symmetry
INVARIANTS IInv TwoPersonRule WithdrawnHasNoEffect
PROPERTIES ImplementsReview
