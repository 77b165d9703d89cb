\* A host enrolled again after a revocation met a running job: violated.
SPECIFICATION FairSpec
CONSTANTS
  None = None
  act = act
  undo = undo
  alice = alice
  bob = bob
  Jobs = {act}
  Undoes <- NoUndo
  Subjects = {alice, bob}
  Admins = {bob}
  MaxReceipts = 1
  MaxRevokes = 1
  MaxFaults = 0
PROPERTIES ActiveHostIsServed
