\* An action and its undoing, a revocation and two faults.
SPECIFICATION FairSpec
CONSTANTS
  None = None
  act = act
  undo = undo
  alice = alice
  bob = bob
  Jobs = {act, undo}
  Undoes <- UndoPair
  Subjects = {alice, bob}
  Admins = {bob}
  MaxReceipts = 0
  MaxRevokes = 1
  MaxFaults = 2
INVARIANTS AtMostOnce ReportIsTrue
PROPERTIES WithdrawnStaysOut ImplementsReport ApprovedIsAnswered
