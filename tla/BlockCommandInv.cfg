\* The inductive invariant, with the bounds of BlockCommand.cfg.
SPECIFICATION Spec
CONSTANTS
  Alerts = {a1, a2}
  Permitted = {a1}
  ListLimit = 1
  MaxReceipts = 1
  MaxRequests = 2
  MaxRevokes = 1
  MaxRestores = 1
  MaxFaults = 1
INVARIANTS IInv PendingInv
PROPERTIES ClosedStaysClosed
