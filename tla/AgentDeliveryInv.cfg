\* The bounds of AgentDelivery.cfg.
SPECIFICATION Spec
CONSTANTS
  MaxLines = 3
  Limit = 2
  Capacity = 4
  BatchSize = 2
  ReadFromStart = TRUE
  MaxResets = 1
  MaxStale = 1
  MaxFaults = 2
INVARIANTS IInv
PROPERTIES UnacknowledgedIsRetained
