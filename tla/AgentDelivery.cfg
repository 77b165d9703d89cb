\* Three lines, an outbox of two, a rotation or a truncation, an event
\* that outlives the archive window and two faults.
SPECIFICATION FairSpec
CONSTANTS
  MaxLines = 3
  Limit = 2
  Capacity = 4
  BatchSize = 2
  ReadFromStart = TRUE
  MaxResets = 1
  MaxStale = 1
  MaxFaults = 2
INVARIANTS OffsetsMeanCollected StoredInOrder
PROPERTIES ImplementsChannel EvidenceArrives HealthIsHeard
