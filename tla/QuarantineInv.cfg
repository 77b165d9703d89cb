\* The bounds of Quarantine.cfg.
SPECIFICATION Spec
CONSTANTS
  None = None
  first = first
  other = other
  third = third
  Files = {first, other, third}
  MaxTouches = 3
  MaxCrashes = 2
INVARIANTS IInv PathKeepsMode
PROPERTIES QuarantinedIsEvidence
