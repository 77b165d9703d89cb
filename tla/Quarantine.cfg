\* One job, three files, three changes by other programs and two crashes.
SPECIFICATION Spec
CONSTANTS
  None = None
  first = first
  other = other
  third = third
  Files = {first, other, third}
  MaxTouches = 3
  MaxCrashes = 2
INVARIANTS VaultIsDescribed SuccessIsReal RestoreRecovers
PROPERTIES NothingIsLost
