\* The bounds of FindingLifecycle.cfg.
SPECIFICATION Spec
CONSTANTS
  None = None
  f1 = f1
  f2 = f2
  t1 = t1
  t2 = t2
  Fps = {f1, f2}
  Tools = {t1, t2}
  Covers <- Overlap
  TargetChoices <- AllTools
  VexChoices <- SecondIsSuppressed
  Exploited = {f1}
  Marks = {"accepted"}
  Jobs = {j1, j2}
  Ids = {i1, i2, i3, i4, i5, i6}
  MaxScans = 3
  MaxChanges = 1
  MaxMisses = 1
  MaxMarks = 1
  Endless = FALSE
CHECK_DEADLOCK FALSE
SYMMETRY Symmetry
INVARIANTS IInv FixedIsStamped ReportedIsRecorded
