\* Overlapping scans for ever, one finding, one collector, one failure.
SPECIFICATION FairSpec
CONSTANTS
  None = None
  f1 = f1
  f2 = f2
  t1 = t1
  t2 = t2
  Fps = {f1}
  Tools = {t1}
  Covers <- Overlap
  TargetChoices <- AllTools
  VexChoices <- NoVex
  Exploited = {}
  Marks = {"accepted"}
  Jobs = {j1, j2}
  Ids = {i1, i2, i3, i4}
  MaxScans = 0
  MaxChanges = 2
  MaxMisses = 1
  MaxMarks = 1
  Endless = TRUE
PROPERTIES Converges
