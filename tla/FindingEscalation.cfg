\* Two scans of one finding, one enrichment that finds it exploited.
SPECIFICATION Spec
CONSTANTS
  None = None
  f1 = f1
  f2 = f2
  t1 = t1
  t2 = t2
  Fps = {f1}
  Tools = {t1}
  Covers <- Overlap
  TargetChoices <- AllTools
  VexChoices <- NoVex
  Exploited = {f1}
  Marks = {"accepted"}
  Jobs = {j1, j2}
  Ids = {i1, i2, i3, i4}
  MaxScans = 2
  MaxChanges = 0
  MaxMisses = 0
  MaxMarks = 0
  Endless = FALSE
PROPERTIES EscalationSurvives
CHECK_DEADLOCK FALSE
