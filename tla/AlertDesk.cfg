\* Two alerts, so that one gets the id of the other; two changes of one incident;
\* one review; any number of outages and enrolments of a host with one sensor.
SPECIFICATION Spec
CONSTANTS
  Watched = {"agent", "sensor"}
  a1 = a1
  a2 = a2
  Analysts = {a1, a2}
  MaxAlerts = 2
  MaxEdits = 1
  MaxReviews = 1
INVARIANTS EvidenceIsKept VerdictIsOnThisAlert NoChangeIsLost
PROPERTIES OneAlertPerOutage
SYMMETRY AnalystSymmetry
CHECK_DEADLOCK FALSE
