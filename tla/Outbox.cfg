\* Two workers, three notifications, two faults.
SPECIFICATION OutboxFairSpec
CONSTANTS
  w1 = w1
  w2 = w2
  Workers = {w1, w2}
  MaxRows = 3
  MaxFaults = 2
PROPERTIES HolderIsBelieved NoticeIsSettled
CHECK_DEADLOCK FALSE
