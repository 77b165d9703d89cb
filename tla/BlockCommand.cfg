\* Two requests, one of them fresh at a time, one revocation, one restored
\* backup and one crash or lost request.
SPECIFICATION FairSpec
CONSTANTS
  a1 = a1
  a2 = a2
  Alerts = {a1, a2}
  Permitted = {a1}
  ListLimit = 1
  MaxReceipts = 1
  MaxRequests = 2
  MaxRevokes = 1
  MaxRestores = 1
  MaxFaults = 1
INVARIANTS AtMostOnce ReceiptIsTrue
PROPERTIES NoStaleBlock CommandIsAnswered
