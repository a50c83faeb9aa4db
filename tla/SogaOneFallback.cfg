CONSTANTS
  r1 = r1  r2 = r2  entry = entry  l1 = l1  l2 = l2  f1 = f1  f2 = f2
  None = None
  Entry = entry
  Request <- OneRequest
  Landing <- TwoLandings
  Folder <- OneFolder
  Payload <- Payloads
SPECIFICATION Spec
INVARIANTS StoredOneFallback
\* The request is used up in the end.
CHECK_DEADLOCK FALSE
