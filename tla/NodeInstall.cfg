CONSTANTS
  r1 = r1  r2 = r2  e1 = e1
  None = None  MaxTrouble = 1
  Request <- TwoRequests
  Endpoint <- OneEndpoint
SPECIFICATION Spec
SYMMETRY Symmetry
INVARIANTS TypeOK BinaryIsCurrent   DeployingIsAtWork AppliedIsInstalled
\* Faults and overlaps are used up in the end, and a deleted row has no requests.
CHECK_DEADLOCK FALSE
 
