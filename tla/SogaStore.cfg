CONSTANTS
  r1 = r1  r2 = r2  entry = entry  l1 = l1  l2 = l2  f1 = f1  f2 = f2
  None = None
  Entry = entry
  Request <- TwoRequests
  Landing <- TwoLandings
  Folder <- TwoFolders
  Payload <- Payloads
SPECIFICATION Spec
SYMMETRY Symmetry
INVARIANTS TypeOK LockFollowsScan FoldersAreUnique OneFallback LoneNeverFails
 
\* The requests are used up in the end.
CHECK_DEADLOCK FALSE
