CONSTANTS
  a1 = a1  a2 = a2  g1 = g1  bad = bad
  Torn = Torn  Missing = Missing  Down = Down
  Apply <- TwoApplies
  Config <- TwoConfigs
  Good <- GoodOnes
  First = g1
SPECIFICATION Spec
SYMMETRY Symmetry
VIEW View
INVARIANTS TypeOK LoneApplyIsSafe InstallFollowsCheck FirstResultIsStored
\* The applies are used up in the end.
CHECK_DEADLOCK FALSE
