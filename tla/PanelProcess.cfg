CONSTANTS
  t1 = t1  t2 = t2  n1 = n1  p1 = p1  p2 = p2  s1 = s1  s2 = s2  s3 = s3  k1 = k1  k2 = k2
  None = None  MaxTrouble = 1
  Thread <- TwoThreads
  Node <- OneNode
  Password <- TwoPasswords
  Secret <- ThreeSecrets
  Key <- TwoKeys
SPECIFICATION Spec
SYMMETRY Symmetry
CONSTRAINT OneThingAmiss
INVARIANTS TypeOK OldTokensStayDead RestartKeepsSessions AccountIsWhole CredentialsAreReadable
\* Secrets and keys are used up in the end.
CHECK_DEADLOCK FALSE
PROPERTIES LostKeyIsNotReplaced
