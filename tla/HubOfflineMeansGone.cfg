CONSTANTS
  n1 = n1  n2 = n2  c1 = c1  c2 = c2  k1 = k1  k2 = k2
  None = None
  Node <- OneNode
  Conn <- TwoConns
  Call <- OneCall
  Requests = {}
SPECIFICATION Spec

PROPERTIES OfflineMeansGone
\* Connections and calls are finite here: when they are used up the system stops.
CHECK_DEADLOCK FALSE
