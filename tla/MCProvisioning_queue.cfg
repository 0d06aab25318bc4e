SPECIFICATION FairSpec
CONSTANTS
  n1 = n1
  n2 = n2
  v1 = v1
  v2 = v2
  r1 = r1
  r2 = r2
  Node = {n1, n2}
  Vm = {v1}
  Run = {r1}
  Requests <- BothNodes
  DispatchMayFail = TRUE
PROPERTIES
  CancelEnds
