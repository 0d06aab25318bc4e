SPECIFICATION Spec
CONSTANTS
  n1 = n1
  n2 = n2
  v1 = v1
  v2 = v2
  r1 = r1
  r2 = r2
  Node = {n1}
  Vm = {v1, v2}
  Run = {r1, r2}
  Requests <- OneNode
  DispatchMayFail = TRUE
SYMMETRY Symmetry
VIEW SafetyView
INVARIANTS
  TypeOK
  StartedHasDriver
  ToolExclusive
PROPERTIES
  VmsLocked
  SuccessIsReal
