SPECIFICATION Spec
CONSTANTS
  k1 = k1
  k2 = k2
  p1 = p1
  p2 = p2
  c1 = c1
  c2 = c2
  n1 = n1
  n2 = n2
  ClusterName = {lab}
  Node = {n1, n2}
  VmId = {vm1, vm2}
  Ip = {ip1, ip2}
  Image = {debian}
  Service = {jenkins}
  Nothing = Nothing
  Cluster = {c1}
  Process = {p1}
  Call = {k1, k2}
  MayCrash = TRUE
  MaxVersion = 7
SYMMETRY Symmetry
INVARIANTS
  TypeOK
  HoldersDistinct
  ImagesArePresent
  UsageFollows
PROPERTIES
  ImplementsRegistry
