SPECIFICATION Spec
CONSTANTS
  v1 = v1
  v2 = v2
  i1 = i1
  i2 = i2
  i3 = i3
  jenkins = jenkins
  uuid = uuid
  c1 = c1
  c2 = c2
  Vault = {v1}
  VaultName = {vn}
  SecretId = {i1, i2}
  Service = {uuid}
  ServiceName = {jenkins}
  VaultOf <- InFirst
  NameOf <- AllNamed
  Rest = {pw}
  Call = {c1, c2}
  NoVault = NoVault
  NoSecret = NoSecret
  Operator = Operator
  Torn = Torn
  MayCrash = TRUE
SYMMETRY Symmetry
INVARIANTS
  TypeOK
  OneSecretPerName
  WholeBetweenWrites
PROPERTIES
  ImplementsStore
