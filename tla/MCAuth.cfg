SPECIFICATION Spec
CONSTANTS
  e1 = e1   l1 = l1   l2 = l2   l3 = l3   p1 = p1   p2 = p2
  o1 = o1
  NoSalt = NoSalt   NoKey = NoKey   NoSession = NoSession
  NoToken = NoToken   NoAnswer = NoAnswer   Closed = Closed
  Password = {p1, p2}
  Slot = {o1}
  From <- MintedByFirst
  TTL = 2
  TokenTTL = 1
  Engine = {e1}
  Login = {l1, l2, l3}
  At <- OneEngine
  MaxTime = 3
  MaxCrashes = 1
  OneSetup = TRUE
SYMMETRY Symmetry
INVARIANTS
  TypeOK
  KeysAgree
  OpenGateResolves
CHECK_DEADLOCK FALSE
