SPECIFICATION FairSpec
CONSTANTS
  h1 = h1
  h2 = h2
  token = token
  Host = {h1, h2}
  Value = {token}
  Plans <- Several
  MaxAttempts = 2
  RetryCount = 2
  MaxRuns = 3
  MaxFaults = 1
  NoRun = NoRun
INVARIANTS
  TypeOK
  DoneIsInEffect
  RendersFromPeers
PROPERTIES
  
  ImplementsPlan
  AbortEnds
CHECK_DEADLOCK FALSE
