SPECIFICATION FairSpec
CONSTANTS
  e1 = e1
  w1 = w1
  w2 = w2
  Execution = {e1}
  Watcher = {w1, w2}
  Of <- OneTarget
  MaxEmits = 3
  LogLines = 3
  Watchdog = TRUE
INVARIANTS
  TypeOK
  NoLostWakeup
PROPERTIES
  SettledStreamIsWhole
  ImplementsStream
  StallIsDetected
  WatchEnds
  ServesStream
CHECK_DEADLOCK FALSE
