SPECIFICATION FairSpec
CONSTANTS
  Loggers = {g1, g2}
  QueueDepth = 1
  BatchSize = 2
  Configs <- CleanStops
  MaxEvents = 4
  MaxStarts = 1
CHECK_DEADLOCK FALSE
INVARIANTS
  LogSound
  GapsCountLosses
PROPERTIES
  EventuallyLogged
