SPECIFICATION HeldSpec
CONSTANTS
  Calls = {t1}
  Resumers = {w1, w2}
  Gates <- AllGates
  Timeouts = {0, 3}
  PollCap = 3
  Headroom = 1
  WriteTimeout = 2
  MaxResumes = 2
  i1 = i1
  NoItem = NoItem
  Unbound = Unbound
CHECK_DEADLOCK FALSE
INVARIANTS
  TypeOK
  RunsAsAnswered
  RedemptionSound
PROPERTIES
  WaitEnds
  ClaimDecides
