SPECIFICATION FairSpec
CONSTANTS
  Pushers = {c1, c2}
  Policies = {p1, p2, bad}
  Broken = {bad}
  NoPolicy = NoPolicy
  Nobody = Nobody
  Deployments <- AnyWriters
  MaxEdits = 2
  MaxCrashes = 1
CHECK_DEADLOCK FALSE
INVARIANTS
  TypeOK
  LiveSurvivesRestart
PROPERTIES
  SyncCatchesUp
