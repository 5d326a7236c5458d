SPECIFICATION Spec
CONSTANTS
  Actors = {a1, a2}
  Handlers = {h1}
  read = read
  refund = refund
  staff = staff
  NoScope = NoScope
  NoRole = NoRole
  NoSignal = NoSignal
  criticality <- Tiers
  Capacity = 1
  TrustedCapacity = 1
  MaxScan = 8
  Threshold = 2
  Window = 1
  AnomalyCapacity = 1
  Confidences = {65}
  Configs <- NarrowOnly
  Calibrations <- Learned
  Histories <- Disputed
  MaxRequests = 3
  Horizon = 2
CHECK_DEADLOCK FALSE
INVARIANTS
  PolicyDenyStands
