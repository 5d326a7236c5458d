SPECIFICATION Spec
CONSTANTS
  Actors = {a1, a2}
  Handlers = {h1, h2}
  read = read
  refund = refund
  staff = staff
  NoScope = NoScope
  NoRole = NoRole
  NoSignal = NoSignal
  criticality <- Tiers
  Capacity = 1
  TrustedCapacity = 1
  MaxScan = 8
  Threshold = 2
  Window = 1
  AnomalyCapacity = 1
  Confidences = {30, 100}
  Configs <- AllConfigs
  Calibrations <- Learned
  Histories <- Disputed
  MaxRequests = 3
  Horizon = 2
SYMMETRY Symmetry
CHECK_DEADLOCK FALSE
INVARIANTS
  TypeOK
  DenialSticks
  DenyIsFinal
  SilenceNeverHelps
  RiskSound
PROPERTIES
  LiveDenialsKept
