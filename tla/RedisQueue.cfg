SPECIFICATION Spec
CONSTANTS
  Items = {i1}
  NoItem = NoItem
  Callers = {c1, c2, c3}
  Prints = {p1}
  Unbound = Unbound
  Regimes = {{"refused", "crash"}, {"lost", "crash"}}
  PendingMaxAge = 2
  ApprovalTTL = 1
  ResolvedRetention = 4
  CallSpan = 1
  Horizon = 4
SYMMETRY Symmetry
CHECK_DEADLOCK FALSE
INVARIANTS
  TypeOK
  OneWinner
  RedeemSound
  ListedUntilDecided
  DecidedInTime
PROPERTIES
  ImplementsLifecycle
