SPECIFICATION Spec
CONSTANTS
  Pushers = {c1, c2}
  Policies = {p1, p2}
  Broken = {}
  NoPolicy = NoPolicy
  Nobody = Nobody
  Deployments <- PutOnly
  MaxEdits = 2
  MaxCrashes = 0
SYMMETRY Symmetry
CHECK_DEADLOCK FALSE
PROPERTIES
  NoLostUpdate
