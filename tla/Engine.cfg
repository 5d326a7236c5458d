SPECIFICATION EngineSpec
CONSTANTS
  Items = {i1, i2}
  NoItem = NoItem
  Callers = {c1, c2}
  Prints = {p1, p2}
  Unbound = Unbound
  PendingMaxAge = 1
  ApprovalTTL = 1
  ResolvedRetention = 2
  Horizon = 5
  Slots = {c1, c2}
  Clients = {c}
  read = read
  write = write
  SupportedScopes = {read}
  Asked <- AskedScopes
  MaxCodes = 1
  MaxTokens = 2
  MaxCalls = 4
  MaxStores = 2
  MaxGets = 3
  Tokens = {t1, t2}
  NoToken = NoToken
  NoOne = NoOne
  Launchers = {l1, l2}
  Ports = {4, 5}
  LocalClients = {k1}
  MaxStarts = 1
  HookSlots = {c1, c2}
  Daemons = {d1, d2}
  ToolCalls <- SomeCalls
  NoKey = NoKey
  RepeatThreshold = 2
  WindowSeconds = 2
  MaxToolCalls = 2
  HookHorizon = 2
SYMMETRY Symmetry
CHECK_DEADLOCK FALSE
INVARIANTS
  PartTypeOK
  QueueKeeps
  LauncherSafe
  OAuthSafe
  CredentialsSafe
  HooksSafe
PROPERTIES
  ImplementsLifecycle
