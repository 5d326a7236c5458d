SPECIFICATION PlatformSpec
CONSTANTS
  Parts = {"editor"}
  None = None
  Calls = {c1, c2}
  Users = {"u1"}
  Keys = {"k1"}
  PlanLimit <- SmallPlans
  MaxCalls = 3
  MaxSandbox = 1
  Customers = {"s1", "s2"}
  MaxSubs = 2
  MaxWire = 3
  Emails = {x1, x2}
  Passwords = {p1, p2}
  Google = {}
  GitHub = {Account}
  Account = Account
  Tokens = {"t1", "t2"}
  Requests = {c1, c2}
  MaxRequests = 3
  EmailOn = TRUE
  TableRows = {x1, x2}
  Tabs = {"tab"}
  Names = {"delete", "delete_user"}
  RuleDrafts <- SomeRules
  MaxSent = 3
  PolicyDrafts <- SomePolicies
  TraceSets <- SomeTraces
  Tools <- SomeTools
  Contexts <- SomeContexts
  Scenarios <- SomeScenarios
  Sends = {1}
  HistoryCap = 1
  Answers = {"allow"}
  Identities = {1, 2}
  Worlds <- Pairs
CHECK_DEADLOCK FALSE
INVARIANT DecisionsMatch
