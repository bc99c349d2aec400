SPECIFICATION Spec
CONSTANTS
  Home = "t1"
  Clients = {c1, c2}
  Inputs = {"i2"}
  IdemKeys = {k1}
  IdemOf <- MCIdemOf
  NoIdem = NoIdem
  MaxRequests = 3
  MaxTime = 2
  MaxCfg = 1
  FailingCfgs = {1}
  DefaultTTL = 3
  ErrorTTL = 1
  PolicyResult <- MCPolicyResult
  OpOutcome <- MCOpOutcome
  Faults = {"decision_insert"}
  Null = Null
  NoId = NoId
  Actions <- MCActions
  MaxVersion = 1
  Codes <- MCCodes
  Admins = {ad1}
  ExplicitVersion = FALSE
  PublishAnyVersion = FALSE
  NoRow = NoRow
CHECK_DEADLOCK FALSE
INVARIANT AllowAnswerNamesDecision
