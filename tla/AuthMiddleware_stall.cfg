SPECIFICATION Spec
CONSTANTS
  Readers = {r1, r2}
  Tenants = {"t1", "t2"}
  TenantCfg <- MCTenantCfg
  CfgIssuer <- IdpB
  CfgJWKS = "u2"
  CfgAudience = "lamdis-gateway"
  DevEnv = FALSE
  Requests <- MCRequests
  URLs = {"u1", "u2"}
  TTL = 2
  MaxTime = 2
  MaxKey = 2
  AnsweringURLs = {"u2"}
  NoIssuer = NoIssuer
  NoURL = NoURL
  NoAud = NoAud
  None = None
  NoEntry = NoEntry
  Live = Live
PROPERTY AnsweredWhenOwnIdPAnswers
