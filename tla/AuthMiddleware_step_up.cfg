SPECIFICATION Spec
CONSTANTS
  Readers = {r1, r2}
  Tenants = {"t1", "t2"}
  TenantCfg <- MCTenantCfg
  CfgIssuer <- IdpB
  CfgJWKS = "u1"
  CfgAudience = "lamdis-gateway"
  DevEnv = FALSE
  Requests <- MCStepUpRequests
  URLs = {"u1"}
  TTL = 2
  MaxTime = 2
  MaxKey = 2
  AnsweringURLs = {"u1"}
  NoIssuer = NoIssuer
  NoURL = NoURL
  NoAud = NoAud
  None = None
  NoEntry = NoEntry
  Live = Live
PROPERTY AdmittedMeetsStepUp
