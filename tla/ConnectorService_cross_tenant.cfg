SPECIFICATION SvcSpec
CONSTANTS
  Readers = {r1}
  GwReaders = {r1}
  TTL = 1
  MaxTime = 1
  MaxVersion = 1
  NoEntry = NoEntry
  Tenants = {"t1", "t2"}
  Home = "t1"
  HostTenant <- MCHostTenant
  Synonyms = {"127.0.0.1", "connector"}
  Requests <- MCPairRequests
  InitialConn <- MCInitialConn
  Bases = {"https://up-b", "https://bad host"}
  BadURLs = {"https://bad host"}
  AuthIds = {"x1", "x2"}
  AuthCreator <- MCAuthCreator
  AuthTypes = {"api_key", "bearer"}
  EncKey = "k"
  AdminJWKS = TRUE
  TenantSlugs <- MCTenantSlugs
  AdminRequests <- MCAdminRequests
  NoBase = NoBase
  NoRef = NoRef
  Keep = Keep
  NoTok = NoTok
  NoKey = NoKey
  NoTenant = NoTenant
  Unborn = Unborn
  NoRow = NoRow
  None = None
INVARIANT KeysStayWithTheirTenant
