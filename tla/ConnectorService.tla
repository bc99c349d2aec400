--------------------------- MODULE ConnectorService ---------------------------
(***************************************************************************)
(* A request to the connector service (internal/connector/handler.go)     *)
(* after JWTAuth: WithTenant resolves the tenant from the Host header      *)
(* (pkg/middleware/tenant.go); a canonical operation is answered by        *)
(* canonicalHandler; any other path goes to dynamicOperationsRouter, which *)
(* loads the tenant's operations through the registry cache (the          *)
(* OperationRegistry module, composed here), checks the operation's        *)
(* scopes, and makeDynamicOperationHandler calls the connector's base_url, *)
(* injecting the api key of the tenant_auth_configs row named by the       *)
(* connector's auth_ref.  Admins meanwhile update the connector's          *)
(* base_url and auth_ref and create, update and delete auth configs.       *)
(*                                                                         *)
(* One tenant's requests and cache are modelled, with one custom           *)
(* connector: the database version dbVer of OperationRegistry indexes the  *)
(* history hist of the connector's [base, ref] columns and its operation's *)
(* scopes, so a cache entry of version v holds hist[v + 1].  Requests are *)
(* the ones JWTAuth lets through (the AuthMiddleware module checks       *)
(* JWTAuth itself): with a token they carry its scopes and gty, without   *)
(* one (the dev pass-through) none.                                        *)
(* The Readers not in GwReaders are builds of /.well-known/openapi.json   *)
(* (serveOpenAPI), the other caller of LoadOperations.                    *)
(***************************************************************************)
EXTENDS OperationRegistry, FiniteSets, Sequences

CONSTANTS
    Tenants,      \* tenant ids
    Home,         \* the tenant whose requests and cache are modelled
    GwReaders,    \* the Readers that are requests to operations; the others build /.well-known/openapi.json
    HostTenant,   \* the provider's hosts: host -> tenant (memProvider.byHost, tenants.host)
    Synonyms,     \* hosts WithTenant retries as "localhost"
    Requests,     \* [host : [name, port], tok, route]
    InitialConn,  \* the connector as created: [base, ref, scopes]
    Bases,        \* base_url values an update sends ("" keeps the column)
    BadURLs,      \* base URLs url.Parse rejects
    AuthIds,      \* tenant_auth_configs ids
    AuthCreator,  \* id -> the tenants whose admin may create it (uuids are random: WLOG one each)
    AuthTypes,    \* type values an admin sends
    EncKey,       \* ENCRYPTION_KEY of the admin API and the connector service, or None
    AdminJWKS,    \* the admin API has an ADMIN_JWKS_URL (FALSE: the dev header mode)
    TenantSlugs,  \* tenants.slug and tenants.host values -> tenant id
    AdminRequests, \* admin calls: [method, header (X-Tenant-ID or ""), tok: NoTok or [valid, role, tid]]
    NoBase, NoRef, Keep, NoTok, NoKey, NoTenant, Unborn, NoRow, None

VARIABLES
    hist,   \* the connector's [base, ref, scopes] after each admin write, oldest first
    acfg,   \* tenant_auth_configs by id: Unborn, NoRow (deleted) or [tenant, type, plain, blob]
    gpc,    \* per request: "idle", "canonical", "load", "route" or "call"
    greq,   \* per request: the request being served, or NoReq
    snap,   \* per request: the connector's [base, ref, scopes] in the operations it loaded
    gkey,   \* per request: the api key it attaches, [cfg, owner], or NoKey
    calls,  \* the upstream calls made: [url, key, tenant]
    gans    \* per request: whether its last answer ran the operation ("ran") or not
svcVars == <<vars, hist, acfg, gpc, greq, snap, gkey, calls, gans>>
gwVars == <<hist, acfg, gpc, greq, snap, gkey, calls, gans>>

NoReq == [host |-> None, tok |-> NoTok, route |-> None]
NoSnap == [base |-> NoBase, ref |-> NoRef, scopes |-> {}]

-----------------------------------------------------------------------------
(* Pure steps.                                                             *)

(* WithTenant: the port is stripped, the host is tried, then "localhost"   *)
(* for a synonym; no tenant is unknown_tenant.                             *)
Resolve(h) ==
    CASE h.name \in DOMAIN HostTenant                          -> HostTenant[h.name]
      [] h.name \in Synonyms /\ "localhost" \in DOMAIN HostTenant -> HostTenant["localhost"]
      [] OTHER                                                 -> NoTenant

\* ScopesFrom: the scopes JWTAuth stored, none on the dev pass-through.
ScopesOf(q) == IF q.tok = NoTok THEN {} ELSE q.tok.scope

\* GrantTypeFrom: the gty claim of the token in the context, else "".
GrantTypeOf(q) == IF q.tok = NoTok THEN "" ELSE q.tok.gty

\* HasAnyScope: no scope required, or one of them in the context.
HasAnyScope(curr, required) ==
    required = {} \/ (curr # {} /\ curr \cap required # {})

\* canonicalHandler's guards; past them it answers its placeholder result.
CanonicalOutcome(q) ==
    CASE ~HasAnyScope(ScopesOf(q), q.route.scopes)                 -> "insufficient_scope"
      [] q.route.userOnly /\ GrantTypeOf(q) = "client_credentials" -> "grant_not_allowed"
      [] OTHER                                                     -> "canonical"

(* decryptSecrets and the api_key lookup after it: a blob the admin API    *)
(* wrote as plain JSON (no ENCRYPTION_KEY) fails the version byte check;   *)
(* without ENCRYPTION_KEY the connector does not try.                      *)
SecretApiKey(blob) == EncKey # None /\ blob.fmt = "gcm" /\ blob.api

(* The auth injection of makeDynamicOperationHandler: SELECT ... FROM      *)
(* tenant_auth_configs WHERE id=$1, no tenant in the query; for an         *)
(* api_key config the config's api_key, else the decrypted secret's.       *)
InjectedKey(ref) ==
    IF ref = NoRef \/ acfg[ref] \in {Unborn, NoRow} THEN NoKey
    ELSE LET c == acfg[ref] IN
         IF c.type = "api_key" /\ (c.plain \/ SecretApiKey(c.blob))
         THEN [cfg |-> ref, owner |-> c.tenant]
         ELSE NoKey

(* The connector of the request's operation in the operations of         *)
(* version v: the seeded shopify connector (SeedFromEnv) has no base_url   *)
(* and no auth_ref and is read-only to admins; the custom one is hist.     *)
ConnAt(q, v) == IF q.route.conn = "builtin" THEN NoSnap ELSE hist[v + 1]

\* required := o.Scopes of the loaded operation: the custom one's as cached,
\* the seeded one's as seeded (the request names that operation's scopes).
Required(q, s) == IF q.route.conn = "custom" THEN s.scopes ELSE q.route.scopes

\* The auth config read by id, or no key when its query fails (the error
\* only skips the injection).
KeyReads(ref) == {InjectedKey(ref), NoKey}

-----------------------------------------------------------------------------
(* The tenant's custom connector as createCustomConnector inserted it      *)
(* (base_url required, auth_ref as sent), no auth configs, no request.     *)
SvcInit ==
    /\ Init
    /\ hist = <<InitialConn>>
    /\ acfg = [x \in AuthIds |-> Unborn]
    /\ gpc = [r \in Readers |-> "idle"]
    /\ greq = [r \in Readers |-> NoReq]
    /\ snap = [r \in Readers |-> NoSnap]
    /\ gkey = [r \in Readers |-> NoKey]
    /\ calls = {}
    /\ gans = [r \in Readers |-> "none"]

Ran == {"canonical", "echo", "invalid_upstream_url", "passthrough", "upstream_unreachable"}

(* The handler writes its answer o; the request's locals are dropped.  Of *)
(* the answer the model keeps whether the operation's handler ran.        *)
GAnswer(r, o) ==
    /\ gans' = [gans EXCEPT ![r] = IF o \in Ran THEN "ran" ELSE "refused"]
    /\ gpc' = [gpc EXCEPT ![r] = "idle"]
    /\ greq' = [greq EXCEPT ![r] = NoReq]
    /\ snap' = [snap EXCEPT ![r] = NoSnap]
    /\ gkey' = [gkey EXCEPT ![r] = NoKey]

(* A request q arrives: /healthz passes WithTenant, an unknown host is     *)
(* 404; a canonical route goes to canonicalHandler, any other path to      *)
(* dynamicOperationsRouter, which calls LoadOperations.                    *)
Receive(r, q) ==
    /\ gpc[r] = "idle" /\ pc[r] = "idle"
    /\ CASE q.route.k = "health"       -> gans' = [gans EXCEPT ![r] = "none"] /\ UNCHANGED <<gpc, greq>>
         [] Resolve(q.host) = NoTenant -> gans' = [gans EXCEPT ![r] = "refused"]
                                          /\ UNCHANGED <<gpc, greq>>
         [] OTHER -> /\ gpc' = [gpc EXCEPT ![r] = IF q.route.k = "canonical" THEN "canonical" ELSE "load"]
                     /\ greq' = [greq EXCEPT ![r] = q]
                     /\ UNCHANGED gans
    /\ UNCHANGED <<vars, hist, acfg, snap, gkey, calls>>

\* canonicalHandler answers after its guards.
Canonical(r) ==
    /\ gpc[r] = "canonical"
    /\ GAnswer(r, CanonicalOutcome(greq[r]))
    /\ UNCHANGED <<vars, hist, acfg, calls>>

(* LoadOperations' first step: a fresh entry gives the router the         *)
(* operations of its version; a miss goes on to the query.                 *)
LoadCheck(r) ==
    /\ gpc[r] = "load" /\ pc[r] = "idle"
    /\ CheckEntry(r)
    /\ IF Fresh
       THEN /\ gpc' = [gpc EXCEPT ![r] = "route"]
            /\ snap' = [snap EXCEPT ![r] = ConnAt(greq[r], cache.ver)]
       ELSE UNCHANGED <<gpc, snap>>
    /\ UNCHANGED <<hist, acfg, greq, gkey, calls, gans>>

\* The query; its error is answered 500 by dynamicOperationsRouter.
LoadQuery(r) ==
    /\ gpc[r] = "load"
    /\ QueryOperations(r)
    /\ IF pc'[r] = "idle"
       THEN GAnswer(r, "load_failed")
       ELSE UNCHANGED <<gpc, greq, snap, gkey, gans>>
    /\ UNCHANGED <<hist, acfg, calls>>

\* The store under the write lock; the router gets what the query read.
LoadStore(r) ==
    /\ gpc[r] = "load"
    /\ StoreEntry(r)
    /\ gpc' = [gpc EXCEPT ![r] = "route"]
    /\ snap' = [snap EXCEPT ![r] = ConnAt(greq[r], fetched[r])]
    /\ UNCHANGED <<hist, acfg, greq, gkey, calls, gans>>

\* A handler that reads auth_ref from the connector row as it is now instead
\* of the value captured when the route was mounted.
RouteCurrentRef(r) ==
    LET q == greq[r]  s == [snap[r] EXCEPT !.ref = hist[Len(hist)].ref]
    IN /\ gpc[r] = "route"
       /\ CASE ~HasAnyScope(ScopesOf(q), Required(q, s)) -> GAnswer(r, "insufficient_scope")
            [] s.base = NoBase                           -> GAnswer(r, "echo")
            [] s.base \in BadURLs                        -> GAnswer(r, "invalid_upstream_url")
            [] OTHER -> /\ gpc' = [gpc EXCEPT ![r] = "call"]
                        /\ snap' = [snap EXCEPT ![r] = s]
                        /\ \E k \in KeyReads(s.ref) : gkey' = [gkey EXCEPT ![r] = k]
                        /\ UNCHANGED <<greq, gans>>
       /\ UNCHANGED <<vars, hist, acfg, calls>>

(* The route the router built for the operation: HasAnyScope over the    *)
(* scopes of the loaded operation, then makeDynamicOperationHandler: no    *)
(* base_url is the echo answer, a URL url.Parse rejects is 502, else the   *)
(* auth config row is read now and its api key set on the upstream request.*)
Route(r) ==
    LET q == greq[r]  s == snap[r]
    IN /\ gpc[r] = "route"
       /\ CASE ~HasAnyScope(ScopesOf(q), Required(q, s)) -> GAnswer(r, "insufficient_scope")
            [] s.base = NoBase                           -> GAnswer(r, "echo")
            [] s.base \in BadURLs                        -> GAnswer(r, "invalid_upstream_url")
            [] OTHER -> /\ gpc' = [gpc EXCEPT ![r] = "call"]
                        /\ \E k \in KeyReads(s.ref) : gkey' = [gkey EXCEPT ![r] = k]
                        /\ UNCHANGED <<greq, snap, gans>>
       /\ UNCHANGED <<vars, hist, acfg, calls>>

(* client.Do: the upstream answers (passthrough), or an error is 502 --   *)
(* a timeout after the request was sent, so the key may have left.        *)
Call(r) ==
    LET c == [url |-> snap[r].base, key |-> gkey[r], tenant |-> Home]
    IN /\ gpc[r] = "call"
       /\ \/ /\ calls' = calls \cup {c}
             /\ GAnswer(r, "passthrough")
          \/ /\ calls' \in {calls, calls \cup {c}}
             /\ GAnswer(r, "upstream_unreachable")
       /\ UNCHANGED <<vars, hist, acfg>>

-----------------------------------------------------------------------------
(* The admin API.                                                          *)

(* adminAuth's tenant lookup for a value that is not a uuid (tenant ids   *)
(* are; no other value is): SELECT id FROM tenants WHERE slug=$1 OR        *)
(* host=$1 LIMIT 1, a 400 when nothing is found.                           *)
AdminResolve(v) ==
    CASE v \in Tenants             -> v
      [] v \in DOMAIN TenantSlugs  -> TenantSlugs[v]
      [] OTHER                     -> NoTenant

(* adminAuth: the tenant an admin call acts for, or NoTenant when it is   *)
(* refused.  Without JWKS an OPTIONS call is answered 204 and any other    *)
(* call acts for its X-Tenant-ID header.  With JWKS the bearer token must  *)
(* parse and carry role tenant_admin or lamdis_admin; its tid claim, or    *)
(* when it has none the X-Tenant-ID header, names the tenant.              *)
AdminTenant(q) ==
    IF ~AdminJWKS
    THEN IF q.method = "OPTIONS" \/ q.header = "" THEN NoTenant ELSE AdminResolve(q.header)
    ELSE CASE q.tok = NoTok \/ ~q.tok.valid                          -> NoTenant
           [] q.tok.role \notin {"tenant_admin", "lamdis_admin"}     -> NoTenant
           [] q.tok.tid # None                                       -> AdminResolve(q.tok.tid)
           [] q.header # ""                                          -> AdminResolve(q.header)
           [] OTHER                                                  -> NoTenant

\* The tenants some admin call is let through for.
AdminTenants == {AdminTenant(q) : q \in AdminRequests} \ {NoTenant}

(* updateCustomConnector by the tenant's admin: one UPDATE setting        *)
(* base_url = COALESCE(nullIfEmpty(b), base_url) and auth_ref =             *)
(* COALESCE(x, auth_ref): x is Keep when auth_ref is absent (a nil        *)
(* pointer), NoRef when it is "" (stored, and read by the handler as no    *)
(* auth), or any id the body names.  It is an admin write of the           *)
(* operations the registry reads.                                          *)
UpdateConnector(b, x) ==
    LET old == hist[Len(hist)] IN
    /\ AdminWrite
    /\ hist' = Append(hist, [base   |-> IF b = "" THEN old.base ELSE b,
                             ref    |-> IF x = Keep THEN old.ref ELSE x,
                             scopes |-> old.scopes])
    /\ UNCHANGED <<acfg, gpc, greq, snap, gkey, calls, gans>>

\* encryptJSON: GCM under ENCRYPTION_KEY, or plain JSON without it.
Seal(api) == [fmt |-> IF EncKey = None THEN "json" ELSE "gcm", api |-> api]

(* createAuth: 400 without name or type; INSERT with the admin's tenant    *)
(* and a new uuid.  plain: the config has an api_key; api: the secrets do. *)
CreateAuth(t, x, ty, plain, api) ==
    /\ acfg[x] = Unborn /\ t \in AuthCreator[x]
    /\ acfg' = [acfg EXCEPT ![x] = [tenant |-> t, type |-> ty, plain |-> plain, blob |-> Seal(api)]]
    /\ UNCHANGED <<vars, hist, gpc, greq, snap, gkey, calls, gans>>

(* updateAuth: UPDATE ... SET type=COALESCE(nullIfEmpty(ty), type),        *)
(* config=COALESCE(config), secrets_encrypted=COALESCE(...) WHERE id=$5    *)
(* AND tenant_id=$6; Keep stands for an absent config or secrets.          *)
UpdateAuth(t, x, ty, plain, api) ==
    /\ acfg[x] \notin {Unborn, NoRow} /\ acfg[x].tenant = t
    /\ acfg' = [acfg EXCEPT ![x].type  = IF ty = "" THEN @ ELSE ty,
                            ![x].plain = IF plain = Keep THEN @ ELSE plain,
                            ![x].blob  = IF api = Keep THEN @ ELSE Seal(api)]
    /\ UNCHANGED <<vars, hist, gpc, greq, snap, gkey, calls, gans>>

\* deleteAuth: DELETE ... WHERE id=$1 AND tenant_id=$2.
DeleteAuth(t, x) ==
    /\ acfg[x] \notin {Unborn, NoRow} /\ acfg[x].tenant = t
    /\ acfg' = [acfg EXCEPT ![x] = NoRow]
    /\ UNCHANGED <<vars, hist, gpc, greq, snap, gkey, calls, gans>>

(* serveOpenAPI: /.well-known/openapi.json passes JWTAuth unauthenticated *)
(* and calls LoadOperations for the tenant, ignoring its error; the       *)
(* document is built from the result and nothing else is changed.         *)
OpenAPICheck(r) == CheckEntry(r) /\ UNCHANGED gwVars
OpenAPIQuery(r) == QueryOperations(r) /\ UNCHANGED gwVars
OpenAPIStore(r) == StoreEntry(r) /\ UNCHANGED gwVars

SvcTick == Tick /\ UNCHANGED gwVars

SvcNext ==
    \/ \E r \in GwReaders, q \in Requests : Receive(r, q)
    \/ \E r \in Readers \ GwReaders : OpenAPICheck(r) \/ OpenAPIQuery(r) \/ OpenAPIStore(r)
    \/ \E r \in GwReaders : Canonical(r) \/ LoadCheck(r) \/ LoadQuery(r) \/ LoadStore(r) \/ Route(r) \/ Call(r)
    \/ \E b \in Bases, x \in AuthIds \cup {Keep, NoRef} :
          Home \in AdminTenants /\ UpdateConnector(b, x)
    \/ \E t \in AdminTenants, x \in AuthIds :
          \/ \E ty \in AuthTypes, plain, api \in BOOLEAN : CreateAuth(t, x, ty, plain, api)
          \/ \E ty \in AuthTypes \cup {""}, plain, api \in BOOLEAN \cup {Keep} :
                UpdateAuth(t, x, ty, plain, api)
          \/ DeleteAuth(t, x)
    \/ SvcTick

(* No fairness: no step of a request is sure to happen (a registry query *)
(* has only the request's context, which has no deadline), so only safety *)
(* is checked.                                                             *)
SvcSpec == SvcInit /\ [][SvcNext]_svcVars

-----------------------------------------------------------------------------
SvcTypeOK ==
    /\ TypeOK
    /\ Len(hist) = dbVer + 1
    /\ \A i \in 1..Len(hist) : hist[i].ref \in AuthIds \cup {NoRef}
    /\ \A x \in AuthIds : acfg[x] \in {Unborn, NoRow} \/ acfg[x].tenant \in AuthCreator[x]
    /\ gpc \in [Readers -> {"idle", "canonical", "load", "route", "call"}]
    /\ \A r \in Readers : gpc[r] = "idle" <=> greq[r] = NoReq
    \* the registry call of a request is in flight only while it loads
    /\ \A r \in GwReaders : gpc[r] # "load" => pc[r] = "idle"
    /\ gans \in [Readers -> {"none", "ran", "refused"}]
    /\ \A c \in calls : c.tenant = Home

(* The registry query reads a connector's base_url and auth_ref in one row *)
(* and the cache keeps them together: an api key leaves only for a URL    *)
(* that its auth config was paired with on the connector at some time,    *)
(* however stale the cached operations and whatever admins changed while   *)
(* the request ran.                                                        *)
KeySentOnlyToPairedUpstream ==
    \A c \in calls :
        c.key # NoKey => \E i \in 1..Len(hist) : hist[i].base = c.url /\ hist[i].ref = c.key.cfg

(* Tenant isolation (spec: reads scoped by tenant A never observe rows of *)
(* tenant B, regardless of user-provided ids): the api key sent upstream  *)
(* for a tenant's request is one of that tenant's own auth configs.  The  *)
(* connector's auth_ref is whatever id its admin sent, and the connector   *)
(* service reads tenant_auth_configs by id alone.                          *)
KeysStayWithTheirTenant ==
    \A c \in calls : c.key # NoKey => c.key.owner = c.tenant

====
