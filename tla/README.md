# TLA+ models of the lamdis-core action core

These modules model the policy-bound action pipeline of lamdis-core. Sources
are under `src/`; the design is in `spec.md`. An agent first calls
`preflight`, which resolves facts, evaluates the tenant's Rego policy and stores
a TTL-bound, hash-bound decision. It then calls `execute`, which re-checks that
binding and dispatches the action upstream through the orchestrator, recording
one execution row per idempotency key. Admin endpoints change the inputs of this
pipeline while agents use it: policy versions, fact resolvers and mappings, and
connector operations.

## 1. Inventory

| Part | Source | State | Operations that change state | Interacts with |
|---|---|---|---|---|
| Action endpoints | `internal/policy/http.go` | none (per request) | preflight, execute | facts, policy, orchestrator |
| Policy engine | `internal/policy/service.go` | `decisions` table | `Evaluate` (reads `policy_versions`), `PersistDecision`, `ValidateAndBindDecision` (reads) | facts engine, policy versions |
| Facts engine | `internal/facts/engine.go` | none; reads `fact_resolvers`, `fact_mappings` | none (`ResolveFacts` is a read-only transaction) | facts admin |
| Orchestrator | `internal/orchestrator/service.go` | `executions` table | `Execute`: resolve operation, render template, upstream call, insert row | connector tables, upstream |
| Policy version admin | `internal/adminapi/handlers_policies.go` | `policy_versions` | create (MAX+1 read, then upsert), publish (one UPDATE), test-execute | policy engine, orchestrator |
| Facts admin | `internal/adminapi/handlers_actions.go` | resolvers, mappings | upsert and delete | facts engine |
| Operation registry | `pkg/connectors/registry.go` | per-tenant cache under an RWMutex, TTL 30 s | `LoadOperations` refresh | manifest, connector service |
| Manifest | `internal/manifest/service.go` | none | builds the action list from the registry | orchestrator (action keys) |
| Connector admin | `internal/adminapi/handlers_connectors.go` | `connector_definitions`, `connector_operations`, `tenant_connectors` | create and update of custom connectors (several statements, no transaction), tenant enable, operation enable | registry, orchestrator |
| Auth middleware | `pkg/middleware/auth.go` | process-wide JWKS cache under an RWMutex, TTL 6 h | `jwksCache.get` refresh; `JWTAuth` admits or refuses each request | tenants (issuer, JWKS URL, audiences, scope rules), every service's router |
| Admin auth | `internal/adminapi/auth.go` | none (per request) | `adminAuth` decides the tenant of every admin write | every admin handler |
| Connector service | `internal/connector/handler.go`, `pkg/middleware/tenant.go`, `scope.go` | none (per request); reads the registry cache and `tenant_auth_configs` | the request path: tenant, scope and grant checks, `LoadOperations`, api key injection, upstream call; the OpenAPI build | registry, auth middleware, connector admin, auth-config admin, upstream |
| Auth-config admin | `internal/adminapi/handlers_marketplace_auth.go`, `crypto.go` | `tenant_auth_configs` | create, update (COALESCE), delete, each scoped by the admin's tenant; secrets sealed by `encryptJSON` | connector service |
| DPoP verifier, tenant providers, config, entry points | see `PROJECT.json` | | | |

Hard behaviours the code is exposed to:
- Request handlers run in parallel. Each step is one database statement or one
  upstream call, and admin writes land between any two steps of a request.
- Many errors are dropped (`_ =`, `x, _ :=`). These include the policy read,
  the facts read, the decision insert and the execution insert.
- The TTL boundary: `expiresAt.Before(now)`.
- Retries of `execute`: the same decision, or the same idempotency key.
- Concurrent admin creates that read MAX+1.
- A publish that updates every row of the action.
- The operation cache refresh: RLock check, unlocked query, locked write.
- The JWKS cache refresh: RLock check, then Lock, re-check and a fetch made
  while holding the lock. One lock is shared by all tenants.

## 2. Modules

**`PolicyVersions`** models the `policy_versions` table and its admin handlers.
- State is `policyVersions[t][a][v]` for two tenants (a row with status and
  code, or `NoRow`).
  The variables `adminPc`/`adminReq` hold a create that sits between its two
  statements.
- Actions:
  - `CreatePolicyVersionAt`: the body carries a version, so the create is one upsert.
  - `CreatePolicyVersionReadMax` and then `CreatePolicyVersionUpsert`: the MAX+1 read, then the upsert.
    The read (`handlers_policies.go:120`) filters only on `action_key`, so it
    counts every tenant's versions (`NextVersions`), and its dropped `Scan`
    error leaves version 1.
  - `PublishPolicyVersion`: the single UPDATE. It fails with 404 only when the action has no row.
- `EvaluateReads(t, a)` is the read `Evaluate` does (`policy/service.go:47-49`):
  `WHERE action_key=$2 AND status='published' ORDER BY version DESC LIMIT 1`.
  The query has no `tenant_id` filter. Its `set_config('app.tenant_id')` sits
  in a CTE the main query never references, and PostgreSQL does not evaluate
  such a CTE. No row-level security policy exists under `src/`. So the row
  read is the highest published version of any tenant, and ties give any of
  them. `LatestPublished` is the version of one such row.
- `publishedOnce` is a history variable recording that a publish answered ok.

**`ActionProtocol`** models the preflight and execute handlers with what they
call. It instantiates `PolicyVersions` for its one tenant `Home`
(`PV == INSTANCE PolicyVersions WITH Tenants <- {Home}`) on shared variables,
so admin writes of policies interleave with requests. The other tenant's
rows, and what the untenanted policy read makes of them, are checked in
`PolicyVersions` itself.
- State:
  - `decisions`: a sequence. A decision's id is its index, and id 0 stands for an unknown id.
  - `execRows`: keyed by idempotency key.
  - `cfg[a]`: the revision of the action's resolvers and mappings.
  - `now`: the clock.
  - Per handler: `pc`, `req`, `lFacts`, `lDec`, `lResult`.
  - Histories `dispatches` and `responses`.

- Preflight steps:
  - `PreflightResolveFacts`: `ResolveFacts`.
  - `PreflightEvaluate`: `Evaluate`, including the NEEDS_INPUT answer.
  - `PreflightPersist`: `PersistDecision` and the response.
- Execute steps:
  - `ExecuteBind`: the empty-id check and the row checks of `ValidateAndBindDecision`, in the code's order.
  - `ExecuteRebind`: re-resolve the facts and compare hashes.
  - `ExecuteOrchestrate`: the FAILED paths with their insert, or the upstream call.
  - `ExecuteRecord`: the SUCCEEDED insert and the answer.
- Other actions: `EditFacts` (admin upsert and delete of a mapping or resolver) and `Tick`.
- Data abstraction:
  - Facts are `[cfg, inputs]`, or `Null` when a required mapping fails (`FailingCfgs`) or the read fails.
  - The binding hash is the triple it hashes. SHA-256 over canonical JSON is injective on the data modelled.
  - A Rego module is a code, and `PolicyResult(code, facts)` gives its result.
  - Operation resolution and template rendering give one of the outcomes in `OpOutcome[a]`. Connector rows can change between calls.
- Faults: `Faults` names the dropped errors that may happen. Each one is the outcome the code produces when it drops that error:
  - a failed policy read gives `mod=""`, `ver=0`;
  - a failed facts read gives nil facts;
  - a failed decision insert gives id `""`;
  - a failed execution insert is ignored.

**`FactsEngine`** models `ResolveFacts` and the facts admin handlers.
- State: `resolvers[r]` (`[sample, enabled]` or `NoRow`) and `mappings[m]`
  (`[jmespath, fact_key, transform, transform_args, required]` or `NoRow`) for
  one action. A running resolve has `rdPc`, the resolvers it read
  (`rdResolvers`), its result, and `rdSeen`, the table states committed while
  it ran.
- Actions: `UpsertResolver`, `DeleteResolver`, `UpsertMapping` and
  `DeleteMapping` (with the COALESCE of every field, `enabled` defaulting to
  true and `required` to false); `LoadResolvers`, `LoadMappingsAndApply` and
  `ReturnFacts`, the two reads of the READ COMMITTED transaction and the answer.
- JSON values are tagged records. A JMESPath expression is a path into the
  document (`resolvers.<name>`, `inputs`, a failing and an empty path).
  `ApplyTransform` is `applyTransform` case by case, with `ToFloat`, `IsZero`,
  `ToArray`, `MatchPredicate` and the two `time.Since` calls of `days_between`
  (the clock may move between them: `drift`). `now` is left out: it reads the
  wall clock.
- `ResolveFacts(res, maps, order, drift)` folds the mapping loop over the rows
  in a given order; `CodeResults` is every result some row order and clock
  gives. `SpecResolve` is the spec's procedure (alphabetical order, the
  spec's transform table, truthiness), the reference the code is checked
  against.

**`ConnectorCatalog`** models the custom connector admin handlers, the
manifest's action keys and the orchestrator's resolution of a key.
- A name is a sequence of tokens (a word, flagged when it starts with a
  capital, or a run of non-alphanumerics); a path is a sequence of segments.
  `Groups`/`Joined` are the regexp normalisations: `Slug` (with the camelCase
  split) is the orchestrator's `slug` and the manifest's kind slug,
  `DeriveName` the manifest's `deriveName` (no camelCase split) and
  `DeriveShort` the orchestrator's `deriveShort`.
- State: `defs` (connector definitions by id), `ops` (operation rows, with a
  ghost `by`: the tenant of the request that wrote the row), `tc`
  (`tenant_connectors.enabled`), `adm` (the statements an admin request still
  has to run) and `sent` (history: the operation lists sent for a connector).
- `CreateCustomConnector` and `UpdateCustomConnector` build the request's
  statements exactly as the handler issues them; `InsertDefinition`,
  `UpdateDefinition`, `UpsertTenantConnector`, `DeleteOperations` and
  `InsertOperation` run one statement each, with the unique kind, the foreign
  key and the tenant filter (or its absence) of the SQL. `PutTenantConnector`
  and `PutConnectorAction` are single-statement handlers.
- `Manifest(t)` is `BuildManifest` over `RegistryOps(t)` (the query of
  `LoadOperations`); `Resolve(t, ns, short)` is the set of operations the
  orchestrator's loop can pick, one per row order.

**`OperationRegistry`** models the cache of `LoadOperations` on its database
path for one tenant.
- State: the database version of the tenant's operations, the entry
  `[loadedAt, ver]`, the clock, and per call `pc` and the version its query
  read.
- Actions: `CheckEntry` (RLock, TTL check, RUnlock), `QueryOperations` (no
  lock held; success or error), `StoreEntry` (Lock, overwrite, Unlock),
  `AdminWrite` and `Tick`. Each locked section is one step: it does no I/O
  and every path of it unlocks, so the lock itself is not state.

**`AuthMiddleware`** models `JWTAuth` and its JWKS cache (`pkg/middleware/auth.go`).
- Inputs: a request is a tenant (as `WithTenant` resolved it), a path and an
  Authorization header with its token claims.
- State:
  - the clock;
  - per JWKS URL, the identity provider's current key and when each older key
    was retired;
  - the cache entry `[keys, expires]` and the write lock;
  - per request, its `pc`, the request, and the outcome of its last pass.
- Actions:
  - `Arrive`: the early returns before the cache. These are bypassed paths,
    the dev pass-through, and a tenant with no issuer or JWKS URL after the
    fallbacks.
  - `CheckEntry`: the read-locked fast path.
  - `LockRecheck`: Lock and re-check.
  - `FetchKeys`: the fetch under the lock, storing `now + ttl`, or failing
    with 500.
  - `RotateKey` and `Tick`.
- The token checks (`Authorize`) run in the step that obtains the key set.
  The code does no I/O between `cache.get` and its answer. They follow the
  code's order: bearer prefix; `jwt.Parse` (key in the set, validity, trimmed
  issuer, the single accepted audience); several accepted audiences; `tid`;
  machine scopes; the ACR block.

**`PolicyEvaluate`** models how `policy.Evaluate` turns the value of the
Rego query into a decision, and the admin dry run (`dryRunPolicy`) that
previews it. `ActionProtocol` abstracts a policy result to a status and a TTL;
here the result itself is kept.
- Data: a result is an evaluation error (or empty result set), a value that is
  not an object, or an object. An object's `status` is a string, a non-string,
  or absent; a string is a word of `Words` spelled in one of `Cases`
  (`strings.ToUpper` sets the case). Its `ttl_seconds` is absent or a number,
  held in milliseconds so that fractional seconds are exact.
- `Evaluate(code, r)` follows the code's order: no published code, then the
  error, then a non-object (ALLOW, 15 minutes), then the case-sensitive
  `switch` and the TTL. `DryRun(r)` upper-cases any string status and echoes
  anything else.
- `SpecEvaluate` is spec.md 4.3 written as an operator, the reference for
  `EvaluateMatchesSpec`.
- `NumbersAsFloat` says whether the Rego result holds JSON numbers as
  `float64`. OPA's `rego` package builds result values with `ast.JSON`, which
  gives `json.Number`. So `m["ttl_seconds"].(float64)` (`service.go:89`)
  fails, and every object result gets 15 minutes. The cfgs set it to FALSE.
  With TRUE, `CodeTTL` is the `time.Duration` truncation
  `(t \div 1000) * 1000`.
- Actions: `EvaluateCall` (a preflight's call on the published code) and
  `DryRunPolicy`.

**`ConnectorService`** (EXTENDS `OperationRegistry`) models the connector
service's request path for one tenant, with the admin writes it reads.
- Inputs: a request is a host (`WithTenant` strips the port and maps
  `127.0.0.1`/`connector` to `localhost`), a token (scopes, `gty`) or none (the
  dev pass-through of `JWTAuth`), and a route: health, a canonical operation
  (scopes, user-only) or a dynamic one of the builtin or the custom connector.
- State: the registry's state; `hist`, the custom connector's
  `[base_url, auth_ref]` and its operation's scopes at every database version; `acfg`, each auth config
  row (tenant, type, plain `api_key`, sealed secrets) or none; per request its
  step `gpc`, the request, the connector snapshot its route was built from,
  the key it will send, and its last answer; `calls`, the upstream calls made.
- Actions: `Receive` (health and unknown tenant answer at once), `Canonical`
  (`canonicalHandler`'s scope and grant checks), `LoadCheck`/`LoadQuery`/
  `LoadStore` (`dynamicOperationsRouter`'s `LoadOperations`, composed with the
  registry's `CheckEntry`/`QueryOperations`/`StoreEntry`; an error is a 500),
  `Route` (`HasAnyScope` over the scopes of the loaded operation, which for
  the custom one come from the cached snapshot (`handler.go:115`); echo
  without base_url; `invalid_upstream_url`; then the auth-config read by id,
  whose error only skips the injection (`handler.go:239`)), `Call` (`client.Do`: passthrough, or a 502
  after which the request may still have reached the upstream);
  `OpenAPICheck`/`OpenAPIQuery`/`OpenAPIStore` (`serveOpenAPI`, a second
  caller of the cache that ignores the error); `UpdateConnector`
  (`updateCustomConnector`'s COALESCE of base_url and auth_ref, an admin write
  of the registry), `CreateAuth`/`UpdateAuth`/`DeleteAuth`, and the clock.
- Admin calls pass `adminAuth` (`internal/adminapi/auth.go`), modelled by
  `AdminTenant`. Without an admin JWKS, a call acts for its `X-Tenant-ID`
  header. With one, the token must verify and have role `tenant_admin` or
  `lamdis_admin`; its `tid` claim names the tenant, or, when the claim is
  absent, the header does. A value that is not a tenant id is looked up as a
  slug or host. The admin writes act only for `AdminTenants`, the tenants some
  call of `AdminRequests` is let through for. The pass runs include a token
  without `tid` whose header names t2: the tenant an admin acts for is
  whatever that header says.

**`TemplateRenderer`** models the step of `orchestrator.Execute` that
`ActionProtocol` abstracts to an outcome: building the request of a resolved
operation from its `request_tmpl` and the execute's inputs
(`service.go:152-268`).
- Inputs are JSON as `json.Decode` gives them: a number is a float64. A
  template string is a sequence of literal parts and `{{ key }}` references,
  each flagged when its name matches the code's regexp `[a-zA-Z0-9_.]+`. A path
  is a sequence of literal segments and `{name}` placeholders, each flagged
  when its name matches `[a-zA-Z0-9_]+`.
- `FormatV` is `fmt.Sprintf("%v")` of a float64 that holds an integer. It uses
  strconv's shortest `'g'` form, so an exponent of 6 or more prints as
  `1e+06` or `1.5e+06`. `Lookup` is the dotted walk: a missing name or a
  non-object on the way gives nil. `Resolve` is `resolve`. `PathSegment` is the
  path-param replacement. `Render` is the headers, the query, the body (only
  its top-level strings are resolved), the path, the unresolved-placeholder
  failure and the query attach.
- `RenderRequest(op, in)` is one execute reaching this step; `call` and `out`
  record what it rendered.
- `SpecRender` is spec.md 4.5 written as an operator: any `{{ key }}` or
  `{name}` is substituted, and a value is written as its JSON text.

## 3. Runs

| Run | cfg | Expect | Shows |
|---|---|---|---|
| policy_versions | `PolicyVersions.cfg` | pass | Two tenants, two admins, 3 versions, explicit and MAX+1 creates (the read counting both tenants' versions, or failing to version 1), publishes. `AtMostOnePublished` holds per tenant and action (93,276 states). |
| action_protocol | `ActionProtocol.cfg` | pass | See below. |
| facts_engine | `FactsEngine.cfg` | pass | Upserts (with partial bodies) and deletes of one resolver and two mappings; for every row order and clock drift, `ResolveFacts` equals the spec's procedure on `count`, `first`, `to_number`, `coalesce`, failing optional and required mappings, disabled and deleted resolvers (`FactsMatchSpec`, 234,009 states). |
| connector_catalog | `ConnectorCatalog.cfg` | pass | Two tenants create, update (also each other's ids) and toggle connectors, one statement at a time, with the DELETE that may fail (its error dropped). `TypeOK` holds over 926,805 states; the deeper properties of this module fail and are listed under further counterexamples. |
| auth_middleware | `AuthMiddleware.cfg` | pass | Two concurrent requests of two tenants share one JWKS URL (t1 names it, t2 falls back to `JWKS_URL`), with key rotations, fetch errors and expiries. Two properties hold: `RetiredKeyTrustedUnderTTL` (a retired key is admitted for less than the TTL after its rotation) and `EntryReplacedOnlyWhenExpired` (requests that miss together make one fetch) (63,300 states). |
| connector_service | `ConnectorService.cfg` | pass | One gateway request (six kinds: scoped user, dev without token, unknown host, machine token on a user-only canonical route, builtin operation, health) and one OpenAPI build share the cache, while the admin rewrites the connector and creates, updates and deletes its auth config. `SvcTypeOK` and `KeySentOnlyToPairedUpstream` (a key is sent only to a base_url that the connector held together with that auth_ref, even when the route was built from a stale cache entry and the key read fails) (197,888 states). |
| policy_read_cross_tenant | `PolicyVersions_cross_tenant.cfg` | violation | t2 creates and publishes version 1 of the action key t1 also uses; t1 has none. `Evaluate` for t1 reads t2's row (`policy/service.go:49`), so t2's policy decides t1's actions (`EvaluateReadsOwnPolicy`). |
| idempotent_retry | `ActionProtocol_repeat.cfg` | violation | The same decision is executed twice: two upstream calls. The second answer differs from the recorded row. |
| operations_cross_tenant | `ConnectorCatalog_cross_tenant.cfg` | violation | t1 creates a connector; t2 updates it by id: the scoped UPDATE matches nothing, the unscoped DELETE and the INSERTs replace t1's operations. |
| auth_config_cross_tenant | `ConnectorService_cross_tenant.cfg` | violation | t2 creates auth config x2; t1's admin sets its connector's auth_ref to x2; a t1 request is routed and the connector service reads x2 by id alone (`handler.go:239`) and sends t2's api key upstream. |
| evaluate_matches_spec | `PolicyEvaluate.cfg` | violation | A policy whose query returns a value that is not an object (`policy/service.go:96`) is ALLOW for 15 minutes; spec.md 4.3 says a malformed result is BLOCKED with `policy_error` for 5 minutes. The same run also disagrees on a lower-case or unknown status and on `ttl_seconds`, which is never honoured: it arrives as `json.Number`. |
| render_matches_spec | `TemplateRenderer.cfg` | violation | An execute with inputs `{id: 1000000}` (a JSON number, so a float64) on the refund operation is sent to `/v1/orders/1e+06/refund?q=ref-1e+06`: `resolve` prints values with `%v` (`service.go:190`). spec.md 4.5 says a placeholder renders the value at its path. |

**Further counterexamples.** These configurations check one property each and
TLC finds it violated. They are kept beside the runs to reproduce what they
show (`tlc -config <cfg> MC<Module>`), and are summarised here rather than
listed as runs:

| cfg | Property | What the code does |
|---|---|---|
| `PolicyVersions_publish_missing.cfg` | `OnePublishedAfterPublish` | Create v1, then publish v2, which has no row (`handlers_policies.go:166`). The single UPDATE archives everything, the answer is ok, and no policy is published. |
| `PolicyVersions_recreate_published.cfg` | `OnePublishedAfterPublish` | Creating the number of the published version upserts it as a draft; no version is published. |
| `ActionProtocol_policy_read.cfg` | `DecisionFollowsPublishedPolicy` | A failed policy read is dropped (`policy/service.go:50`) and looks like "no policy": a default ALLOW is stored. |
| `ActionProtocol_decision_insert.cfg` | `AllowAnswerNamesDecision` | A failed decision insert is dropped (`policy/http.go:43`): ALLOW with an empty `decision_id`. |
| `FactsEngine_row_order.cfg` | `FactsMatchSpec` | `loadMappings` has no ORDER BY (`engine.go:127`): two mappings writing one fact key give a result that depends on row order; the spec applies them alphabetically. |
| `FactsEngine_any.cfg` | `FactsMatchSpec` | One-argument `any`/`all` answer `len(arr) > 0` (`engine.go:194`), not the truthiness of the elements. |
| `FactsEngine_sum.cfg` | `FactsMatchSpec` | `sum` of a numeric string is `toFloat` = 0 (`engine.go:160`), not `to_number`. |
| `FactsEngine_days.cfg` | `FactsMatchSpec` | `days_between` reads the clock twice (`engine.go:168`): two days apart can give 1. |
| `FactsEngine_snapshot.cfg` | `ResolveReadsOneSnapshot` | A commit between the resolver read and the mapping read (`engine.go:66`) yields facts of no single database state. |
| `ConnectorCatalog_disabled_op.cfg` | `AdvertisedKeyDispatchesItsOperation` | The registry does not filter `o.enabled` (`registry.go:142`): a disabled operation is advertised and its key dispatches another operation. |
| `ConnectorCatalog_concurrent_update.cfg` | `OperationsMatchASentList` | Two updates of one connector (`handlers_connectors.go:276`): both DELETEs run before the INSERTs, and the connector ends with both lists. A single update whose DELETE fails does the same. |
| `OperationRegistry_stale_overwrite.cfg` | `CacheNeverRegresses` | Call 1 misses and queries version 0. An admin write follows. Call 2 misses, queries and stores version 1. Call 1 then stores version 0 over it (`registry.go:160`). spec.md 4.4 says misses refetch atomically under the write lock. |
| `ConnectorCatalog_camel.cfg` | `AdvertisedKeyDispatchesItsOperation` | Operations `/v1/orders` and `/v1/orderStatus`: the manifest advertises `shop.orderstatus`, the orchestrator names the operation `order-status`, finds no exact match and may dispatch `/v1/orders` (`manifest/service.go:76`). |
| `PolicyEvaluate_dry_run.cfg` | `DryRunPredictsEvaluate` | The dry run upper-cases and echoes the status (`handlers_policies.go:232`): `"allow"` previews ALLOW while preflight stores BLOCKED, and a non-string status is echoed as it is. |
| `ConnectorCatalog_tc_disabled.cfg` | `DispatchOnlyEnabledConnectors` | The orchestrator's query ignores `tenant_connectors` (`orchestrator/service.go:98`): keys of a connector the tenant never enabled are dispatched. |
| `AuthMiddleware_step_up.cfg` | `AdmittedMeetsStepUp` | t1 requires acr `mfa` for `refunds:write`. A token for `refunds:write` with no acr claim is admitted, because the ACR block runs only when the claim is present (`auth.go:163`). |
| `AuthMiddleware_stall.cfg` | `AnsweredWhenOwnIdPAnswers` | t1's JWKS URL never answers; `jwk.Fetch` runs under the process-wide write lock with the request's context, which has no deadline (`auth.go:46`). t2's request, whose own identity provider answers, waits forever. spec.md section 5 says a JWKS fetch has a 10 s deadline and no lock is held across suspensions. Fairness here: the locks are strongly fair (Go's `RWMutex`) and only a fetch from an answering URL is weakly fair. |
| `TemplateRenderer_more_ops.cfg` | `RenderMatchesSpec` | Three more templates are checked. A path param `{order-id}` is never bound and fails with unresolved-path-params. A header `{{order-id}}` is sent literally: both regexps reject `-` (`service.go:170`, `228`). A number literal `1000000` in `path_params` renders as `1e+06`. |

`ActionProtocol_faults.cfg` is a companion passing check of `DispatchAuthorized`
with all four dropped errors and every orchestrator outcome, for one input.
The `action_protocol` run covers two of the faults (the facts read and the
execution insert) at full size.

What the `action_protocol` run checks: two agents send three requests between
them, interleaved with admin edits of facts and policies and with the clock.
The facts read and the execution insert may fail with their errors dropped.
- `DispatchAuthorized`: every upstream call is backed by a stored decision that:
  - has an ALLOW status;
  - is for the same action, inputs and facts;
  - had not expired when it was bound.
It reaches 2,370,990 distinct states.

Bounds:
- One action: actions are independent in every table.
- Two clients and three requests. That is enough for preflight plus two
  executes of one decision, or two concurrent preflights.
- `MaxTime = 2` with a 1 s TTL, so a decision is used at its expiry instant
  and after it.
- `MaxCfg = 1` with the edited revision failing, so facts change, and they
  change to nil.
- `MaxVersion = 1` in the protocol runs: publish and re-create are explored in
  `PolicyVersions`.
- `PolicyVersions`: two tenants (the least for the untenanted reads), one
  action, versions 1..3, two admin handlers (the least for the MAX+1 race)
  and one code in the pass run (codes do not bear on who is published; two in
  the counterexamples).
- `FactsEngine`: one resolver and two mappings (two is the least for a shared
  fact key and for a row order), six mapping bodies covering each required and
  optional failure path and a body that only sets `required`, and at most one
  admin commit between the two reads of a resolve (`MaxCommitsPerRead`).
- `ConnectorCatalog`: two tenants (cross-tenant ids), two connector ids (a
  second create of one kind, then a rename), three operation ids (a create of
  two operations plus an update of one). A request starts only if operation
  ids are left for its inserts. One admin in the pass run: the interleaving of
  two is the `ConnectorCatalog_concurrent_update.cfg` counterexample.
- `OperationRegistry`: two calls (the least for a race), TTL 2 and clock 3 (an
  entry expires and is refetched), two admin writes.
- `ConnectorService`: one gateway request and one OpenAPI build (two cache
  callers; two gateway requests with the admin writes exceed the time
  budget, and their cache race is the registry's), TTL 1 and clock 1 (an
  entry expires and is refetched), one connector update (`MaxVersion = 1`,
  enough for a route built from the older version while a newer one is in
  the database), one auth config in the pass run and two in the violation
  run (the second created by the other tenant), two bases (one good, one
  that fails `url.Parse`).
- `TemplateRenderer`: two operations, one with a template in every part (a
  header from a nested `customer.email`, a query and a path param from `id`, a
  body string from `amount` and a number literal), and one without
  `path_params`. The 45 inputs combine an `id` that is absent, a string, empty,
  7 or 1000000; an `amount` that is absent, 123456 or 1500000; and a `customer`
  that is absent, an object or a string. They take each branch of the lookup,
  of the empty-value rule and of `%v` on either side of its exponent
  threshold. An `ASSUME` in `MCTemplateRenderer` checks `FormatV` on six
  values whose Go output is known.
- `PolicyEvaluate`: five words (the four legal ones and `DENY`), two cases,
  ttl values -1 s, 0, 0.5 s, 1.5 s and 10 minutes (non-positive, a fraction
  below one second, a fraction above, a whole value), a non-string and an
  absent status and ttl, and both "no code" and published code. These are all
  the branches of the switch and the TTL rule.
- `AuthMiddleware`: two requests (the least for a shared miss), one JWKS URL
  used by both tenants, two keys (one rotation), TTL 2 and clock 2. With these
  bounds an entry expires exactly when a key retired at its fetch reaches the
  TTL. The pass run sends five requests:
  - t1 users with a token of either key;
  - an over-scoped machine token;
  - a t2 user;
  - a health probe.

  Bigger token sets (step-up, wrong tenant) go into their own cfgs: every
  token multiplies the states of each request.

Each property of a passing run has a mutant in `PROJECT.json`. The check
replaces the mapped definition by a plausible bug and the property must fail:
- a publish that does not archive the other versions;
- a status switch without its default;
- a hash that omits the facts;
- a bind without the expiry check (for `DispatchAuthorized` under faults);
- a resolver upsert that does not default `enabled` to true;
- a mapping loop that aborts on an optional mapping's error;
- operation inserts that do not default `enabled`;
- a cache store stamped with its expiry time (for `SvcTypeOK`);
- a handler that reads auth_ref from the connector as it is now rather than
  the value captured with the route's base_url;
- a JWKS entry taken as fresh at its expiry instant;
- a JWKS slow path without the re-check under the lock;
- a fetch error path that keeps the write lock (for `TypeOK`).

**Fairness.** The pass runs check safety only, and no specification of a
pass run assumes fairness. A request could be argued to run to its answer
only if each of its steps were sure to return. Nothing in the code ensures
that:
- the servers set no read, write or handler timeout (`cmd/*/main.go` build
  `http.Server{Addr, Handler}` only);
- every database query, `jwk.Fetch` and the orchestrator's upstream call use
  the request's context, which then has no deadline;
- the orchestrator calls upstream with `http.DefaultClient`
  (`orchestrator/service.go:290`), which has no timeout.

A step that may block forever is not weakly fair, so "every request is
answered" is not a property of this code. The one liveness question asked is
`AuthMiddleware_stall.cfg`: a request whose own identity provider answers
must still not wait forever. It assumes that a fetch from an answering URL
returns, and that the locks are strongly fair. Go's `sync.RWMutex` justifies
the strong fairness: a writer's Unlock admits the readers it blocked, and a
`sync.Mutex` waiter is handed the lock in starvation mode. Even so, TLC finds
the property violated. The protocol runs set `CHECK_DEADLOCK FALSE`: once
the bounds are used up, nothing more is enabled.

## 4. Plan

Done:
1. `PolicyVersions`: admin creates and publishes.
2. `ActionProtocol`: the core, composed with 1.
3. `FactsEngine`: `ResolveFacts`, the transforms and the facts admin handlers,
   against the spec's procedure.
4. `ConnectorCatalog`: connector admin handlers, manifest keys and the
   orchestrator's resolution.
5. `OperationRegistry`: the cache of `LoadOperations`.
6. `AuthMiddleware`: `JWTAuth` and its JWKS cache.
7. `ConnectorService`: the connector service's request path composed with the
   registry, and the auth-config admin.
8. `PolicyEvaluate`: `Evaluate`'s classification and TTL against the spec's
   reference, and the dry run against `Evaluate`.
9. `TemplateRenderer`: the orchestrator's request rendering against spec.md
   4.5.

Next, in this order:

10. A test-execute action in `ActionProtocol` (`testExecutePolicy`): dispatch
   without a status check, and taking an agent's idempotency key.
11. The tenant providers' SQL and seeding (`SeedFromEnv` duplicates the seeded
   operations on every boot: `postgres.go:177`).

## 5. Not modelled

- The DPoP verifier `dpopVerifyWithRedis` (Redis SETNX replay cache).
  Nothing calls it: every `JWTAuth` caller passes a nil Redis client, and the
  handler has a TODO where DPoP would be checked. So `REQUIRE_DPOP` and a
  tenant's DPoP-required flag have no effect. `RequireScope` is used by no
  router.
- The cryptography and the claim validation of `jwt.Parse`, abstracted to a
  key id and a validity flag of the token. The `scope` claim is assumed to be
  a string: a non-string one panics in `sc.(string)`.
- The tenant providers: their SQL, the memory provider's defaults (whose
  hosts keep a port that `WithTenant` strips, `memory.go:45`) and
  `SeedFromEnv`. `ConnectorService` takes the resolved host map as a constant.
- The connector service's request bodies, headers, response formatting and
  `usage_events` logging; the OpenAPI document's contents; configuration and
  process start-up.
- The `now` transform (reads the wall clock), `ResolverNeeds`, and the dev
  fallbacks of `ResolveFacts` and `LoadOperations` (no database).
- Builtin connectors' factories, the marketplace registry, the AES-GCM
  cipher itself (a sealed blob is a format and a flag), and the seeding of the `actions` table by the connector
  handlers: the action core reads none of them.
- The `Registry`'s dev path and its builtin factories.
- In `TemplateRenderer`: a template value or an input that is an object or an
  array, which `%v` prints as a Go map (`map[a:1]`), and numbers that are not
  integers. The rendered request is compared with the spec's, and neither
  changes any state. The HTTP call and the reading of its response are the
  outcomes of `ActionProtocol`.
- `testExecutePolicy` (`handlers_policies.go`) runs the same `Execute` as
  `execute`, without the decision status check. Its protocol steps are the
  ones `ActionProtocol` models, and its rendering is `TemplateRenderer`'s.
- `SeedFromEnv`, run by every service at boot: its inserts are
  configuration, not handler state.

These do no state change the action core depends on, or are pure I/O or
formatting. `ActionProtocol`, `FactsEngine` and `OperationRegistry` model one tenant,
because their queries filter by it. `PolicyVersions`, `ConnectorCatalog` and
the cross-tenant `ConnectorService` run model two, because a query of theirs
does not.
