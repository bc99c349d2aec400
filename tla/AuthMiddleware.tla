--------------------------- MODULE AuthMiddleware ---------------------------
(***************************************************************************)
(* JWTAuth (pkg/middleware/auth.go): the gate every request of the        *)
(* connector, policy and manifest services passes, with the process-wide   *)
(* JWKS cache it shares between tenants.  A request picks its tenant's     *)
(* issuer and JWKS URL (or the global ones), gets the key set from the     *)
(* cache -- read lock for a fresh entry; otherwise the write lock, a       *)
(* re-check, and a fetch made while holding that lock -- then checks the   *)
(* bearer token and the tenant's audience, tenant, machine-scope and ACR   *)
(* rules, and admits the request with the token's scopes.                  *)
(*                                                                         *)
(* The identity provider behind a JWKS URL rotates its signing key; a      *)
(* token names the key that signed it (kid), or a key no set contains.     *)
(* Signature, exp/nbf/iat and skew checks of jwt.Parse are abstracted to   *)
(* the key being in the cached set and a `valid` flag of the token.        *)
(***************************************************************************)
EXTENDS Naturals, Sequences, FiniteSets

CONSTANTS
    Readers,      \* concurrent requests (goroutines of the HTTP server)
    Tenants,      \* tenant ids
    TenantCfg,    \* t -> [issuer, jwks, aud, machine, acr] of the tenant row
    CfgIssuer,    \* OIDC_ISSUER
    CfgJWKS,      \* JWKS_URL
    CfgAudience,  \* OIDC_AUDIENCE, or NoAud
    DevEnv,       \* LAMDIS_ENV = "dev"
    Requests,     \* what clients send: [t (tenant of the Host), p (path), tok (Authorization)]
    URLs,         \* JWKS URLs
    TTL,          \* jwksTTL, in ticks
    MaxTime,      \* bound of the clock
    MaxKey,       \* bound of the key rotations per URL
    AnsweringURLs,\* the JWKS URLs whose identity provider answers a fetch
    NoIssuer, NoURL, NoAud, None, NoEntry, Live

VARIABLES
    now,        \* the clock of time.Now
    idpKey,     \* per URL: the key the identity provider signs with and publishes
    retiredAt,  \* per URL and key: when it stopped being published, or Live
    cache,      \* jwksCache.sets: per URL NoEntry or [keys, expires]
    wlocked,    \* jwksCache.mu is write-locked
    pc,         \* per request: "idle", "check", "lock" or "fetch"
    req,        \* per request: [t, tok, u] while it is in the middleware
    ans         \* per request: the outcome of its last pass through JWTAuth
vars == <<now, idpKey, retiredAt, cache, wlocked, pc, req, ans>>

NoReq == [t |-> None, tok |-> None, u |-> NoURL]

Outcomes == {"none", "public", "dev", "not_configured", "jwks_failed", "missing_bearer",
             "invalid_token", "aud_invalid", "tenant_mismatch",
             "scope_not_allowed_machine", "acr_required", "admit"}

-----------------------------------------------------------------------------
(* Pure steps of JWTAuth.                                                  *)

\* strings.TrimRight(issuer, "/")
TrimIssuer(i) == IF i = NoIssuer THEN NoIssuer ELSE [i EXCEPT !.slash = FALSE]

IssuerOf(t) ==
    IF TrimIssuer(TenantCfg[t].issuer) # NoIssuer THEN TrimIssuer(TenantCfg[t].issuer)
    ELSE TrimIssuer(CfgIssuer)

JWKSOf(t) == IF TenantCfg[t].jwks # NoURL THEN TenantCfg[t].jwks ELSE CfgJWKS

\* The early returns before the cache: bypassed paths, the dev pass-through
\* of a request without Authorization, and a tenant with no issuer or JWKS.
Gate(t, p, tok) ==
    CASE p \in {"/healthz", "/metrics", "/.well-known/x"} -> "public"
      [] DevEnv /\ tok.authz = ""                         -> "dev"
      [] IssuerOf(t) = NoIssuer \/ JWKSOf(t) = NoURL     -> "not_configured"
      [] OTHER                                           -> "continue"

\* tenant.AcceptedAudiences, or the global audience
Accepted(t) ==
    IF Len(TenantCfg[t].aud) = 0 /\ CfgAudience # NoAud THEN <<CfgAudience>>
    ELSE TenantCfg[t].aud

\* jwt.Parse with the key set, issuer, validation and (one accepted) audience
ParseOK(t, tok, set) ==
    /\ tok.kid \in set
    /\ tok.valid
    /\ tok.iss = IssuerOf(t)
    /\ Len(Accepted(t)) = 1 => Accepted(t)[1] \in tok.aud

AudienceOK(t, tok) ==
    Len(Accepted(t)) > 1 => \E i \in 1..Len(Accepted(t)) : Accepted(t)[i] \in tok.aud

TenantOK(t, tok) == tok.tid \in {None, ""} \/ tok.tid = t

MachineOK(t, tok) ==
    tok.gty = "client_credentials" /\ TenantCfg[t].machine # {} => tok.scope \subseteq TenantCfg[t].machine

\* The ACR block of JWTAuth: only entered when the tenant has a map and the
\* token carries an acr claim.
ACROK(t, tok) ==
    LET m == TenantCfg[t].acr IN
    DOMAIN m # {} /\ tok.acr # None =>
        \A s \in DOMAIN m : m[s] # "" /\ s \in tok.scope => tok.acr = m[s]

\* The checks after cache.get, in the order of the code.
Authorize(t, tok, set) ==
    CASE tok.authz \notin {"Bearer", "bearer"} -> "missing_bearer"
      [] ~ParseOK(t, tok, set)                -> "invalid_token"
      [] ~AudienceOK(t, tok)                  -> "aud_invalid"
      [] ~TenantOK(t, tok)                    -> "tenant_mismatch"
      [] ~MachineOK(t, tok)                   -> "scope_not_allowed_machine"
      [] ~ACROK(t, tok)                       -> "acr_required"
      [] OTHER                                -> "admit"

-----------------------------------------------------------------------------
Init ==
    /\ now = 0
    /\ idpKey = [u \in URLs |-> 1]
    /\ retiredAt = [u \in URLs |-> [k \in 1..MaxKey |-> Live]]
    /\ cache = [u \in URLs |-> NoEntry]
    /\ wlocked = FALSE
    /\ pc = [r \in Readers |-> "idle"]
    /\ req = [r \in Readers |-> NoReq]
    /\ ans = [r \in Readers |-> "none"]

\* A check that also takes an entry at its expiry instant as fresh.
FreshInclusive(u) == cache[u] # NoEntry /\ now <= cache[u].expires

\* ok && time.Now().Before(e.expires)
Fresh(u) == cache[u] # NoEntry /\ now < cache[u].expires

Answer(r, o) ==
    /\ ans' = [ans EXCEPT ![r] = o]
    /\ pc' = [pc EXCEPT ![r] = "idle"]
    /\ req' = [req EXCEPT ![r] = NoReq]

(* cache.get returned the set: the token checks run at once (no I/O       *)
(* between them) and the request is answered.                              *)
AnswerWith(r, set) == Answer(r, Authorize(req[r].t, req[r].tok, set))

\* A request q, its tenant resolved from the Host by WithTenant, reaches JWTAuth.
Arrive(r, q) ==
    /\ pc[r] = "idle"
    /\ IF Gate(q.t, q.p, q.tok) # "continue"
       THEN Answer(r, Gate(q.t, q.p, q.tok))
       ELSE /\ pc' = [pc EXCEPT ![r] = "check"]
            /\ req' = [req EXCEPT ![r] = [t |-> q.t, tok |-> q.tok, u |-> JWKSOf(q.t)]]
            /\ UNCHANGED ans
    /\ UNCHANGED <<now, idpKey, retiredAt, cache, wlocked>>

\* RLock; a fresh entry is returned; RUnlock.
CheckEntry(r) ==
    /\ pc[r] = "check" /\ ~wlocked
    /\ IF Fresh(req[r].u)
       THEN AnswerWith(r, cache[req[r].u].keys)
       ELSE /\ pc' = [pc EXCEPT ![r] = "lock"]
            /\ UNCHANGED <<req, ans>>
    /\ UNCHANGED <<now, idpKey, retiredAt, cache, wlocked>>

\* A slow path that fetches without looking at the entry again.
LockNoRecheck(r) ==
    /\ pc[r] = "lock" /\ ~wlocked
    /\ wlocked' = TRUE
    /\ pc' = [pc EXCEPT ![r] = "fetch"]
    /\ UNCHANGED <<now, idpKey, retiredAt, cache, req, ans>>

(* Lock; the entry is checked again (another request may have stored it   *)
(* meanwhile) and returned if fresh, releasing the lock by the defer;      *)
(* otherwise the lock is kept for the fetch.                               *)
LockRecheck(r) ==
    /\ pc[r] = "lock" /\ ~wlocked
    /\ IF Fresh(req[r].u)
       THEN AnswerWith(r, cache[req[r].u].keys) /\ UNCHANGED wlocked
       ELSE /\ wlocked' = TRUE
            /\ pc' = [pc EXCEPT ![r] = "fetch"]
            /\ UNCHANGED <<req, ans>>
    /\ UNCHANGED <<now, idpKey, retiredAt, cache>>

\* A fetch whose error path returns without releasing the lock.
FetchKeysKeepLockOnError(r) ==
    LET u == req[r].u IN
    /\ pc[r] = "fetch"
    /\ \/ /\ cache' = [cache EXCEPT ![u] = [keys |-> {idpKey[u]}, expires |-> now + TTL]]
          /\ wlocked' = FALSE
          /\ AnswerWith(r, {idpKey[u]})
       \/ /\ Answer(r, "jwks_failed")
          /\ UNCHANGED <<cache, wlocked>>
    /\ UNCHANGED <<now, idpKey, retiredAt>>

(* jwk.Fetch with the lock held: it returns the keys the provider         *)
(* publishes now, stored with expiry now + ttl, or an error (answered 500, *)
(* nothing stored).  The defer releases the lock on both paths.            *)
FetchKeys(r) ==
    LET u == req[r].u IN
    /\ pc[r] = "fetch"
    /\ wlocked' = FALSE
    /\ \/ /\ cache' = [cache EXCEPT ![u] = [keys |-> {idpKey[u]}, expires |-> now + TTL]]
          /\ AnswerWith(r, {idpKey[u]})
       \/ /\ Answer(r, "jwks_failed")
          /\ UNCHANGED cache
    /\ UNCHANGED <<now, idpKey, retiredAt>>

\* The identity provider behind u signs with a new key and stops publishing
\* the old one.
RotateKey(u) ==
    /\ idpKey[u] < MaxKey
    /\ idpKey' = [idpKey EXCEPT ![u] = idpKey[u] + 1]
    /\ retiredAt' = [retiredAt EXCEPT ![u][idpKey[u]] = now]
    /\ UNCHANGED <<now, cache, wlocked, pc, req, ans>>

\* The clock never blocks anyone: at its bound it stops advancing.
Tick ==
    /\ now' = IF now < MaxTime THEN now + 1 ELSE now
    /\ UNCHANGED <<idpKey, retiredAt, cache, wlocked, pc, req, ans>>

Next ==
    \/ \E r \in Readers, q \in Requests : Arrive(r, q)
    \/ \E r \in Readers : CheckEntry(r) \/ LockRecheck(r) \/ FetchKeys(r)
    \/ \E u \in URLs : RotateKey(u)
    \/ Tick

(* Once a request is in the middleware the Go scheduler runs its steps.    *)
(* jwk.Fetch gets the request's context, which has no deadline (no server  *)
(* or handler timeout is set): only a fetch from an identity provider that *)
(* answers is sure to return, and the others may hang for as long as the  *)
(* client waits.  A request waiting for the lock gets it even if other    *)
(* requests keep taking it: sync.RWMutex lets the readers blocked by a     *)
(* writer in when it unlocks, and a waiter for the write lock is handed it *)
(* in starvation mode -- strong fairness.  Clients, key rotations and the  *)
(* clock are not fair.                                                     *)
Spec == Init /\ [][Next]_vars
        /\ \A r \in Readers : SF_vars(CheckEntry(r)) /\ SF_vars(LockRecheck(r))
                              /\ WF_vars(req[r].u \in AnsweringURLs /\ FetchKeys(r))

-----------------------------------------------------------------------------
TypeOK ==
    /\ now \in 0..MaxTime
    /\ idpKey \in [URLs -> 1..MaxKey]
    /\ retiredAt \in [URLs -> [1..MaxKey -> 0..MaxTime \cup {Live}]]
    /\ cache \in [URLs -> {NoEntry} \cup [keys : SUBSET (1..MaxKey), expires : 0..MaxTime + TTL]]
    /\ wlocked \in BOOLEAN
    /\ pc \in [Readers -> {"idle", "check", "lock", "fetch"}]
    /\ \A r \in Readers : pc[r] = "idle" <=> req[r] = NoReq
    /\ ans \in [Readers -> Outcomes]
    /\ wlocked <=> \E r \in Readers : pc[r] = "fetch"

\* A step in which request r leaves the middleware with the answer o.
Answers(r, o) == pc[r] # "idle" /\ pc'[r] = "idle" /\ ans'[r] = o

\* Key k of u is published now, or was until less than a TTL ago.
PublishedWithinTTL(u, k) ==
    /\ k <= idpKey[u]
    /\ retiredAt[u][k] = Live \/ now - retiredAt[u][k] < TTL

(* A token signed with a key the identity provider has stopped publishing *)
(* is admitted for less than jwksTTL after the rotation, whichever         *)
(* requests filled the shared cache and when: the expiry check of          *)
(* cache.get (time.Now().Before(e.expires)) on both its read paths bounds   *)
(* how long a revoked key stays trusted.                                   *)
RetiredKeyTrustedUnderTTL ==
    [][\A r \in Readers :
         Answers(r, "admit") => PublishedWithinTTL(req[r].u, req[r].tok.kid)]_vars

(* The JWKS of a URL is fetched again only once its cached set has        *)
(* expired: requests that missed together wait on the write lock, and all *)
(* but the first find the set the first one stored (the re-check under the *)
(* lock), so a burst of requests makes one fetch, not one each.            *)
EntryReplacedOnlyWhenExpired ==
    [][\A u \in URLs :
         cache[u] # NoEntry /\ cache'[u] # cache[u] => now >= cache[u].expires]_cache

(* spec.md section 5: no lock is held across a suspension and a JWKS     *)
(* fetch has a 10 s deadline, so a request whose own identity provider     *)
(* answers is answered, whatever the identity provider of another tenant   *)
(* does.  jwksCache.get holds the process-wide write lock across jwk.Fetch *)
(* and every request's cache check takes the read lock.                    *)
AnsweredWhenOwnIdPAnswers ==
    \A r \in Readers : (pc[r] # "idle" /\ req[r].u \in AnsweringURLs) ~> pc[r] = "idle"

(* The tenant's step-up rule (RequiredACRByAction): a request is admitted *)
(* with a scope that requires an ACR only if its token's acr is that       *)
(* value.  The code enters the ACR block only when the token has an acr    *)
(* claim.                                                                  *)
AdmittedMeetsStepUp ==
    [][\A r \in Readers :
         Answers(r, "admit") =>
           LET m == TenantCfg[req[r].t].acr IN
           \A s \in DOMAIN m : m[s] # "" /\ s \in req[r].tok.scope => req[r].tok.acr = m[s]]_vars

====
