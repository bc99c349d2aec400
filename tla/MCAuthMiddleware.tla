------------------------- MODULE MCAuthMiddleware -------------------------
(* Model values and small definitions for checking AuthMiddleware.        *)
EXTENDS AuthMiddleware

\* Issuers: t1's row names its issuer with a trailing slash; the global
\* issuer has none.
IdpA == [host |-> "idp-a", slash |-> FALSE]
IdpASlash == [host |-> "idp-a", slash |-> TRUE]
IdpB == [host |-> "idp-b", slash |-> FALSE]

(* Both tenants' keys are served at one JWKS URL, t1 naming it and t2     *)
(* falling back to JWKS_URL.  t1 has its own issuer and audience, allows machine tokens    *)
(* only orders:read, and requires acr "mfa" for refunds:write.  t2 has     *)
(* nothing of its own and falls back to the global configuration.          *)
MCTenantCfg ==
  [t \in Tenants |->
     IF t = "t1"
     THEN [issuer |-> IdpASlash, jwks |-> "u1", aud |-> <<"lamdis-gateway">>,
           machine |-> {"orders:read"}, acr |-> [s \in {"refunds:write"} |-> "mfa"]]
     ELSE [issuer |-> NoIssuer, jwks |-> NoURL, aud |-> << >>,
           machine |-> {}, acr |-> [s \in {} |-> ""]]]

Tok(authz, kid, iss, tid, scope, gty, acr) ==
  [authz |-> authz, kid |-> kid, iss |-> iss, aud |-> {"lamdis-gateway"}, valid |-> TRUE,
   tid |-> tid, scope |-> scope, gty |-> gty, acr |-> acr]

Req(t, p, tok) == [t |-> t, p |-> p, tok |-> tok]

(* t1's users call with a token signed by either key; a machine client of *)
(* t1 asks for more than t1 allows; a user of t2; a health probe.          *)
MCRequests ==
  {Req("t1", "/v1/actions", Tok("Bearer", k, IdpA, "t1", {"orders:read"}, "authorization_code", None)) :
     k \in 1..MaxKey}
  \cup {Req("t1", "/v1/actions", Tok("Bearer", 1, IdpA, None, {"orders:read", "refunds:write"},
                                     "client_credentials", None)),
        Req("t2", "/v1/actions", Tok("bearer", 1, IdpB, None, {"orders:read"}, "authorization_code", None)),
        Req("t2", "/healthz", Tok("", 1, IdpB, None, {}, None, None))}

\* t1's users call for refunds:write with the step-up token, or with one
\* that carries no acr.
MCStepUpRequests ==
  {Req("t1", "/v1/actions", Tok("Bearer", 1, IdpA, "t1", {"refunds:write"}, "authorization_code", a)) :
     a \in {"mfa", None}}
=============================================================================
