------------------------- MODULE MCConnectorService -------------------------
(* Model values and small definitions for checking ConnectorService.      *)
EXTENDS ConnectorService

\* t1's hosts; "connector" is a synonym that falls back to localhost.
MCHostTenant == [h \in {"localhost", "acme.example"} |-> "t1"]

H(name) == [name |-> name, port |-> "8080"]
UserTok(sc) == [scope |-> sc, gty |-> "authorization_code"]
MachineTok(sc) == [scope |-> sc, gty |-> "client_credentials"]
Dyn(conn, sc) == [k |-> "dynamic", conn |-> conn, scopes |-> sc, userOnly |-> FALSE]

(* A user of t1 calls the custom connector's operation; a dev request     *)
(* without token calls it through the "connector" host; a request for an   *)
(* unknown host; a machine client calls orders.cancel (user-only); a user  *)
(* calls the seeded shopify operation (no base_url); a health probe.       *)
MCRequests ==
  {[host |-> H("acme.example"), tok |-> UserTok({"orders:write"}), route |-> Dyn("custom", {"orders:write"})],
   [host |-> H("connector"), tok |-> NoTok, route |-> Dyn("custom", {"orders:write"})],
   [host |-> H("other.example"), tok |-> UserTok({"orders:write"}), route |-> Dyn("custom", {"orders:write"})],
   [host |-> H("localhost"), tok |-> MachineTok({"orders:cancel"}),
    route |-> [k |-> "canonical", conn |-> None, scopes |-> {"orders:cancel"}, userOnly |-> TRUE]],
   [host |-> H("acme.example"), tok |-> UserTok({"refund:write"}), route |-> Dyn("builtin", {"refund:write"})],
   [host |-> H("acme.example"), tok |-> NoTok, route |-> [k |-> "health", conn |-> None, scopes |-> {}, userOnly |-> FALSE]]}

\* Two requests of t1's users for two concurrent callers of LoadOperations:
\* the custom connector's operation with its scope, and without a token.
MCPairRequests ==
  {[host |-> H("acme.example"), tok |-> UserTok({"orders:write"}), route |-> Dyn("custom", {"orders:write"})],
   [host |-> H("connector"), tok |-> NoTok, route |-> Dyn("custom", {"orders:write"})]}

MCInitialConn == [base |-> "https://up-a", ref |-> NoRef, scopes |-> {"orders:write"}]
MCAuthCreator == [x \in AuthIds |-> IF x = "x1" THEN {"t1"} ELSE {"t2"}]
\* t1's slug.
MCTenantSlugs == [s \in {"acme"} |-> "t1"]

AdminTok(role, tid) == [valid |-> TRUE, role |-> role, tid |-> tid]

(* Admin calls: a t1 admin's token; a token without tid whose header names *)
(* t2; a platform admin naming t1 by slug; a token of another role; no     *)
(* token; a token that does not verify.                                    *)
MCAdminRequests ==
  {[method |-> "POST", header |-> "", tok |-> AdminTok("tenant_admin", "t1")],
   [method |-> "POST", header |-> "t2", tok |-> AdminTok("tenant_admin", None)],
   [method |-> "PUT", header |-> "acme", tok |-> AdminTok("lamdis_admin", None)],
   [method |-> "POST", header |-> "", tok |-> AdminTok("viewer", "t1")],
   [method |-> "POST", header |-> "t1", tok |-> NoTok],
   [method |-> "POST", header |-> "t1", tok |-> [valid |-> FALSE, role |-> "tenant_admin", tid |-> "t1"]]}
=============================================================================
