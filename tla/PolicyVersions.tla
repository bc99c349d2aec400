--------------------------- MODULE PolicyVersions ---------------------------
(***************************************************************************)
(* The policy_versions table and the admin handlers that write it          *)
(* (src/internal/adminapi/handlers_policies.go), and the read that          *)
(* policy.Evaluate does of it (src/internal/policy/service.go).            *)
(*                                                                         *)
(* A row is keyed by (tenant, action_key, version), the unique key of its *)
(* ON CONFLICT, and holds the Rego code and a status.  Two of the queries   *)
(* filter by action_key only: the MAX(version)+1 of a create and the read  *)
(* of Evaluate.  Their CTE SELECT set_config('app.tenant_id', ...) is never *)
(* referenced by the main query, so PostgreSQL does not run it, and no     *)
(* row-level policy is defined under src/.  The  createPolicyVersion without an explicit version is two SQL     *)
(* statements (SELECT MAX(version)+1, then INSERT ... ON CONFLICT DO        *)
(* UPDATE), so two admin requests can interleave between them; it is       *)
(* modelled as two steps of an admin handler.  publishPolicyVersion is one *)
(* UPDATE statement and is one step.                                       *)
(***************************************************************************)
EXTENDS Naturals, FiniteSets

LOCAL INSTANCE FiniteSetsExt

CONSTANTS
  Tenants,          \* tenant ids
  Actions,          \* action keys
  MaxVersion,       \* versions are 1..MaxVersion: bounds the table
  Codes,            \* Rego modules an admin may submit (all compile)
  Admins,           \* concurrent admin-api request handlers
  ExplicitVersion,  \* TRUE: the create body may carry "version"
  PublishAnyVersion,\* TRUE: publish may name a version with no row
  NoRow             \* model value: no row for (action, version)

ASSUME MaxVersion \in Nat \ {0}
ASSUME ExplicitVersion \in BOOLEAN /\ PublishAnyVersion \in BOOLEAN

Versions == 1..MaxVersion
PolicyStatus == {"draft", "published", "archived"}
Row == [status : PolicyStatus, code : Codes]

VARIABLES
  policyVersions,   \* policyVersions[t][a][v] : Row or NoRow
  adminPc,          \* adminPc[ad] : "idle" or "upsert" (between the two statements of a create)
  adminReq,         \* adminReq[ad] : the create in progress
  publishedOnce     \* history: a publish of this action has returned ok

pvVars == <<policyVersions, adminPc, adminReq, publishedOnce>>

NoReq == [tenant |-> CHOOSE t \in Tenants : TRUE, action |-> CHOOSE a \in Actions : TRUE,
          ver |-> 0, code |-> CHOOSE c \in Codes : TRUE]

Exists(t, a, v) == policyVersions[t][a][v] # NoRow
Published(t, a) == {v \in Versions : Exists(t, a, v) /\ policyVersions[t][a][v].status = "published"}

\* The published rows of the action, of every tenant: <<tenant, version>>.
PublishedRows(a) == UNION {{<<t, v>> : v \in Published(t, a)} : t \in Tenants}

(* Evaluate's SELECT compiled_rego, version FROM policy_versions WHERE     *)
(* action_key=$2 AND status='published' ORDER BY version DESC LIMIT 1: the *)
(* rows it may return (two tenants may tie on the version).  The tenant    *)
(* argument only feeds the unreferenced CTE.                               *)
EvaluateReads(t, a) ==
  {r \in PublishedRows(a) : \A x \in PublishedRows(a) : x[2] <= r[2]}

\* The version Evaluate reads; 0 stands for "no row" (mod = "", ver = 0).
LatestPublished(t, a) ==
  IF EvaluateReads(t, a) = {} THEN 0 ELSE (CHOOSE r \in EvaluateReads(t, a) : TRUE)[2]

(* SELECT COALESCE(MAX(version)+1,1) FROM policy_versions WHERE            *)
(* action_key=$2, over every tenant's rows; the Scan error is dropped and  *)
(* leaves ver = 0, which the handler turns into 1.                          *)
NextVersions(a) ==
  LET vs == {v \in Versions : \E t \in Tenants : Exists(t, a, v)}
  IN {IF vs = {} THEN 1 ELSE Max(vs) + 1, 1}

\* INSERT ... VALUES (...,'draft') ON CONFLICT DO UPDATE SET compiled_rego=..., status='draft'
Upsert(t, a, v, code) ==
  policyVersions' = [policyVersions EXCEPT ![t][a][v] = [status |-> "draft", code |-> code]]

PVInit ==
  /\ policyVersions = [t \in Tenants |-> [a \in Actions |-> [v \in Versions |-> NoRow]]]
  /\ adminPc = [ad \in Admins |-> "idle"]
  /\ adminReq = [ad \in Admins |-> NoReq]
  /\ publishedOnce = [t \in Tenants |-> [a \in Actions |-> FALSE]]

(* createPolicyVersion with "version" in the body: one upsert statement.   *)
CreatePolicyVersionAt(ad, t, a, v, code) ==
  /\ ExplicitVersion
  /\ adminPc[ad] = "idle"
  /\ Upsert(t, a, v, code)
  /\ UNCHANGED <<adminPc, adminReq, publishedOnce>>

(* createPolicyVersion without "version": first statement, MAX+1.         *)
CreatePolicyVersionReadMax(ad, t, a, code) ==
  /\ adminPc[ad] = "idle"
  /\ \E v \in NextVersions(a) :
       /\ v <= MaxVersion
       /\ adminPc' = [adminPc EXCEPT ![ad] = "upsert"]
       /\ adminReq' = [adminReq EXCEPT ![ad] = [tenant |-> t, action |-> a, ver |-> v, code |-> code]]
  /\ UNCHANGED <<policyVersions, publishedOnce>>

(* ... second statement: the upsert with the version read before.         *)
CreatePolicyVersionUpsert(ad) ==
  /\ adminPc[ad] = "upsert"
  /\ Upsert(adminReq[ad].tenant, adminReq[ad].action, adminReq[ad].ver, adminReq[ad].code)
  /\ adminPc' = [adminPc EXCEPT ![ad] = "idle"]
  /\ adminReq' = [adminReq EXCEPT ![ad] = NoReq]
  /\ UNCHANGED publishedOnce

PublishOnlyTarget(ad, t, a, v) ==
  /\ adminPc[ad] = "idle"
  /\ PublishAnyVersion \/ Exists(t, a, v)
  /\ \E w \in Versions : Exists(t, a, w)
  /\ Exists(t, a, v)
  /\ policyVersions' = [policyVersions EXCEPT ![t][a][v].status = "published"]
  /\ publishedOnce' = [publishedOnce EXCEPT ![t][a] = TRUE]
  /\ UNCHANGED <<adminPc, adminReq>>

(* publishPolicyVersion: UPDATE every row of the tenant's action,         *)
(* 'published' for version v and 'archived' for the others; 404 iff no    *)
(* row was updated.                                                        *)
PublishPolicyVersion(ad, t, a, v) ==
  /\ adminPc[ad] = "idle"
  /\ PublishAnyVersion \/ Exists(t, a, v)
  /\ \E w \in Versions : Exists(t, a, w)
  /\ policyVersions' = [policyVersions EXCEPT ![t][a] =
        [w \in Versions |-> IF policyVersions[t][a][w] = NoRow THEN NoRow
                            ELSE [policyVersions[t][a][w] EXCEPT !.status =
                                    IF w = v THEN "published" ELSE "archived"]]]
  /\ publishedOnce' = [publishedOnce EXCEPT ![t][a] = TRUE]
  /\ UNCHANGED <<adminPc, adminReq>>

PVNext ==
  \/ \E ad \in Admins, t \in Tenants, a \in Actions, v \in Versions, c \in Codes :
        CreatePolicyVersionAt(ad, t, a, v, c)
  \/ \E ad \in Admins, t \in Tenants, a \in Actions, c \in Codes :
        CreatePolicyVersionReadMax(ad, t, a, c)
  \/ \E ad \in Admins : CreatePolicyVersionUpsert(ad)
  \/ \E ad \in Admins, t \in Tenants, a \in Actions, v \in Versions :
        PublishPolicyVersion(ad, t, a, v)

PVSpec == PVInit /\ [][PVNext]_pvVars

-----------------------------------------------------------------------------
PVTypeOK ==
  /\ policyVersions \in [Tenants -> [Actions -> [Versions -> Row \cup {NoRow}]]]
  /\ adminPc \in [Admins -> {"idle", "upsert"}]
  /\ adminReq \in [Admins -> [tenant : Tenants, action : Actions, ver : 0..MaxVersion, code : Codes]]
  /\ publishedOnce \in [Tenants -> [Actions -> BOOLEAN]]

(* publishPolicyVersion and createPolicyVersion together never leave two  *)
(* published versions of one tenant's action, whatever the interleaving  *)
(* of admin requests of the tenants: Evaluate's ORDER BY version DESC LIMIT 1 is then never        *)
(* choosing between two published policies.                               *)
AtMostOnePublished == \A t \in Tenants, a \in Actions : Cardinality(Published(t, a)) <= 1

(* spec.md section 3: "Exactly one published per (tenant, action_key)     *)
(* after a publish".  Once a publish of the action has returned ok, the    *)
(* action keeps exactly one published version, so policy.Evaluate never    *)
(* falls back to its no-policy default ALLOW for it.                      *)
OnePublishedAfterPublish ==
  \A t \in Tenants, a \in Actions : publishedOnce[t][a] => Cardinality(Published(t, a)) = 1


(* spec.md 4.3 "Load the latest published policy module for (tenant,      *)
(* action_key)" and the isolation property of section 8 (reads scoped by *)
(* tenant A never observe rows of tenant B): what Evaluate reads for a     *)
(* tenant is that tenant's own highest published version, or nothing when *)
(* the tenant has published none, whatever other tenants create and       *)
(* publish under the same action key.                                      *)
EvaluateReadsOwnPolicy ==
  \A t \in Tenants, a \in Actions :
    EvaluateReads(t, a) = IF Published(t, a) = {} THEN {} ELSE {<<t, Max(Published(t, a))>>}

=============================================================================
