--------------------------- MODULE ActionProtocol ---------------------------
(***************************************************************************)
(* The two-phase action protocol: the preflight and execute handlers of    *)
(* src/internal/policy/http.go, with what they call: facts.ResolveFacts    *)
(* (src/internal/facts/engine.go), policy.Evaluate, PersistDecision and    *)
(* ValidateAndBindDecision (src/internal/policy/service.go), and           *)
(* orchestrator.Execute (src/internal/orchestrator/service.go).            *)
(*                                                                         *)
(* Each request handler is a process.  A step is one database statement   *)
(* or one upstream HTTP call; between two steps other handlers, admin      *)
(* edits of the facts configuration and admin writes of policy_versions    *)
(* (module PolicyVersions) may run.  Data is abstracted: inputs are model  *)
(* values, the facts an action's resolvers and mappings produce are the     *)
(* pair (configuration revision, inputs), a Rego module is a code whose     *)
(* result PolicyResult gives.  The binding hash                            *)
(* SHA-256(json(inputs)|json(facts)|version) is injective on what it       *)
(* hashes, so it is modelled as the triple itself.                         *)
(***************************************************************************)
EXTENDS Naturals, Sequences, FiniteSets

CONSTANTS
  Clients,          \* concurrent agent request handlers
  Inputs,           \* request "inputs" objects
  IdemOf,           \* IdemOf[i]: inputs.idempotency_key, or NoIdem
  IdemKeys,
  NoIdem,
  MaxRequests,      \* bound on agent requests in a behaviour
  MaxTime,          \* bound on the clock
  MaxCfg,           \* bound on admin edits of resolvers/mappings per action
  FailingCfgs,      \* configuration revisions with a required mapping that errors
  DefaultTTL,       \* 15 minutes
  ErrorTTL,         \* 5 minutes (policy_error)
  PolicyResult(_, _), \* PolicyResult(code, facts): what data.policy.decide returns
  OpOutcome,        \* OpOutcome[a]: what operation resolution can give for action a
  Faults,           \* statements that may fail: subset of FaultKinds
  Null,             \* model value: a nil facts map (ResolveFacts returned an error)
  NoId              \* model value: an empty decision_id

\* The policy_versions table and its admin handlers.
\* Home is the tenant whose requests are modelled; its rows are the only
\* ones in the tables.
CONSTANTS Home, Actions, MaxVersion, Codes, Admins, ExplicitVersion, PublishAnyVersion, NoRow
VARIABLES policyVersions, adminPc, adminReq, publishedOnce
PV == INSTANCE PolicyVersions WITH Tenants <- {Home}

FaultKinds == {"facts_read", "policy_read", "decision_insert", "execution_insert"}
ASSUME Faults \subseteq FaultKinds
ASSUME MaxRequests \in Nat /\ MaxTime \in Nat /\ MaxCfg \in Nat
ASSUME FailingCfgs \subseteq 0..MaxCfg
ASSUME IdemOf \in [Inputs -> IdemKeys \cup {NoIdem}]
ASSUME OpOutcome \in [Actions -> SUBSET {"dispatch", "no_operation", "unresolved_path_params"}]

DecisionStatus == {"ALLOW", "ALLOW_WITH_CONDITIONS", "NEEDS_INPUT", "BLOCKED"}
AllowStatuses == {"ALLOW", "ALLOW_WITH_CONDITIONS"}
DecisionIds == 1..MaxRequests
ExecKeys == IdemKeys \cup DecisionIds
FactsValue == [cfg : 0..MaxCfg, inputs : Inputs] \cup {Null}
\* published: a history field, the version that was published when the decision was evaluated.
Decision == [action : Actions, inputs : Inputs, facts : FactsValue, ver : 0..MaxVersion,
             status : DecisionStatus, expires : Nat, published : 0..MaxVersion]
ExecRow == [dec : DecisionIds, status : {"SUCCEEDED", "FAILED"}, result : {"ok", "error", "none"}]

VARIABLES
  now,              \* the clock (time.Now())
  cfg,              \* cfg[a]: revision of the fact_resolvers/fact_mappings rows of action a
  decisions,        \* the decisions table; a decision's id is its index
  execRows,         \* the executions table, by (tenant, idempotency_key)
  pc, req,          \* per handler: program counter and the request it serves (at: when it arrived)
  lFacts,           \* per handler: facts resolved in this request
  lDec,             \* per handler: the decision evaluated, or the row read
  lResult,          \* per handler: the upstream call's result
  requests,         \* number of agent requests so far
  dispatches,       \* history: upstream calls, with what the execute had bound
  responses         \* history: responses sent to agents

protoVars == <<now, cfg, decisions, execRows, pc, req, lFacts, lDec, lResult, requests,
               dispatches, responses>>
pvVars == <<policyVersions, adminPc, adminReq, publishedOnce>>
vars == <<protoVars, pvVars>>

NoDecision == [action |-> CHOOSE a \in Actions : TRUE, inputs |-> CHOOSE i \in Inputs : TRUE,
               facts |-> Null, ver |-> 0, status |-> "BLOCKED", expires |-> 0, published |-> 0]
NoReq == [kind |-> "none", action |-> CHOOSE a \in Actions : TRUE,
          inputs |-> CHOOSE i \in Inputs : TRUE, dec |-> NoId, at |-> 0]

-----------------------------------------------------------------------------
(* facts.ResolveFacts: one read-only transaction over the resolvers and    *)
(* mappings of the action.  A required mapping whose path or transform     *)
(* errors fails the whole resolve; callers discard the error and use nil.  *)
Facts(a, i) == IF cfg[a] \in FailingCfgs THEN Null ELSE [cfg |-> cfg[a], inputs |-> i]

\* The outcomes of one ResolveFacts call, with a failing read when allowed.
ResolveFacts(a, i) == {Facts(a, i)} \cup (IF "facts_read" \in Faults THEN {Null} ELSE {})

(* Evaluate's switch on the "status" string: case-sensitive, anything     *)
(* else (or a non-string) is BLOCKED.                                      *)
ClassifyRaw(s) == s

Classify(s) ==
  IF s \in {"ALLOW", "ALLOW_WITH_CONDITIONS", "NEEDS_INPUT"} THEN s ELSE "BLOCKED"

(* policy.Evaluate given the code of the latest published version (or     *)
(* "" when none was read) and the facts.  Returns status and TTL.          *)
Evaluate(code, facts) ==
  IF code = "" THEN [status |-> "ALLOW", ttl |-> DefaultTTL]
  ELSE LET r == PolicyResult(code, facts)
       IN CASE r.kind = "error"  -> [status |-> "BLOCKED", ttl |-> ErrorTTL]
            [] r.kind = "nonmap" -> [status |-> "ALLOW", ttl |-> DefaultTTL]
            [] OTHER -> [status |-> Classify(r.status),
                         ttl |-> IF r.ttl > 0 THEN r.ttl ELSE DefaultTTL]

\* The published rows Evaluate may read: <<code, version>>, <<"", 0>> when none.
PolicyRows(a) ==
  IF PV!EvaluateReads(Home, a) = {} THEN {<<"", 0>>}
  ELSE {<<policyVersions[r[1]][a][r[2]].code, r[2]>> : r \in PV!EvaluateReads(Home, a)}

\* ... and what the read can return when the query may fail (Scan's error is dropped).
PolicyReads(a) == PolicyRows(a) \cup (IF "policy_read" \in Faults THEN {<<"", 0>>} ELSE {})

\* orchestrator.Execute: inputs.idempotency_key if present, else the decision id.
IdempotencyKey(i, d) == IF IdemOf[i] # NoIdem THEN IdemOf[i] ELSE d

\* INSERT INTO executions ... ON CONFLICT DO NOTHING (its error is dropped).
InsertExecution(key, row) ==
  \/ /\ execRows[key] = NoRow
     /\ execRows' = [execRows EXCEPT ![key] = row]
  \/ /\ execRows[key] # NoRow
     /\ UNCHANGED execRows
  \/ /\ "execution_insert" \in Faults
     /\ UNCHANGED execRows

Respond(r) == responses' = responses \cup {r}

Goto(c, l) == pc' = [pc EXCEPT ![c] = l]

Finish(c) ==
  /\ pc' = [pc EXCEPT ![c] = "idle"]
  /\ req' = [req EXCEPT ![c] = NoReq]
  /\ lFacts' = [lFacts EXCEPT ![c] = Null]
  /\ lDec' = [lDec EXCEPT ![c] = NoDecision]
  /\ lResult' = [lResult EXCEPT ![c] = "none"]

PreflightResponse(status, id) ==
  [kind |-> "preflight", status |-> status, dec |-> id, key |-> NoId, result |-> "none"]
ExecuteResponse(status, key, result) ==
  [kind |-> "execute", status |-> status, dec |-> NoId, key |-> key, result |-> result]

-----------------------------------------------------------------------------
Init ==
  /\ PV!PVInit
  /\ now = 0
  /\ cfg = [a \in Actions |-> 0]
  /\ decisions = << >>
  /\ execRows = [k \in ExecKeys |-> NoRow]
  /\ pc = [c \in Clients |-> "idle"]
  /\ req = [c \in Clients |-> NoReq]
  /\ lFacts = [c \in Clients |-> Null]
  /\ lDec = [c \in Clients |-> NoDecision]
  /\ lResult = [c \in Clients |-> "none"]
  /\ requests = 0
  /\ dispatches = << >>
  /\ responses = {}

\* INSERT INTO decisions ... RETURNING id: ids are assigned in insertion order.
NewDecisionId == Len(decisions) + 1

(* The empty-id check of the execute handler, then the checks of           *)
(* ValidateAndBindDecision on the row, in the code's order; "none" if all  *)
(* pass.  expiresAt.Before(now) means a decision is still good at its      *)
(* expiry instant.                                                         *)
BindProblem(a, id) ==
  CASE id = NoId                                 -> "preflight-required"
    [] id \notin 1..Len(decisions)                -> "invalid-decision"
    [] decisions[id].action # a                  -> "decision-mismatch"
    [] decisions[id].status \notin AllowStatuses -> "decision-blocked"
    [] decisions[id].expires < now               -> "decision-expired"
    [] OTHER                                     -> "none"

HashMatchesInputsOnly(c, f) == req[c].inputs = lDec[c].inputs

\* hash(inputs, facts now, stored version) = stored hash(inputs, facts, version)
HashMatches(c, f) == req[c].inputs = lDec[c].inputs /\ f = lDec[c].facts

(* POST /v1/actions/{key}/preflight: decode the body, then ResolveFacts.   *)
PreflightResolveFacts(c, a, i) ==
  /\ pc[c] = "idle"
  /\ requests < MaxRequests
  /\ requests' = requests + 1
  /\ req' = [req EXCEPT ![c] = [kind |-> "preflight", action |-> a, inputs |-> i, dec |-> NoId, at |-> now]]
  /\ \E f \in ResolveFacts(a, i) : lFacts' = [lFacts EXCEPT ![c] = f]
  /\ Goto(c, "pf_evaluate")
  /\ UNCHANGED <<now, cfg, decisions, execRows, lDec, lResult, dispatches, responses, pvVars>>

(* policy.Evaluate; a NEEDS_INPUT result is answered with the resolvers'   *)
(* needs (facts.ResolverNeeds) and nothing is persisted.                   *)
PreflightEvaluate(c) ==
  LET a == req[c].action IN
  /\ pc[c] = "pf_evaluate"
  /\ \E row \in PolicyReads(a) :
       LET e == Evaluate(row[1], lFacts[c])
           d == [action |-> a, inputs |-> req[c].inputs, facts |-> lFacts[c], ver |-> row[2],
                 status |-> e.status, expires |-> now + e.ttl,
                 published |-> PV!LatestPublished(Home, a)]
       IN IF e.status = "NEEDS_INPUT"
          THEN /\ Respond(PreflightResponse("NEEDS_INPUT", NoId))
               /\ Finish(c)
          ELSE /\ lDec' = [lDec EXCEPT ![c] = d]
               /\ Goto(c, "pf_persist")
               /\ UNCHANGED <<req, lFacts, lResult, responses>>
  /\ UNCHANGED <<now, cfg, decisions, execRows, requests, dispatches, pvVars>>

(* PersistDecision (INSERT ... RETURNING id; on error the id is "") and   *)
(* the response: decision_id for an ALLOW variant, none for BLOCKED.       *)
PreflightPersist(c) ==
  LET d == lDec[c]
      shown(id) == IF d.status \in AllowStatuses THEN id ELSE NoId
  IN
  /\ pc[c] = "pf_persist"
  /\ \/ /\ decisions' = Append(decisions, d)
        /\ Respond(PreflightResponse(d.status, shown(NewDecisionId)))
     \/ /\ "decision_insert" \in Faults
        /\ UNCHANGED decisions
        /\ Respond(PreflightResponse(d.status, shown(NoId)))
  /\ Finish(c)
  /\ UNCHANGED <<now, cfg, execRows, requests, dispatches, pvVars>>

(* POST /v1/actions/{key}/execute: an empty decision_id is answered 409   *)
(* preflight-required; otherwise ValidateAndBindDecision reads the row     *)
(* (id, action, status, expiry checks in that order).  Id 0 is an id that  *)
(* names no row of the tenant.                                             *)
ExecuteBind(c, a, i, id) ==
  LET problem == BindProblem(a, id) IN
  /\ pc[c] = "idle"
  /\ requests < MaxRequests
  /\ requests' = requests + 1
  /\ IF problem # "none"
     THEN /\ Respond(ExecuteResponse(problem, NoId, "none"))
          /\ UNCHANGED <<pc, req, lDec>>
     ELSE /\ req' = [req EXCEPT ![c] = [kind |-> "execute", action |-> a, inputs |-> i, dec |-> id, at |-> now]]
          /\ lDec' = [lDec EXCEPT ![c] = decisions[id]]
          /\ Goto(c, "ex_rebind")
          /\ UNCHANGED responses
  /\ UNCHANGED <<now, cfg, decisions, execRows, lFacts, lResult, dispatches, pvVars>>

(* ... then resolves the facts again with the request's inputs and        *)
(* compares hash(inputs, facts, stored version) with the stored hash.      *)
ExecuteRebind(c) ==
  LET r == req[c] IN
  /\ pc[c] = "ex_rebind"
  /\ \E f \in ResolveFacts(r.action, r.inputs) :
       IF HashMatches(c, f)
       THEN /\ lFacts' = [lFacts EXCEPT ![c] = f]
            /\ Goto(c, "ex_orchestrate")
            /\ UNCHANGED <<req, lDec, lResult, responses>>
       ELSE /\ Respond(ExecuteResponse("decision-mismatch", NoId, "none"))
            /\ Finish(c)
  /\ UNCHANGED <<now, cfg, decisions, execRows, requests, dispatches, pvVars>>

(* orchestrator.Execute: resolve the operation from the connector rows    *)
(* read now (admins may change them between calls); with none, or with     *)
(* path placeholders left, record a FAILED row and answer; else call       *)
(* upstream.  A transport error only annotates the step.                   *)
ExecuteOrchestrate(c) ==
  LET r == req[c]
      key == IdempotencyKey(r.inputs, r.dec)
  IN
  /\ pc[c] = "ex_orchestrate"
  /\ \E o \in OpOutcome[r.action] :
     IF o = "dispatch"
     THEN \E result \in {"ok", "error"} :
            /\ lResult' = [lResult EXCEPT ![c] = result]
            /\ dispatches' = Append(dispatches,
                  [dec |-> r.dec, action |-> r.action, inputs |-> r.inputs, key |-> key,
                   facts |-> lFacts[c], boundAt |-> r.at, result |-> result])
            /\ Goto(c, "ex_record")
            /\ UNCHANGED <<req, lFacts, lDec, execRows, responses>>
     ELSE /\ InsertExecution(key, [dec |-> r.dec, status |-> "FAILED", result |-> "none"])
          /\ Respond(ExecuteResponse("FAILED", key, "none"))
          /\ Finish(c)
          /\ UNCHANGED dispatches
  /\ UNCHANGED <<now, cfg, decisions, requests, pvVars>>

(* ... persist the execution row and answer SUCCEEDED with this call's    *)
(* own upstream result.                                                    *)
ExecuteRecord(c) ==
  LET r == req[c]
      key == IdempotencyKey(r.inputs, r.dec)
  IN
  /\ pc[c] = "ex_record"
  /\ InsertExecution(key, [dec |-> r.dec, status |-> "SUCCEEDED", result |-> lResult[c]])
  /\ Respond(ExecuteResponse("SUCCEEDED", key, lResult[c]))
  /\ Finish(c)
  /\ UNCHANGED <<now, cfg, decisions, requests, dispatches, pvVars>>

(* Admin PUT/DELETE of a resolver or mapping of action a.                 *)
EditFacts(a) ==
  /\ cfg[a] < MaxCfg
  /\ cfg' = [cfg EXCEPT ![a] = cfg[a] + 1]
  /\ UNCHANGED <<now, decisions, execRows, pc, req, lFacts, lDec, lResult, requests,
                 dispatches, responses, pvVars>>

Tick ==
  /\ now < MaxTime
  /\ now' = now + 1
  /\ UNCHANGED <<cfg, decisions, execRows, pc, req, lFacts, lDec, lResult, requests,
                 dispatches, responses, pvVars>>

HandlerStep(c) ==
  \/ PreflightEvaluate(c)
  \/ PreflightPersist(c)
  \/ ExecuteRebind(c)
  \/ ExecuteOrchestrate(c)
  \/ ExecuteRecord(c)

Next ==
  \/ \E c \in Clients, a \in Actions, i \in Inputs :
        \/ PreflightResolveFacts(c, a, i)
        \/ \E id \in {NoId} \cup 0..Len(decisions) : ExecuteBind(c, a, i, id)
  \/ \E c \in Clients : HandlerStep(c)
  \/ \E a \in Actions : EditFacts(a)
  \/ Tick
  \/ PV!PVNext /\ UNCHANGED protoVars

(* No fairness: the upstream call of orchestrator.Execute goes through     *)
(* http.DefaultClient, which has no timeout, so no step after it is sure to *)
(* happen, and only safety is checked.                                     *)
Spec == Init /\ [][Next]_vars

-----------------------------------------------------------------------------
TypeOK ==
  /\ PV!PVTypeOK
  /\ now \in 0..MaxTime
  /\ cfg \in [Actions -> 0..MaxCfg]
  /\ decisions \in Seq(Decision)
  /\ execRows \in [ExecKeys -> ExecRow \cup {NoRow}]
  /\ pc \in [Clients -> {"idle", "pf_evaluate", "pf_persist", "ex_rebind", "ex_orchestrate", "ex_record"}]
  /\ lDec \in [Clients -> Decision]
  /\ lFacts \in [Clients -> FactsValue]
  /\ lResult \in [Clients -> {"ok", "error", "none"}]
  /\ requests \in 0..MaxRequests

(* Every upstream call made by execute is backed by a stored decision of   *)
(* an ALLOW status, for the same action and the same inputs, whose facts   *)
(* are the facts the execute resolved, and which had not expired when it   *)
(* was bound: the row checks and the re-resolve of the facts happen in two *)
(* statements before the call, with admin edits and other requests in      *)
(* between.                                                                *)
DispatchAuthorized ==
  \A n \in 1..Len(dispatches) :
    LET x == dispatches[n] IN
    /\ x.dec \in 1..Len(decisions)
    /\ LET d == decisions[x.dec] IN
       /\ d.status \in AllowStatuses
       /\ d.action = x.action
       /\ d.inputs = x.inputs
       /\ d.facts = x.facts
       /\ x.boundAt <= d.expires

(* Every preflight answer carrying a decision_id names a stored decision  *)
(* with the answered status; every ALLOW answer carries one, so the agent  *)
(* can always go on to execute (http.go persists before responding).       *)
AllowAnswerNamesDecision ==
  \A r \in responses :
    r.kind = "preflight" /\ r.status \in AllowStatuses =>
      /\ r.dec \in 1..Len(decisions)
      /\ decisions[r.dec].status = r.status

(* spec.md section 8: "two execute calls with the same (tenant,           *)
(* idempotency_key) produce one execution row; the second call returns the *)
(* first call's outcome".  Every answer to an execute that reached the     *)
(* orchestrator agrees with the execution row recorded under its key.      *)
RepeatReturnsRecordedOutcome ==
  \A r \in responses :
    r.kind = "execute" /\ r.key # NoId /\ execRows[r.key] # NoRow =>
      /\ r.status = execRows[r.key].status
      /\ r.result = execRows[r.key].result

(* spec.md section 7: only "store unreachable" surfaces as a 5xx, errors  *)
(* are swallowed into decision status only where documented.  Every stored *)
(* decision was evaluated against the policy version published when it was *)
(* evaluated (no published version: version 0 and the default ALLOW).      *)
DecisionFollowsPublishedPolicy ==
  \A n \in 1..Len(decisions) : decisions[n].ver = decisions[n].published
=============================================================================
