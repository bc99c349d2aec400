-------------------------- MODULE MCActionProtocol --------------------------
(* Model values and small definitions for checking ActionProtocol.        *)
EXTENDS ActionProtocol

MCActions == {"refunds.request"}
MCCodes == {"gate_on_facts", "deny_facts"}

\* Inputs i1 carries an idempotency_key, i2 does not.
MCIdemOf == [i \in Inputs |-> IF i = "i1" THEN CHOOSE k \in IdemKeys : TRUE ELSE NoIdem]

(* What data.policy.decide returns.  "gate_on_facts" asks for input when  *)
(* the facts did not resolve and allows for 1s otherwise.  "deny_facts"    *)
(* reads a fact: with nil facts the rule is undefined and the query has no *)
(* result (Evaluate's error branch); otherwise it returns a lower-case     *)
(* status, which Evaluate's case-sensitive switch classifies as BLOCKED.   *)
MCPolicyResult(code, facts) ==
  CASE code = "deny_facts" /\ facts = Null -> [kind |-> "error", status |-> "", ttl |-> 0]
    [] code = "deny_facts"                -> [kind |-> "map", status |-> "deny", ttl |-> 0]
    [] facts = Null                       -> [kind |-> "map", status |-> "NEEDS_INPUT", ttl |-> 0]
    [] OTHER                              -> [kind |-> "map", status |-> "ALLOW", ttl |-> 1]

\* A connector operation that dispatches, or none mapped to the action.
MCOpOutcome == [a \in Actions |-> {"dispatch", "no_operation"}]

\* ... or one whose path keeps a placeholder the inputs do not bind.
MCOpOutcomeAll == [a \in Actions |-> {"dispatch", "no_operation", "unresolved_path_params"}]
=============================================================================
