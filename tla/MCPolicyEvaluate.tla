-------------------------- MODULE MCPolicyEvaluate --------------------------
(* Model values and small sets for checking PolicyEvaluate.               *)
EXTENDS PolicyEvaluate

\* The legal words and one a policy author might write for a denial.
MCWords == {"ALLOW", "ALLOW_WITH_CONDITIONS", "NEEDS_INPUT", "BLOCKED", "DENY"}

\* ttl_seconds: negative, zero, half a second, one and a half, ten minutes.
MCTtlValues == {-1000, 0, 500, 1500, 600000}

\* No published version, and one.
MCCodes == {"", "package policy"}
=============================================================================
