-------------------------- MODULE MCPolicyVersions --------------------------
(* Model-checking instance of PolicyVersions: two tenants, two admin      *)
(* handlers, one action, two codes, versions 1..3.                         *)
EXTENDS PolicyVersions

MCActions == {"refunds.request"}
MCCodes == {"allow_all", "block_all"}

\* One code: which code a row holds does not change which rows are published.
MCOneCode == {"allow_all"}
=============================================================================
