--------------------------- MODULE PolicyEvaluate ---------------------------
(***************************************************************************)
(* How a Rego result becomes a decision: policy.Evaluate                   *)
(* (src/internal/policy/service.go), which preflight persists, and the     *)
(* admin dry run dryRunPolicy (src/internal/adminapi/handlers_policies.go), *)
(* which shows an admin what a policy would decide.  ActionProtocol         *)
(* abstracts a result to a status and a TTL; here the value the Rego query  *)
(* returns is kept: an evaluation error or empty result set, a value that  *)
(* is not an object, or an object whose "status" is a string (any word, in *)
(* any case), another JSON value or absent, and whose "ttl_seconds" is a    *)
(* number (held in milliseconds, so fractions of a second are exact) or     *)
(* absent.  Times are offsets from time.Now() in milliseconds.              *)
(*                                                                         *)
(* SpecEvaluate is spec.md section 4.3 (Loading, Evaluation) written as an  *)
(* operator, the reference Evaluate is compared with.                       *)
(***************************************************************************)
EXTENDS Integers

CONSTANTS
    Words,           \* status words a policy may return, as upper-case Go strings
    Cases,           \* "upper" and the other spellings of a word ("lower")
    TtlValues,       \* ttl_seconds values a policy may return, in milliseconds
    Codes,           \* compiled_rego of the latest published version; "" when none
    NumbersAsFloat,  \* whether rego results hold JSON numbers as float64; OPA's
                     \* ast.JSON gives json.Number, so the models set FALSE
    NotString,       \* a "status" that is a JSON value other than a string
    Absent,          \* a key the object does not have
    NoEval           \* no call made yet

DefaultTTL == 15 * 60 * 1000
ErrorTTL == 5 * 60 * 1000

\* A string value of "status": a word spelled in one case.
Statuses == [word : Words, case : Cases]

\* What rs[0].Expressions[0].Value can be, with r.Eval's error folded in.
Results ==
    {[kind |-> k, status |-> Absent, ttl |-> Absent] : k \in {"error", "nonmap"}}
    \cup [kind : {"map"}, status : Statuses \cup {NotString, Absent}, ttl : TtlValues \cup {Absent}]

\* strings.ToUpper
Upper(s) == [s EXCEPT !.case = "upper"]

\* A Go string constant such as "ALLOW".
Literal(w) == [word |-> w, case |-> "upper"]

Decisions == [status : {"ALLOW", "ALLOW_WITH_CONDITIONS", "NEEDS_INPUT", "BLOCKED"},
              reasons : {"none", "policy", "policy_error"}, ttl : Int]

VARIABLES
    evalIn,    \* the published code and the result of the last Evaluate call
    evalOut,   \* the decision it returned
    dryIn,     \* the result the last dry run evaluated
    dryOut     \* what the dry run answered: [status, reasons]
vars == <<evalIn, evalOut, dryIn, dryOut>>

-----------------------------------------------------------------------------
(* Evaluate's switch on m["status"].(string): exact, case-sensitive        *)
(* matches of three constants; any other string, or a non-string, is      *)
(* BLOCKED.                                                                *)
SwitchStatus(s) ==
    CASE s = Literal("ALLOW")                 -> "ALLOW"
      [] s = Literal("ALLOW_WITH_CONDITIONS") -> "ALLOW_WITH_CONDITIONS"
      [] s = Literal("NEEDS_INPUT")           -> "NEEDS_INPUT"
      [] OTHER                                -> "BLOCKED"

(* m["ttl_seconds"].(float64) with ttl > 0: time.Duration(ttl) converts   *)
(* the float to an integer, truncating the fraction, before it is scaled   *)
(* by time.Second.  Otherwise 15 minutes, which is every case when the     *)
(* number arrives as json.Number and the assertion fails.                  *)
CodeTTL(t) ==
    IF NumbersAsFloat /\ t \in TtlValues /\ t > 0
    THEN (t \div 1000) * 1000
    ELSE DefaultTTL

(* policy.Evaluate: no published code gives the default ALLOW; an         *)
(* evaluation error or empty result BLOCKED with policy_error for 5        *)
(* minutes; an object its switch and TTL; any other value ALLOW for 15     *)
(* minutes.  Reasons of an object are the policy's own.                   *)
Evaluate(code, r) ==
    CASE code = ""          -> [status |-> "ALLOW", reasons |-> "none", ttl |-> DefaultTTL]
      [] r.kind = "error"   -> [status |-> "BLOCKED", reasons |-> "policy_error", ttl |-> ErrorTTL]
      [] r.kind = "nonmap"  -> [status |-> "ALLOW", reasons |-> "none", ttl |-> DefaultTTL]
      [] OTHER              -> [status |-> SwitchStatus(r.status), reasons |-> "policy",
                                ttl |-> CodeTTL(r.ttl)]

(* dryRunPolicy evaluates the code the admin sends: an error or empty      *)
(* result is BLOCKED with policy_error; an object is echoed with a string  *)
(* status upper-cased (any word) and any other status left as it is; any   *)
(* other value is ALLOW.                                                   *)
DryRun(r) ==
    CASE r.kind = "error"  -> [status |-> Literal("BLOCKED"), reasons |-> "policy_error"]
      [] r.kind = "nonmap" -> [status |-> Literal("ALLOW"), reasons |-> "none"]
      [] OTHER -> [status |-> IF r.status \in Statuses THEN Upper(r.status) ELSE r.status,
                   reasons |-> "policy"]

-----------------------------------------------------------------------------
(* spec.md 4.3: status normalised to upper case; legal values the four    *)
(* statuses; any other value, an evaluation error or a malformed return    *)
(* value is BLOCKED with policy_error for 5 minutes; ttl_seconds absent or *)
(* non-positive is 15 minutes, otherwise that many seconds.               *)
LegalWords == {"ALLOW", "ALLOW_WITH_CONDITIONS", "NEEDS_INPUT", "BLOCKED"}
WellFormed(r) == r.kind = "map" /\ r.status \in Statuses /\ Upper(r.status).word \in LegalWords
SpecEvaluate(code, r) ==
    CASE code = ""      -> [status |-> "ALLOW", reasons |-> "none", ttl |-> DefaultTTL]
      [] ~WellFormed(r) -> [status |-> "BLOCKED", reasons |-> "policy_error", ttl |-> ErrorTTL]
      [] OTHER          -> [status |-> Upper(r.status).word, reasons |-> "policy",
                            ttl |-> IF r.ttl # Absent /\ r.ttl > 0 THEN r.ttl ELSE DefaultTTL]

-----------------------------------------------------------------------------
Init ==
    /\ evalIn = NoEval /\ evalOut = NoEval
    /\ dryIn = NoEval /\ dryOut = NoEval

\* A preflight's Evaluate on the published code and what its query returned.
EvaluateCall(code, r) ==
    /\ evalIn' = [code |-> code, res |-> r]
    /\ evalOut' = Evaluate(code, r)
    /\ UNCHANGED <<dryIn, dryOut>>

\* An admin dry run of code whose query returned r.
DryRunPolicy(r) ==
    /\ dryIn' = r
    /\ dryOut' = DryRun(r)
    /\ UNCHANGED <<evalIn, evalOut>>

Next ==
    \/ \E c \in Codes, r \in Results : EvaluateCall(c, r)
    \/ \E r \in Results : DryRunPolicy(r)

Spec == Init /\ [][Next]_vars

-----------------------------------------------------------------------------
TypeOK ==
    /\ evalIn \in {NoEval} \cup [code : Codes, res : Results]
    /\ evalOut \in {NoEval} \cup Decisions
    /\ dryIn \in {NoEval} \cup Results

(* spec.md 4.3: Evaluate classifies every result the way the spec says:   *)
(* same status, same reasons, same TTL.                                    *)
EvaluateMatchesSpec ==
    evalIn # NoEval => evalOut = SpecEvaluate(evalIn.code, evalIn.res)

(* The dry run exists to show an admin what the policy would decide: for  *)
(* the same result of the published code, it answers the status preflight *)
(* would store.                                                            *)
DryRunPredictsEvaluate ==
    evalIn # NoEval /\ dryIn = evalIn.res /\ evalIn.code # "" =>
        dryOut.status = Literal(evalOut.status)

====
