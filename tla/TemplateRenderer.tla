-------------------------- MODULE TemplateRenderer --------------------------
(***************************************************************************)
(* The request the orchestrator sends for a resolved operation:            *)
(* orchestrator.Execute (src/internal/orchestrator/service.go) renders the *)
(* operation's request_tmpl with the execute's inputs (headers, query,     *)
(* body, path params, the unresolved-placeholder check).  ActionProtocol   *)
(* abstracts this step to its outcome (OpOutcome); here the rendering is   *)
(* kept, for JSON inputs as the policy handler decodes them (json.Decode   *)
(* into map[string]any: a number is a float64).                            *)
(*                                                                         *)
(* A template string is a sequence of parts: literal text or a {{ key }}   *)
(* reference, whose key is a path of names and is flagged when it matches  *)
(* the code's regexp [a-zA-Z0-9_.]+.  A path is a sequence of segments:    *)
(* literal text or a {name} placeholder, flagged when name matches          *)
(* [a-zA-Z0-9_]+.  Numbers are integers (float64 holds them exactly below  *)
(* 2^53).  The base URL is a prefix both renderings share and is left out; *)
(* url.PathEscape leaves every character of the modelled values as it is  *)
(* ("+" is allowed in a path segment); url.Values.Encode writes "+" as    *)
(* %2B, which the upstream decodes back to "+", so a rendered value is     *)
(* compared as the upstream reads it.                                      *)
(*                                                                         *)
(* SpecRender is spec.md section 4.5 written as an operator, the reference *)
(* Render is compared with.                                                *)
(***************************************************************************)
EXTENDS Integers, Sequences, TLC
LOCAL INSTANCE SequencesExt

CONSTANTS
    Ops,        \* operations: [path : Seq(Segment), tmpl : [headers, query, body, path_params]]
    InputSet,   \* the inputs objects an execute may carry
    NoMap,      \* a template key that is absent or not an object
    NoCall      \* no call made yet

Nil == [t |-> "null"]

VARIABLES
    call,   \* the operation and inputs of the last render: [op, in]
    out     \* what was rendered: the request sent, or the FAILED result
vars == <<call, out>>

-----------------------------------------------------------------------------
(* fmt.Sprintf("%v", x) of a float64 x holding the integer n: strconv's    *)
(* 'g' format with the shortest digits, which switches to an exponent when *)
(* the decimal exponent is 6 or more; the mantissa drops trailing zeros    *)
(* and the exponent has at least two digits (1000000 is "1e+06", 1500000   *)
(* "1.5e+06", 123456 "123456").                                            *)
FormatV(n) ==
    LET RECURSIVE NumDigits(_), DropTrailingZeros(_), Zeros(_)
        NumDigits(x) == IF x < 10 THEN 1 ELSE 1 + NumDigits(x \div 10)
        DropTrailingZeros(x) == IF x > 0 /\ x % 10 = 0 THEN DropTrailingZeros(x \div 10) ELSE x
        Zeros(i) == IF i <= 0 THEN "" ELSE "0" \o Zeros(i - 1)
        a    == IF n < 0 THEN -n ELSE n
        sign == IF n < 0 THEN "-" ELSE ""
        e    == NumDigits(a) - 1
        m    == DropTrailingZeros(a)
        k    == NumDigits(m)
        frac == m % 10^(k - 1)
    IN IF a = 0 \/ e < 6 THEN ToString(n)
       ELSE sign \o ToString(m \div 10^(k - 1))
                 \o (IF k = 1 THEN "" ELSE "." \o Zeros(k - 1 - NumDigits(frac)) \o ToString(frac))
                 \o "e+" \o (IF e < 10 THEN "0" ELSE "") \o ToString(e)

\* The value at a dotted path: each name indexes an object; a missing name
\* or a non-object on the way is nil.
Lookup(in, path) ==
    LET RECURSIVE Walk(_, _)
        Walk(cur, i) ==
            CASE i > Len(path) -> cur
              [] cur.t = "obj" -> Walk(IF path[i] \in DOMAIN cur.f THEN cur.f[path[i]] ELSE Nil, i + 1)
              [] OTHER         -> Nil
    IN Walk([t |-> "obj", f |-> in], 1)

\* fmt %v of a decoded JSON value (no template reaches an object).
Sprint(v) ==
    CASE v.t = "str"  -> v.s
      [] v.t = "num"  -> FormatV(v.n)
      [] v.t = "bool" -> IF v.b THEN "true" ELSE "false"

KeyText(path) == FoldLeft(LAMBDA s, x : IF s = "" THEN x ELSE s \o "." \o x, "", path)

(* resolve: a template value that is not a string is printed with %v; in  *)
(* a string every {{ key }} the regexp matches becomes the %v of the value *)
(* at its path, "" when that is nil, and any other text is kept.           *)
Resolve(tv, in) ==
    LET part(p) ==
            CASE p.k = "lit"   -> p.s
              [] p.word        -> IF Lookup(in, p.path) = Nil THEN "" ELSE Sprint(Lookup(in, p.path))
              [] OTHER         -> "{{" \o KeyText(p.path) \o "}}"
    IN IF tv.k = "num" THEN FormatV(tv.n)
       ELSE FoldLeft(LAMBDA s, p : s \o part(p), "", tv.parts)

(* Path params: a {name} the regexp matches, with path_params an object    *)
(* that maps name to a value whose escaped rendering is not empty, is      *)
(* replaced; any other placeholder is kept.                                *)
PathSegment(s, pv, in) ==
    CASE s.k = "lit" -> s
      [] s.word /\ pv # NoMap /\ s.name \in DOMAIN pv /\ Resolve(pv[s.name], in) # "" ->
            [k |-> "lit", s |-> Resolve(pv[s.name], in)]
      [] OTHER -> s

(* Execute from the template to the request: headers and query values     *)
(* resolved, top-level string values of the body resolved and others kept, *)
(* the path params substituted; a placeholder left in the URL fails the    *)
(* execution with unresolved_path_params before any call.                  *)
Render(op, in) ==
    LET t   == op.tmpl
        url == [i \in DOMAIN op.path |-> PathSegment(op.path[i], t.path_params, in)]
    IN IF \E i \in DOMAIN url : url[i].k = "param"
       THEN [status |-> "FAILED", problem |-> "unresolved-path-params"]
       ELSE [status  |-> "SENT",
             url     |-> [i \in DOMAIN url |-> url[i].s],
             headers |-> [h \in DOMAIN t.headers |-> Resolve(t.headers[h], in)],
             query   |-> [q \in DOMAIN t.query |-> Resolve(t.query[q], in)],
             body    |-> [b \in DOMAIN t.body |->
                            IF t.body[b].k = "str" THEN Resolve(t.body[b], in) ELSE t.body[b]]]

-----------------------------------------------------------------------------
(* spec.md 4.5: resolve replaces every {{ key.with.dots }} with the value  *)
(* at that dotted path in inputs, a missing path rendering as ""; a non-   *)
(* string is the value itself.  A value is written as JSON writes it: a    *)
(* number in its decimal digits.  Each {name} of the path is replaced by   *)
(* url_path_escape(resolve(path_params[name])), kept when unmapped or      *)
(* empty; a { left in the URL fails with unresolved-path-params.           *)
Canon(v) ==
    CASE v.t = "str"  -> v.s
      [] v.t = "num"  -> ToString(v.n)
      [] v.t = "bool" -> IF v.b THEN "true" ELSE "false"
      [] v.t = "null" -> ""

SpecResolve(tv, in) ==
    IF tv.k = "num" THEN ToString(tv.n)
    ELSE FoldLeft(LAMBDA s, p : s \o (IF p.k = "lit" THEN p.s ELSE Canon(Lookup(in, p.path))),
                  "", tv.parts)

SpecSegment(s, pv, in) ==
    IF s.k = "param" /\ pv # NoMap /\ s.name \in DOMAIN pv /\ SpecResolve(pv[s.name], in) # ""
    THEN [k |-> "lit", s |-> SpecResolve(pv[s.name], in)]
    ELSE s

SpecRender(op, in) ==
    LET t   == op.tmpl
        url == [i \in DOMAIN op.path |-> SpecSegment(op.path[i], t.path_params, in)]
    IN IF \E i \in DOMAIN url : url[i].k = "param"
       THEN [status |-> "FAILED", problem |-> "unresolved-path-params"]
       ELSE [status  |-> "SENT",
             url     |-> [i \in DOMAIN url |-> url[i].s],
             headers |-> [h \in DOMAIN t.headers |-> SpecResolve(t.headers[h], in)],
             query   |-> [q \in DOMAIN t.query |-> SpecResolve(t.query[q], in)],
             body    |-> [b \in DOMAIN t.body |->
                            IF t.body[b].k = "str" THEN SpecResolve(t.body[b], in) ELSE t.body[b]]]

-----------------------------------------------------------------------------
Init == call = NoCall /\ out = NoCall

\* An execute reaching the template step of a resolved operation.
RenderRequest(op, in) ==
    /\ call' = [op |-> op, in |-> in]
    /\ out' = Render(op, in)

Next == \E op \in Ops, in \in InputSet : RenderRequest(op, in)

Spec == Init /\ [][Next]_vars

-----------------------------------------------------------------------------
TypeOK ==
    /\ call \in {NoCall} \cup [op : Ops, in : InputSet]
    /\ out = NoCall \/ out.status \in {"SENT", "FAILED"}

(* spec.md 4.5: the request Execute sends is the one the spec's renderer  *)
(* produces from the same template and inputs: the same URL (or the same  *)
(* unresolved-path-params failure), headers, query and body.               *)
RenderMatchesSpec ==
    call # NoCall => out = SpecRender(call.op, call.in)

====
