------------------------- MODULE MCTemplateRenderer -------------------------
(* Operations and inputs for checking TemplateRenderer.                   *)
EXTENDS TemplateRenderer

Lit(s) == [k |-> "lit", s |-> s]
Param(name) == [k |-> "param", name |-> name, word |-> TRUE]
HyphenParam(name) == [k |-> "param", name |-> name, word |-> FALSE]
Ref(path) == [k |-> "ref", path |-> path, word |-> TRUE]
HyphenRef(path) == [k |-> "ref", path |-> path, word |-> FALSE]
Str(parts) == [k |-> "str", parts |-> parts]
Num(n) == [k |-> "num", n |-> n]
EmptyMap == [x \in {} |-> NoMap]
Tmpl(h, q, b, pp) == [headers |-> h, query |-> q, body |-> b, path_params |-> pp]

(* strconv's shortest 'g' output for values whose Go output is known.     *)
ASSUME /\ FormatV(1000000) = "1e+06"
       /\ FormatV(1500000) = "1.5e+06"
       /\ FormatV(1000005) = "1.000005e+06"
       /\ FormatV(123456) = "123456"
       /\ FormatV(-2500000) = "-2.5e+06"
       /\ FormatV(0) = "0"

(* POST /v1/orders/{id}/refund with the id, amount and customer email     *)
(* bound; a path without path_params.                                      *)
MCOps ==
  {[path |-> <<Lit("v1"), Lit("orders"), Param("id"), Lit("refund")>>,
    tmpl |-> Tmpl("X-Customer" :> Str(<<Ref(<<"customer", "email">>)>>),
                  "q" :> Str(<<Lit("ref-"), Ref(<<"id">>)>>),
                  ("amount" :> Str(<<Ref(<<"amount">>)>>)) @@ ("reason" :> Num(5)),
                  "id" :> Str(<<Ref(<<"id">>)>>))],
   [path |-> <<Lit("v1"), Lit("orders"), Param("id")>>,
    tmpl |-> Tmpl(EmptyMap, EmptyMap, EmptyMap, NoMap)]}

(* A path param mapped to a number literal of the template; a path param  *)
(* whose name has a hyphen, and a header whose reference has one: names   *)
(* the spec allows and the code's regexps do not match.                    *)
MCMoreOps ==
  {[path |-> <<Lit("v1"), Lit("stores"), Param("store")>>,
    tmpl |-> Tmpl(EmptyMap, EmptyMap, EmptyMap, "store" :> Num(1000000))],
   [path |-> <<Lit("v1"), Lit("orders"), HyphenParam("order-id")>>,
    tmpl |-> Tmpl(EmptyMap, EmptyMap, EmptyMap, "order-id" :> Str(<<Ref(<<"id">>)>>))],
   [path |-> <<Lit("v1"), Lit("orders")>>,
    tmpl |-> Tmpl("X-Order" :> Str(<<HyphenRef(<<"order-id">>)>>), EmptyMap, EmptyMap, EmptyMap)]}

S(s) == [t |-> "str", s |-> s]
N(n) == [t |-> "num", n |-> n]

(* Every combination of: id absent, "o1", "", 7 or 1000000; amount absent, *)
(* 123456 or 1500000; customer absent, an object with an email, or a       *)
(* string.                                                                 *)
MCInputSet ==
  LET ids       == {S("o1"), S(""), N(7), N(1000000)}
      amounts   == {N(123456), N(1500000)}
      customers == {[t |-> "obj", f |-> "email" :> S("e1")], S("x")}
      opt(k, vs) == {EmptyMap} \cup {k :> v : v \in vs}
  IN {i @@ a @@ c : i \in opt("id", ids), a \in opt("amount", amounts), c \in opt("customer", customers)}
=============================================================================
