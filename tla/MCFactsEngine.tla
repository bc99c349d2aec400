---------------------------- MODULE MCFactsEngine ----------------------------
(***************************************************************************)
(* Values for FactsEngine: one resolver r1, two mappings m1 < m2, and the  *)
(* request bodies admins send, among them partial ones that omit fields.   *)
(***************************************************************************)
EXTENDS FactsEngine

Open   == JObj([status |-> JStr("open")])
Closed == JObj([status |-> JStr("closed")])

MCByName == <<"m1", "m2">>

MCInputValue == JStr(" 42")

MCNumberText == [s \in {" 42", "5"} |-> IF s = "5" THEN 5 ELSE 42]
MCTimeText   == [s \in {"2024-01-01", "2024-01-03"} |->
                    IF s = "2024-01-01" THEN 0 ELSE 2]
MCPredText   == [s \in {"status=='open'"} |-> [field |-> "status", lit |-> "open"]]

MCResolverBodies ==
    { [sample |-> JArr(<<Open>>),         enabled |-> Omitted],
      [sample |-> JArr(<<>>),             enabled |-> Omitted],
      [sample |-> JStr(" 42"),            enabled |-> Omitted],
      [sample |-> Omitted,                enabled |-> FALSE],
      [sample |-> Omitted,                enabled |-> TRUE] }

MappingBody(p, k, tr, args, req) ==
    [jmespath |-> p, fact_key |-> k, transform |-> tr,
     transform_args |-> args, required |-> req]

\* Bodies whose transforms the spec's table and applyTransform agree on.
MCMappingBodies ==
    { MappingBody(ResolverPath("r1"), "orders", "count", Omitted, TRUE),
      MappingBody(ResolverPath("r1"), "first", "first", Omitted, Omitted),
      MappingBody(InputsPath, "amount", "to_number", Omitted, TRUE),
      MappingBody(ResolverPath("r1"), "label", "coalesce",
                  <<JStr(" "), JNum(0), JStr("vip")>>, Omitted),
      MappingBody(BadPath, "x", Omitted, Omitted, FALSE),
      \* a body that only sets required
      MappingBody(EmptyPath, "", Omitted, Omitted, TRUE) }

\* Two mappings that write the same fact key.
MCSharedKeyBodies ==
    MCMappingBodies \cup
    { MappingBody(ResolverPath("r1"), "orders", "exists", <<>>, Omitted) }

\* any with a source and a predicate, and with one argument over a sample
\* whose elements are all falsy.
MCAnyBodies ==
    { MappingBody(ResolverPath("r1"), "any_open", "any",
                  <<JArr(<<Closed, Open>>), JStr("status=='open'")>>, Omitted),
      MappingBody(ResolverPath("r1"), "any_order", "any", Omitted, Omitted) }
MCFalsyResolverBodies ==
    { [sample |-> JArr(<<JNum(0)>>), enabled |-> Omitted] }

\* sum of a numeric string.
MCSumBodies ==
    { MappingBody(InputsPath, "total", "sum", Omitted, TRUE) }

\* days_between of two dates two days apart.
MCDaysBodies ==
    { MappingBody(InputsPath, "age", "days_between",
                  <<JStr("2024-01-01"), JStr("2024-01-03")>>, TRUE) }
====
