------------------------- MODULE MCConnectorCatalog --------------------------
(***************************************************************************)
(* Values for ConnectorCatalog: two tenants, two connector ids, three     *)
(* operation ids, and create and update bodies with their operation lists. *)
(***************************************************************************)
EXTENDS ConnectorCatalog

MCTenantSlug == [t \in {"t1", "t2"} |-> IF t = "t1" THEN "acme" ELSE "beta"]

Op(m, path, e) == [method |-> m, path |-> path, enabled |-> e]
Body(d, title, e, list) == [display |-> d, title |-> title, enabled |-> e, list |-> list]

\* /v1/orders/{id}, /v1/orders, /v1/order_status, /v1/orderStatus
OrderById   == <<Seg(<<W("v1")>>), Seg(<<W("orders")>>), ParamSeg("id")>>
Orders      == <<Seg(<<W("v1")>>), Seg(<<W("orders")>>)>>
OrderStatus == <<Seg(<<W("v1")>>), Seg(<<W("order"), Sep, W("status")>>)>>
OrderCamel  == <<Seg(<<W("v1")>>), Seg(<<W("order"), Cw("status")>>)>>

\* Bodies on which the manifest's and the orchestrator's names agree.  A
\* second create of the same body hits the unique kind.
MCCreateBodies ==
    { Body(<<Cw("orders")>>, <<>>, TRUE,
           <<Op("GET", OrderById, Omitted), Op("GET", OrderStatus, TRUE)>>) }
MCUpdateBodies ==
    { Body(<<>>, <<>>, TRUE, <<Op("POST", Orders, Omitted)>>),
      Body(<<W("shop")>>, <<Cw("contacts")>>, FALSE, <<>>) }

\* An operation list with a camelCase path segment.
MCCamelCreateBodies ==
    { Body(<<W("shop")>>, <<>>, TRUE,
           <<Op("GET", Orders, Omitted), Op("GET", OrderCamel, Omitted)>>) }

\* Two operations with different names, the second one disabled.
MCTwoOpCreateBodies ==
    { Body(<<W("shop")>>, <<>>, TRUE,
           <<Op("GET", Orders, Omitted), Op("GET", OrderStatus, FALSE)>>) }
====
