--------------------------- MODULE ConnectorCatalog ---------------------------
(***************************************************************************)
(* Custom connectors and their operations: the admin handlers that write   *)
(* them (internal/adminapi/handlers_connectors.go), the action keys the    *)
(* manifest advertises (internal/manifest/service.go over the registry    *)
(* query of pkg/connectors/registry.go) and the orchestrator's resolution *)
(* of an action key to an operation (internal/orchestrator/service.go).    *)
(*                                                                         *)
(* A name (display name, title, path segment) is a sequence of tokens: a  *)
(* word, stored in lower case with a flag for an upper-case first letter,  *)
(* or a run of non-alphanumeric characters.  That is the detail the two    *)
(* slug functions of the code tell apart.  A path is a sequence of        *)
(* segments, without the slashes.                                          *)
(***************************************************************************)
EXTENDS Integers, Sequences, FiniteSets
LOCAL INSTANCE SequencesExt

CONSTANTS
    Tenants,       \* tenant ids
    TenantSlug,    \* tenants.slug of each tenant
    ConnIds,       \* the uuids connector definitions may get
    OpIds,         \* the uuids operations may get
    Admins,        \* concurrent admin requests
    CreateBodies,  \* CustomConnectorBody values of a create
    UpdateBodies,  \* CustomConnectorBody values of an update
    OpFlags,       \* the enabled values admins PUT on one operation
    Omitted,       \* an absent enabled flag
    NoRow

W(w)  == [k |-> "w", w |-> w, cap |-> FALSE]   \* a word, all lower case
Cw(w) == [k |-> "w", w |-> w, cap |-> TRUE]    \* a word with a capital first letter
Sep   == [k |-> "sep"]                         \* a run of non-alphanumerics
Seg(toks) == [param |-> FALSE, toks |-> toks]
ParamSeg(w) == [param |-> TRUE, toks |-> <<W(w)>>]   \* "{w}"

VARIABLES
    defs,   \* connector_definitions by id: [tenant, kind, title] or NoRow
    ops,    \* connector_operations rows: [id, conn, method, path, enabled, by]
    tc,     \* tenant_connectors.enabled by tenant and connector id, or NoRow
    adm,    \* per admin request: [t, c, h, todo] with its statements left, or NoRow
    sent    \* history: the operation lists requests sent for each connector id
vars == <<defs, ops, tc, adm, sent>>

-----------------------------------------------------------------------------
(* Name normalisation.                                                     *)

(* The groups of words a name splits into: a run of non-alphanumerics     *)
(* separates two groups, and with camel so does a capital letter after a  *)
(* word (the regexp ([a-z0-9])([A-Z]) -> $1-$2).                           *)
Groups(toks, camel) ==
    LET close(acc) == IF acc.cur = "" THEN acc.done ELSE Append(acc.done, acc.cur)
        step(acc, tk) ==
            CASE tk.k = "sep" ->
                    [done |-> close(acc), cur |-> "", prevWord |-> FALSE]
              [] camel /\ tk.cap /\ acc.prevWord ->
                    [done |-> close(acc), cur |-> tk.w, prevWord |-> TRUE]
              [] OTHER -> [acc EXCEPT !.cur = @ \o tk.w, !.prevWord = TRUE]
        last == FoldLeft(step, [done |-> <<>>, cur |-> "", prevWord |-> FALSE], toks)
    IN close(last)

\* The groups joined by "-": replace, lower-case, trim and collapse hyphens.
Joined(gs) == FoldLeft(LAMBDA s, g : IF s = "" THEN g ELSE s \o "-" \o g, "", gs)

\* slug of the orchestrator, and of the manifest for a connector kind.
Slug(toks) == Joined(Groups(toks, TRUE))

(* The name of a path: its last segment that is no {param} and not v1,    *)
(* normalised; "root" for an empty path, "action" if none is left.        *)
(* deriveName of the manifest normalises without the camel-case split,    *)
(* deriveShort of the orchestrator with it.                               *)
ShortName(path, camel) ==
    LET name(i) == IF path[i].param \/ path[i].toks = <<W("v1")>> THEN ""
                   ELSE Joined(Groups(path[i].toks, camel))
        named == {i \in DOMAIN path : name(i) # ""}
    IN IF path = <<>> THEN "root"
       ELSE IF named = {} THEN "action" ELSE name(Max(named))

DeriveName(path)  == ShortName(path, FALSE)
DeriveShort(path) == ShortName(path, TRUE)

-----------------------------------------------------------------------------
(* The manifest and the orchestrator's resolution.                        *)

OwnedBy(o, t) == defs[o.conn] # NoRow /\ defs[o.conn].tenant = t

\* LoadOperations: the operations of the tenant's connectors whose
\* tenant_connectors row is enabled; the operation's own flag is not read.
RegistryOps(t) == {o \in ops : OwnedBy(o, t) /\ tc[t][o.conn] = TRUE}

\* The connector kind's slug, else the tenant slug.
Namespace(t, d) == IF Slug(d.kind) # "" THEN Slug(d.kind) ELSE TenantSlug[t]

\* BuildManifest: one action per registry operation, key = namespace.short.
Manifest(t) ==
    {[ns |-> Namespace(t, defs[o.conn]), short |-> DeriveName(o.path), op |-> o.id] :
        o \in RegistryOps(t)}

\* The orchestrator's query: enabled operations of the tenant's connectors
\* whose kind or title slugs to the namespace; tenant_connectors is not read.
Candidates(t, ns) ==
    {o \in ops : /\ OwnedBy(o, t)
                 /\ o.enabled
                 /\ ns \in {Slug(defs[o.conn].kind), Slug(defs[o.conn].title)}}

(* The loop over the rows, which come in no defined order: the first row   *)
(* whose short name matches, else the first candidate; NoRow stands for   *)
(* no_operation_mapping.  The set holds every answer some row order gives.*)
Resolve(t, ns, short) ==
    LET exact == {o \in Candidates(t, ns) : DeriveShort(o.path) = short}
    IN IF exact # {} THEN {o.id : o \in exact}
       ELSE IF Candidates(t, ns) # {} THEN {o.id : o \in Candidates(t, ns)}
       ELSE {NoRow}

-----------------------------------------------------------------------------
(* The admin handlers.  A handler runs its SQL statements one at a time;   *)
(* adm[a].todo holds the statements of request a that are still to run.   *)

Init ==
    /\ defs = [c \in ConnIds |-> NoRow]
    /\ ops = {}
    /\ tc = [t \in Tenants |-> [c \in ConnIds |-> NoRow]]
    /\ adm = [a \in Admins |-> NoRow]
    /\ sent = [c \in ConnIds |-> {<<>>}]

Busy == {a \in Admins : adm[a] # NoRow}
Stmt(a) == Head(adm[a].todo)

\* The statement ran; the handler goes on with the next one, if any.
Pop(a) == adm' = [adm EXCEPT ![a] = IF Len(@.todo) = 1 THEN NoRow
                                    ELSE [@ EXCEPT !.todo = Tail(@)]]
\* The statement failed and the handler answered 500.
Abort(a) == adm' = [adm EXCEPT ![a] = NoRow]

\* An operation row is its method and path; the model keeps no other column.
OpSpecs(list) == [i \in DOMAIN list |-> [method |-> list[i].method, path |-> list[i].path]]

\* Inserts that pass an absent enabled flag on as NULL.
InsertOpsNoDefault(list) ==
    [i \in DOMAIN list |->
        [k |-> "insertOp", method |-> list[i].method, path |-> list[i].path,
         enabled |-> list[i].enabled]]

\* One INSERT INTO connector_operations per listed operation, enabled
\* defaulting to true.
InsertOps(list) ==
    [i \in DOMAIN list |->
        [k |-> "insertOp", method |-> list[i].method, path |-> list[i].path,
         enabled |-> IF list[i].enabled = Omitted THEN TRUE ELSE list[i].enabled]]

UpsertTcStmt(e) == [k |-> "upsertTc", enabled |-> e]

FreeOpIds == OpIds \ {o.id : o \in ops}
PendingInserts == UNION {{<<a, i>> : i \in {j \in DOMAIN adm[a].todo : adm[a].todo[j].k = "insertOp"}} :
                            a \in Busy}
\* The operation ids are a bound: a request starts only if ids are left for
\* its inserts.
IdsFor(list) == Len(list) + Cardinality(PendingInserts) <= Cardinality(FreeOpIds)

(* createCustomConnector: 400 without display_name; then the definition,  *)
(* each operation, and with enabled the tenant_connectors upsert.          *)
CreateCustomConnector(a, t, b) ==
    /\ adm[a] = NoRow
    /\ b.display # <<>>
    /\ IdsFor(b.list)
    /\ \E c \in ConnIds :
          /\ defs[c] = NoRow
          /\ \A x \in Busy : adm[x].c # c
          /\ adm' = [adm EXCEPT ![a] =
                [t |-> t, c |-> c, h |-> "create",
                 todo |-> <<[k |-> "insertDef", display |-> b.display, title |-> b.title]>>
                          \o InsertOps(b.list)
                          \o (IF b.enabled = TRUE THEN <<UpsertTcStmt(TRUE)>> ELSE <<>>)]]
          /\ sent' = [sent EXCEPT ![c] = @ \cup {OpSpecs(b.list)}]
    /\ UNCHANGED <<defs, ops, tc>>

(* updateCustomConnector for any id in the URL: the UPDATE of the         *)
(* definition, with enabled the upsert, and with a non-empty list the     *)
(* DELETE of the connector's operations and one INSERT per operation, with *)
(* no transaction around them.                                             *)
UpdateCustomConnector(a, t, c, b) ==
    /\ adm[a] = NoRow
    \* the id of a create still running has not been returned to anyone
    /\ \A x \in Busy : adm[x].c = c => adm[x].h = "update"
    /\ IdsFor(b.list)
    /\ adm' = [adm EXCEPT ![a] =
          [t |-> t, c |-> c, h |-> "update",
           todo |-> <<[k |-> "updateDef", display |-> b.display, title |-> b.title]>>
                    \o (IF b.enabled = Omitted THEN <<>> ELSE <<UpsertTcStmt(b.enabled)>>)
                    \o (IF b.list = <<>> THEN <<>>
                        ELSE <<[k |-> "deleteOps"]>> \o InsertOps(b.list))]]
    /\ sent' = IF b.list = <<>> THEN sent
               ELSE [sent EXCEPT ![c] = @ \cup {OpSpecs(b.list)}]
    /\ UNCHANGED <<defs, ops, tc>>

\* The kind is UNIQUE per tenant: a duplicate fails the handler.
KindTaken(t, kind, c) ==
    \E d \in ConnIds \ {c} : defs[d] # NoRow /\ defs[d].tenant = t /\ defs[d].kind = kind

InsertDefinition(a) ==
    LET r == adm[a]  s == Stmt(a)
    IN /\ a \in Busy /\ s.k = "insertDef"
       /\ \/ /\ KindTaken(r.t, s.display, r.c)
             /\ Abort(a) /\ UNCHANGED defs
          \/ /\ ~KindTaken(r.t, s.display, r.c)
             /\ defs' = [defs EXCEPT ![r.c] = [tenant |-> r.t, kind |-> s.display, title |-> s.title]]
             /\ Pop(a)
       /\ UNCHANGED <<ops, tc, sent>>

\* UPDATE ... SET kind=COALESCE(nullIfEmpty(display),kind), title=...
\* WHERE id=$6 AND tenant_id=$7: no row of another tenant is touched.
UpdateDefinition(a) ==
    LET r == adm[a]  s == Stmt(a)
        mine == defs[r.c] # NoRow /\ defs[r.c].tenant = r.t
        kind == IF s.display = <<>> THEN defs[r.c].kind ELSE s.display
        title == IF s.title = <<>> THEN defs[r.c].title ELSE s.title
    IN /\ a \in Busy /\ s.k = "updateDef"
       /\ \/ /\ mine /\ KindTaken(r.t, kind, r.c)
             /\ Abort(a) /\ UNCHANGED defs
          \/ /\ mine /\ ~KindTaken(r.t, kind, r.c)
             /\ defs' = [defs EXCEPT ![r.c] = [@ EXCEPT !.kind = kind, !.title = title]]
             /\ Pop(a)
          \/ /\ ~mine
             /\ Pop(a) /\ UNCHANGED defs
       /\ UNCHANGED <<ops, tc, sent>>

UpsertTenantConnector(a) ==
    /\ a \in Busy /\ Stmt(a).k = "upsertTc"
    /\ tc' = [tc EXCEPT ![adm[a].t][adm[a].c] = Stmt(a).enabled]
    /\ Pop(a)
    /\ UNCHANGED <<defs, ops, sent>>

\* The DELETE failing: updateCustomConnector drops its error and goes on
\* to the INSERTs.
DeleteOperationsFailed(a) ==
    /\ a \in Busy /\ Stmt(a).k = "deleteOps"
    /\ Pop(a)
    /\ UNCHANGED <<defs, ops, tc, sent>>

\* DELETE FROM connector_operations WHERE connector_id=$1: no tenant filter.
DeleteOperations(a) ==
    /\ a \in Busy /\ Stmt(a).k = "deleteOps"
    /\ ops' = {o \in ops : o.conn # adm[a].c}
    /\ Pop(a)
    /\ UNCHANGED <<defs, tc, sent>>

\* INSERT INTO connector_operations; the foreign key fails it, error
\* dropped, when the definition does not exist.
InsertOperation(a) ==
    LET r == adm[a]  s == Stmt(a)
    IN /\ a \in Busy /\ s.k = "insertOp"
       /\ IF defs[r.c] = NoRow
          THEN UNCHANGED ops
          ELSE \E id \in FreeOpIds :
                  ops' = ops \cup {[id |-> id, conn |-> r.c, method |-> s.method,
                                    path |-> s.path, enabled |-> s.enabled, by |-> r.t]}
       /\ Pop(a)
       /\ UNCHANGED <<defs, tc, sent>>

\* putTenantConnector: one upsert of the row for any connector id.
PutTenantConnector(t, c, e) ==
    /\ tc' = [tc EXCEPT ![t][c] = e]
    /\ UNCHANGED <<defs, ops, adm, sent>>

(* putConnectorAction: 404 unless the operation belongs to the tenant's   *)
(* connector, then UPDATE ... WHERE id=$2.  The check and the update are  *)
(* one step here: operation ids are fresh uuids, so a row deleted between *)
(* them makes the UPDATE a no-op, which is what this step does.           *)
PutConnectorAction(t, c, id, e) ==
    /\ \E o \in ops : o.id = id /\ o.conn = c /\ OwnedBy(o, t)
    /\ ops' = {IF o.id = id THEN [o EXCEPT !.enabled = e] ELSE o : o \in ops}
    /\ UNCHANGED <<defs, tc, adm, sent>>

Next ==
    \/ \E a \in Admins, t \in Tenants, b \in CreateBodies : CreateCustomConnector(a, t, b)
    \/ \E a \in Admins, t \in Tenants, c \in ConnIds, b \in UpdateBodies :
          UpdateCustomConnector(a, t, c, b)
    \/ \E a \in Admins :
          \/ InsertDefinition(a) \/ UpdateDefinition(a) \/ UpsertTenantConnector(a)
          \/ DeleteOperations(a) \/ DeleteOperationsFailed(a) \/ InsertOperation(a)
    \/ \E t \in Tenants, c \in ConnIds, e \in BOOLEAN : PutTenantConnector(t, c, e)
    \/ \E t \in Tenants, c \in ConnIds, id \in OpIds, e \in OpFlags : PutConnectorAction(t, c, id, e)

Spec == Init /\ [][Next]_vars

-----------------------------------------------------------------------------
(* Properties.                                                             *)

Token == [k : {"w"}, w : STRING, cap : BOOLEAN] \cup {Sep}

TypeOK ==
    /\ defs \in [ConnIds -> {NoRow} \cup [tenant : Tenants, kind : Seq(Token), title : Seq(Token)]]
    /\ \A o \in ops : o.id \in OpIds /\ o.conn \in ConnIds /\ o.enabled \in BOOLEAN /\ o.by \in Tenants
    /\ Cardinality(ops) = Cardinality({o.id : o \in ops})
    /\ tc \in [Tenants -> [ConnIds -> {NoRow} \cup BOOLEAN]]
    /\ \A a \in Busy : adm[a].t \in Tenants /\ adm[a].c \in ConnIds /\ adm[a].todo # <<>>

(* The spec's round trip: an action key the manifest advertises, when no   *)
(* other advertised action of the tenant has the same key, is resolved by *)
(* the orchestrator to the operation it was built from, whatever order the *)
(* candidate rows come in.  It relates the manifest's deriveName, kind slug *)
(* and registry query to the orchestrator's slug, deriveShort, query and   *)
(* first-candidate fallback.                                               *)
AdvertisedKeyDispatchesItsOperation ==
    \A t \in Tenants : \A m \in Manifest(t) :
        (\A m2 \in Manifest(t) : m2.ns = m.ns /\ m2.short = m.short => m2.op = m.op)
            => Resolve(t, m.ns, m.short) = {m.op}

OpsOf(c) == {o \in ops : o.conn = c}
CountIn(x, S, f(_)) == Cardinality({e \in S : f(e) = x})

(* When no admin request on a connector is in flight, its operations are   *)
(* exactly the list some request sent for it (as a multiset of method and *)
(* path): updateCustomConnector's DELETE and INSERTs replace the list, and *)
(* nothing outside a request adds or removes operations.                   *)
OperationsMatchASentList ==
    \A c \in ConnIds :
        (\A a \in Busy : adm[a].c # c) =>
            \E l \in sent[c] :
                \A x \in {[method |-> o.method, path |-> o.path] : o \in OpsOf(c)} \cup Range(l) :
                    CountIn(x, OpsOf(c), LAMBDA o : [method |-> o.method, path |-> o.path])
                        = CountIn(x, DOMAIN l, LAMBDA i : l[i])

(* Tenant isolation of the spec: every operation of a connector was        *)
(* written by a request of the tenant that owns the connector, whatever id *)
(* a request names in its URL.                                             *)
OperationsWrittenByOwner == \A o \in ops : OwnedBy(o, o.by)

ConnOf(id) == CHOOSE c \in ConnIds : \E o \in ops : o.id = id /\ o.conn = c

(* The registry's contract: the orchestrator dispatches only operations of *)
(* connectors whose tenant_connectors row is enabled for the tenant, for   *)
(* any action key it is given.                                             *)
DispatchOnlyEnabledConnectors ==
    \A t \in Tenants, o \in ops :
        \A ns \in {Slug(defs[o.conn].kind), Slug(defs[o.conn].title)} :
            \A id \in Resolve(t, ns, DeriveShort(o.path)) \ {NoRow} : tc[t][ConnOf(id)] = TRUE

====
