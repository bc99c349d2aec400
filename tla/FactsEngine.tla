----------------------------- MODULE FactsEngine -----------------------------
(***************************************************************************)
(* The facts engine of internal/facts/engine.go and the admin handlers    *)
(* that edit its tables (internal/adminapi/handlers_actions.go), for one   *)
(* tenant and one action.                                                  *)
(*                                                                         *)
(* JSON values are tagged records, one field name per tag, so TLC never   *)
(* compares values of two different kinds.  A resolver's response sample  *)
(* is abstracted to the value at the one field the mappings read.  A      *)
(* JMESPath expression is a path record: the field of a resolver's sample, *)
(* the inputs, an expression the parser rejects, or "" (EmptyPath).        *)
(* Text conversions (ParseFloat, time.Parse, the predicate split) are      *)
(* given by tables of the strings the model uses: NumberText, TimeText,    *)
(* PredText.  Timestamps are day numbers.                                  *)
(***************************************************************************)
EXTENDS Integers, Sequences, FiniteSets, TLC
LOCAL INSTANCE SequencesExt

CONSTANTS
    ResolverNames,   \* fact_resolvers.name
    MappingNames,    \* fact_mappings.name
    ByName,          \* MappingNames as a sequence in alphabetical order
    InputValue,      \* the value of the inputs field the mappings read
    ResolverBodies,  \* UpsertResolverBody values an admin may send
    MappingBodies,   \* UpsertMappingBody values an admin may send
    NumberText,      \* strings ParseFloat(TrimSpace(s)) accepts, with their value
    TimeText,        \* strings toTime accepts, with their day number
    BlankText,       \* strings that TrimSpace makes empty
    PredText,        \* predicate strings "f=='lit'" with their [field, lit]
    Omitted,         \* a nil pointer, map or slice in a request body
    NoRow,
    MaxCommitsPerRead \* bound on the admin commits between the two reads

JNull      == [t |-> "null"]
JNum(n)    == [t |-> "num", n |-> n]
JStr(s)    == [t |-> "str", s |-> s]
JBool(b)   == [t |-> "bool", b |-> b]
JArr(xs)   == [t |-> "arr", a |-> xs]
JObj(f)    == [t |-> "obj", o |-> f]
Err        == [t |-> "err"]                \* a non-nil error
ResolverPath(r) == [kind |-> "resolver", r |-> r]
InputsPath == [kind |-> "inputs"]
BadPath    == [kind |-> "invalid"]
EmptyPath  == [kind |-> "empty"]

VARIABLES
    resolvers,   \* fact_resolvers rows by name: [sample, enabled] or NoRow
    mappings,    \* fact_mappings rows by name: [jmespath, fact_key, transform, transform_args, required]
    rdPc,        \* a ResolveFacts transaction: "idle", "loaded" or "done"
    rdResolvers, \* the resolver rows its first statement read
    rdSeen,      \* history: the table states committed since it began
    rdResult     \* the result it computed, or NoRow
vars == <<resolvers, mappings, rdPc, rdResolvers, rdSeen, rdResult>>

Tables == [res |-> resolvers, maps |-> mappings]

-----------------------------------------------------------------------------
(* The helpers of engine.go.                                               *)

ToFloat(v) == IF v.t = "num" THEN v.n ELSE 0

ParsesTime(v) == v.t = "str" /\ v.s \in DOMAIN TimeText

IsZero(v) ==
    CASE v.t = "null" -> TRUE
      [] v.t = "str"  -> v.s \in BlankText
      [] v.t = "num"  -> v.n = 0
      [] v.t = "arr"  -> v.a = <<>>
      [] v.t = "obj"  -> DOMAIN v.o = {}
      [] OTHER        -> FALSE

ToArray(v) ==
    CASE v.t = "arr"  -> v.a
      [] v.t = "null" -> <<>>
      [] OTHER        -> <<v>>

\* fmt.Sprint of a field value; composite values print with brackets.
Sprint(v) ==
    CASE v.t = "str"  -> v.s
      [] v.t = "num"  -> ToString(v.n)
      [] v.t = "bool" -> IF v.b THEN "true" ELSE "false"
      [] v.t = "null" -> "<nil>"
      [] OTHER        -> "[composite]"

MatchPredicate(v, pred) ==
    /\ pred \in DOMAIN PredText
    /\ v.t = "obj"
    /\ PredText[pred].field \in DOMAIN v.o
    /\ Sprint(v.o[PredText[pred].field]) = PredText[pred].lit

\* The source of days_between: the two arguments, else a pair value.
TimePair(v, args) ==
    IF Len(args) = 2 THEN args
    ELSE IF v.t = "arr" /\ Len(v.a) = 2 THEN v.a ELSE <<>>

(* int(time.Since(t1).Hours()/24 - time.Since(t2).Hours()/24) reads the    *)
(* clock twice.  With drift, the second reading is later by a few ns, so    *)
(* a difference of k > 0 whole days is k - epsilon and truncates to k - 1.  *)
DaysSince(t1, t2, drift) ==
    IF drift /\ t2 - t1 > 0 THEN t2 - t1 - 1 ELSE t2 - t1

NumberOf(v) ==
    IF v.t = "str"
    THEN IF v.s \in DOMAIN NumberText THEN NumberText[v.s] ELSE 0
    ELSE ToFloat(v)

(* applyTransform, without "now" (it reads the clock; see the README).     *)
ApplyTransform(name, v, args, drift) ==
    LET pair == TimePair(v, args)
        src  == ToArray(args[1])
        pred == IF args[2].t = "str" THEN args[2].s ELSE ""
        hits == {i \in DOMAIN src : MatchPredicate(src[i], pred)}
        nz   == SelectSeq(args, LAMBDA a : ~IsZero(a))
    IN
    CASE name = "count" -> JNum(IF v.t = "arr" THEN Len(v.a) ELSE 0)
      [] name = "sum" ->
            JNum(IF v.t = "arr"
                 THEN FoldLeft(LAMBDA s, x : s + ToFloat(x), 0, v.a)
                 ELSE ToFloat(v))
      [] name = "days_between" ->
            IF pair = <<>> \/ ~ParsesTime(pair[1]) \/ ~ParsesTime(pair[2])
            THEN Err
            ELSE JNum(DaysSince(TimeText[pair[1].s], TimeText[pair[2].s], drift))
      [] name = "any" /\ Len(args) = 2 -> JBool(hits # {})
      [] name = "all" /\ Len(args) = 2 -> JBool(src # <<>> /\ hits = DOMAIN src)
      [] name \in {"any", "all"} ->
            JBool(IF v.t = "arr" THEN v.a # <<>> ELSE v.t # "null")
      [] name = "exists" -> JBool(v.t # "null")
      [] name = "first" ->
            IF v.t = "arr" THEN (IF v.a # <<>> THEN v.a[1] ELSE JNull) ELSE v
      [] name = "to_number" -> JNum(NumberOf(v))
      [] name = "to_string" -> JStr(Sprint(v))
      [] name = "coalesce" -> IF nz # <<>> THEN nz[1] ELSE v
      [] OTHER -> v

-----------------------------------------------------------------------------
(* ResolveFacts.                                                           *)

\* loadResolvers: the rows of the action WHERE enabled=true.
LoadedResolvers(res) == {r \in ResolverNames : res[r] # NoRow /\ res[r].enabled}

\* jmes.Search on the composed document; a missing field is null.
Search(res, path) ==
    CASE path.kind = "resolver" ->
            IF path.r \in LoadedResolvers(res) THEN res[path.r].sample ELSE JNull
      [] path.kind = "inputs" -> InputValue
      [] OTHER -> Err

Failed == [ok |-> FALSE, facts |-> <<>>]
Assign(f, k, v) == [x \in DOMAIN f \cup {k} |-> IF x = k THEN v ELSE f[x]]

\* A variant that fails the resolve on an optional mapping's error too.
ApplyMappingAbortOnOptional(acc, m, val, drift) ==
    LET tv == IF val = Err \/ m.transform = ""
              THEN val ELSE ApplyTransform(m.transform, val, m.transform_args, drift)
    IN CASE ~acc.ok  -> acc
         [] tv = Err -> Failed
         [] OTHER    -> [acc EXCEPT !.facts = Assign(@, m.fact_key, tv)]

\* One iteration of the mapping loop: search, transform, skip or fail, assign.
ApplyMapping(acc, m, val, drift) ==
    LET tv == IF val = Err \/ m.transform = ""
              THEN val ELSE ApplyTransform(m.transform, val, m.transform_args, drift)
    IN CASE ~acc.ok                 -> acc
         [] tv = Err /\ m.required  -> Failed
         [] tv = Err                -> acc
         [] OTHER                   -> [acc EXCEPT !.facts = Assign(@, m.fact_key, tv)]

\* The mappings in the order the query returned them, with the clock drift
\* of each mapping's days_between.
ResolveFacts(res, maps, order, drift) ==
    LET step(acc, n) == ApplyMapping(acc, maps[n], Search(res, maps[n].jmespath), drift[n])
    IN FoldLeft(step, [ok |-> TRUE, facts |-> <<>>], order)

\* loadMappings has no ORDER BY: every order of the rows is possible.
RowOrders(maps) == SetToSeqs({n \in MappingNames : maps[n] # NoRow})

\* Every result ResolveFacts may return on one state of the tables.
CodeResults(t) ==
    {ResolveFacts(t.res, t.maps, o, d) :
        o \in RowOrders(t.maps), d \in [MappingNames -> BOOLEAN]}

-----------------------------------------------------------------------------
(* The reference of spec.md section 4.1: the mappings in alphabetical      *)
(* order of name, and the transform table.                                 *)

Truthy(v) ==
    CASE v.t = "null" -> FALSE
      [] v.t = "bool" -> v.b
      [] v.t = "num"  -> v.n # 0
      [] v.t = "str"  -> v.s # ""
      [] v.t = "arr"  -> v.a # <<>>
      [] OTHER        -> DOMAIN v.o # {}

SpecTransform(name, v, args) ==
    LET elems == ToArray(v)
        truthy == {i \in DOMAIN elems : Truthy(elems[i])}
        src  == ToArray(args[1])
        pred == IF args[2].t = "str" THEN args[2].s ELSE ""
        hits == {i \in DOMAIN src : MatchPredicate(src[i], pred)}
        pair == TimePair(v, args)
        nonZero == {i \in DOMAIN args : ~IsZero(args[i])}
    IN
    CASE name = "count" -> JNum(IF v.t = "arr" THEN Len(v.a) ELSE 0)
      [] name = "sum" ->
            JNum(IF v.t = "arr"
                 THEN FoldLeft(LAMBDA s, x : s + (IF x.t = "num" THEN x.n ELSE 0), 0, v.a)
                 ELSE NumberOf(v))
      [] name = "days_between" ->
            IF pair = <<>> \/ ~ParsesTime(pair[1]) \/ ~ParsesTime(pair[2])
            THEN Err ELSE JNum(TimeText[pair[2].s] - TimeText[pair[1].s])
      [] name = "any" /\ Len(args) = 2 -> JBool(hits # {})
      [] name = "all" /\ Len(args) = 2 -> JBool(src # <<>> /\ hits = DOMAIN src)
      [] name = "any" -> JBool(truthy # {})
      [] name = "all" -> JBool(elems # <<>> /\ truthy = DOMAIN elems)
      [] name = "exists" -> JBool(v # JNull)
      [] name = "first" -> IF v.t # "arr" THEN v ELSE IF v.a = <<>> THEN JNull ELSE Head(v.a)
      [] name = "to_number" -> JNum(NumberOf(v))
      [] name = "to_string" -> JStr(Sprint(v))
      [] name = "coalesce" -> IF nonZero = {} THEN v ELSE args[Min(nonZero)]
      [] OTHER -> v

SpecResolve(t) ==
    LET step(acc, n) ==
          LET m  == t.maps[n]
              v0 == Search(t.res, m.jmespath)
              v  == IF v0 = Err \/ m.transform = "" THEN v0
                    ELSE SpecTransform(m.transform, v0, m.transform_args)
          IN IF ~acc.ok \/ (v = Err /\ m.required) THEN Failed
             ELSE IF v = Err THEN acc
             ELSE [acc EXCEPT !.facts = Assign(@, m.fact_key, v)]
    IN FoldLeft(step, [ok |-> TRUE, facts |-> <<>>],
                SelectSeq(ByName, LAMBDA n : t.maps[n] # NoRow))

-----------------------------------------------------------------------------
(* The admin handlers and the ResolveFacts transaction.                    *)

Init ==
    /\ resolvers = [r \in ResolverNames |-> NoRow]
    /\ mappings = [m \in MappingNames |-> NoRow]
    /\ rdPc = "idle"
    /\ rdResolvers = [r \in ResolverNames |-> NoRow]
    /\ rdSeen = {}
    /\ rdResult = NoRow

Coalesce(new, old) == IF new = Omitted THEN old ELSE new

\* A commit while a ResolveFacts transaction runs joins its history; at
\* most MaxCommitsPerRead of them land between its two reads.  Once the
\* result is computed, nothing of the tables affects it: the model returns
\* it before the next commit.
Commit(t) ==
    /\ rdPc # "done"
    /\ rdPc = "loaded" => Cardinality(rdSeen) <= MaxCommitsPerRead
    /\ rdSeen' = IF rdPc = "loaded" THEN rdSeen \cup {t} ELSE rdSeen

\* An insert that binds the body's enabled without COALESCE($8,true).
UpsertResolverNoDefault(r, b) ==
    LET row == IF resolvers[r] = NoRow
               THEN [sample |-> Coalesce(b.sample, JNull), enabled |-> b.enabled]
               ELSE [sample  |-> Coalesce(b.sample, resolvers[r].sample),
                     enabled |-> Coalesce(b.enabled, resolvers[r].enabled)]
    IN /\ resolvers' = [resolvers EXCEPT ![r] = row]
       /\ Commit([res |-> resolvers', maps |-> mappings])
       /\ UNCHANGED <<mappings, rdPc, rdResolvers, rdResult>>

\* upsertResolver: INSERT ... ON CONFLICT DO UPDATE with COALESCE on every
\* field.  A NULL response_sample reads as {}, whose field is null.
UpsertResolver(r, b) ==
    LET row == IF resolvers[r] = NoRow
               THEN [sample  |-> Coalesce(b.sample, JNull),
                     enabled |-> Coalesce(b.enabled, TRUE)]
               ELSE [sample  |-> Coalesce(b.sample, resolvers[r].sample),
                     enabled |-> Coalesce(b.enabled, resolvers[r].enabled)]
    IN /\ resolvers' = [resolvers EXCEPT ![r] = row]
       /\ Commit([res |-> resolvers', maps |-> mappings])
       /\ UNCHANGED <<mappings, rdPc, rdResolvers, rdResult>>

DeleteResolver(r) ==
    /\ resolvers' = [resolvers EXCEPT ![r] = NoRow]
    /\ Commit([res |-> resolvers', maps |-> mappings])
    /\ UNCHANGED <<mappings, rdPc, rdResolvers, rdResult>>

\* upsertMapping: jmespath and fact_key are plain strings, so an omitted one
\* is bound as "" and COALESCE keeps ""; the other fields keep the old value.
UpsertMapping(m, b) ==
    LET old == mappings[m]
        row == IF old = NoRow
               THEN [jmespath |-> b.jmespath, fact_key |-> b.fact_key,
                     transform |-> Coalesce(b.transform, ""),
                     transform_args |-> Coalesce(b.transform_args, <<>>),
                     required |-> Coalesce(b.required, FALSE)]
               ELSE [jmespath |-> b.jmespath, fact_key |-> b.fact_key,
                     transform |-> Coalesce(b.transform, old.transform),
                     transform_args |-> Coalesce(b.transform_args, old.transform_args),
                     required |-> Coalesce(b.required, old.required)]
    IN /\ mappings' = [mappings EXCEPT ![m] = row]
       /\ Commit([res |-> resolvers, maps |-> mappings'])
       /\ UNCHANGED <<resolvers, rdPc, rdResolvers, rdResult>>

DeleteMapping(m) ==
    /\ mappings' = [mappings EXCEPT ![m] = NoRow]
    /\ Commit([res |-> resolvers, maps |-> mappings'])
    /\ UNCHANGED <<resolvers, rdPc, rdResolvers, rdResult>>

\* Begin, set_config, loadResolvers: the first statement's snapshot.
LoadResolvers ==
    /\ rdPc = "idle"
    /\ rdPc' = "loaded"
    /\ rdResolvers' = resolvers
    /\ rdSeen' = {Tables}
    /\ UNCHANGED <<resolvers, mappings, rdResult>>

\* loadMappings, a later statement with its own snapshot, then the loop.
LoadMappingsAndApply ==
    /\ rdPc = "loaded"
    /\ \E o \in RowOrders(mappings), d \in [MappingNames -> BOOLEAN] :
          rdResult' = ResolveFacts(rdResolvers, mappings, o, d)
    /\ rdPc' = "done"
    /\ UNCHANGED <<resolvers, mappings, rdResolvers, rdSeen>>

\* tx.Commit and the return of the facts.
ReturnFacts ==
    /\ rdPc = "done"
    /\ rdPc' = "idle"
    /\ rdResolvers' = [r \in ResolverNames |-> NoRow]
    /\ rdSeen' = {}
    /\ rdResult' = NoRow
    /\ UNCHANGED <<resolvers, mappings>>

Next ==
    \/ \E r \in ResolverNames, b \in ResolverBodies : UpsertResolver(r, b)
    \/ \E r \in ResolverNames : DeleteResolver(r)
    \/ \E m \in MappingNames, b \in MappingBodies : UpsertMapping(m, b)
    \/ \E m \in MappingNames : DeleteMapping(m)
    \/ LoadResolvers
    \/ LoadMappingsAndApply
    \/ ReturnFacts

Spec == Init /\ [][Next]_vars

-----------------------------------------------------------------------------
(* Properties.                                                             *)

ResolverRow == [sample : {b.sample : b \in ResolverBodies} \cup {JNull},
                enabled : BOOLEAN]

TypeOK ==
    /\ resolvers \in [ResolverNames -> ResolverRow \cup {NoRow}]
    /\ rdResolvers \in [ResolverNames -> ResolverRow \cup {NoRow}]
    /\ \A m \in MappingNames :
          mappings[m] = NoRow \/ mappings[m].required \in BOOLEAN
    /\ rdPc \in {"idle", "loaded", "done"}

(* The facts ResolveFacts computes from the rows of the tables are the     *)
(* facts spec.md section 4.1 defines: mappings applied in alphabetical     *)
(* order of name, the last writer winning, an optional mapping's error     *)
(* skipped and a required one's failing the resolve, and the transform    *)
(* table, for every order loadMappings may return the rows in and every   *)
(* clock reading.                                                          *)
FactsMatchSpec == \A r \in CodeResults(Tables) : r = SpecResolve(Tables)

(* A resolve returns facts that some committed state of the resolver and  *)
(* mapping tables gives, although loadResolvers and loadMappings are two  *)
(* statements of a READ COMMITTED transaction.                             *)
ResolveReadsOneSnapshot ==
    rdPc = "done" =>
        rdResult \in UNION {CodeResults(t) : t \in rdSeen}

====
