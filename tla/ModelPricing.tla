------------------------------- MODULE ModelPricing -------------------------------
(***************************************************************************)
(* What an answer costs.  A model's record is made from what its provider  *)
(* says of it, completed from the pricing directory (a list fetched from   *)
(* OpenRouter and refreshed when it is old) and from a curated table; a    *)
(* record without a price of its own is looked up in the directory again   *)
(* when an answer to be paid for has ended.  Names are sequences of the    *)
(* parts between slashes; prices are per token and, like the tokens read   *)
(* and written, small numbers.                                             *)
(***************************************************************************)
EXTENDS ProviderStream

CONSTANTS
    Offers,         \* what a provider may list: [provider, id, name, input, output,
                    \* request, params], an agent [mode, free, tools, key] too
    Listings,       \* what the directory may list: sequences of [id, slug, name, input,
                    \* output, request, tools]
    AliasRules,     \* [provider, from, to]: prefixes a provider writes differently
    CuratedFree,    \* the providers whose models the curated table calls free
    Curated,        \* the curated table: [key -> [input, output]]
    ToolProviders,  \* the providers whose models are assumed to call tools
    NoToolModels,   \* the models that are not, whatever their provider
    PricedTurns,    \* the turns whose model is provisioned and paid for
    MaxFetches, MaxSyncs

Modes == {"free", "token", "request", "external_directory"}

\* The modes are those the database accepts (the CHECK of sqlite-current.sql); a list has no
\* gaps, and the alias rules are a frozen list.
ASSUME PricingAssumption ==
    /\ None \notin Modes
    /\ \A l \in Listings : l \in Seq(ToSet(l) \ {None})
    /\ \A o \in Offers : "mode" \in DOMAIN o => o.mode \in Modes \cup {None}
    /\ IsFiniteSet(AliasRules)

VARIABLES
    entries,        \* the list the directory has, << >> before the first
    stale,          \* the list is older than the refresh interval
    fetching,       \* _refreshPromise is set
    sync,           \* the descriptor a sync works on and what it waits for
    row,            \* the model's record
    target,         \* the record that the request in progress resolved
    charge,         \* what the audit row says the answer cost
    fetches, syncs

pricingVars == <<entries, stale, fetching, sync, row, target, charge, fetches, syncs>>
allVars == <<vars, pricingVars>>

(* ------------------------------ the directory ----------------------------- *)

IsZero(price) == price \in {None, 0}

\* detectPricingMode; a price per request counts only where there is none per token.
ModeOf(p) ==
    LET tokens == p.input # None \/ p.output # None
        known  == tokens \/ p.request # None
        free   == known /\ IsZero(p.input) /\ IsZero(p.output) /\ IsZero(p.request)
    IN  IF free THEN "free" ELSE IF tokens THEN "token"
        ELSE IF known THEN "request" ELSE "external_directory"

EntryTags(e) == (IF e.tools = TRUE THEN {"tool-calling"} ELSE {})
                \cup (IF ModeOf(e) = "free" THEN {"free"} ELSE {})

FirstKnown(s) == FindFirst(s, LAMBDA e : e # None)

\* Mutant: the first model listed under a name keeps it.
UniqueFirst(l, names, key) == FirstKnown([i \in DOMAIN l |-> IF key \in names[i] THEN l[i] ELSE None])
\* addUniqueIndex: a name that two models of the list share belongs to neither.
Unique(l, names, key) ==
    LET hits == {i \in DOMAIN l : key \in names[i]}
    IN  IF Cardinality(hits) = 1 THEN l[CHOOSE i \in hits : TRUE] ELSE None

\* The last of a list with an id.
ById(l, key) == FirstKnown(Reverse([i \in DOMAIN l |-> IF l[i].id = key THEN l[i] ELSE None]))
BySlug(l, key) == Unique(l, [i \in DOMAIN l |-> {l[i].slug}], key)
ByName(l, key) == Unique(l, [i \in DOMAIN l |-> {l[i].name}], key)

Leaf(name) == <<Last(name)>>
LeavesOf(e) == {Leaf(e.id)} \cup (IF e.slug = None THEN {} ELSE {Leaf(e.slug)})
ByLeaf(l, key) == Unique(l, [i \in DOMAIN l |-> LeavesOf(l[i])], key)

Exactly(l, key) == FirstKnown(<<ById(l, key), BySlug(l, key), ByName(l, key)>>)

\* generateOpenRouterAliasCandidates
Aliases(provider, id) ==
    LET rules == {r \in AliasRules : r.provider = provider /\ IsPrefix(r.from, id)}
    IN  {r.to \o SubSeq(id, Len(r.from) + 1, Len(id)) : r \in rules}

ByAlias(l, provider, id) ==
    LET keys == SetToSeq(Aliases(provider, id))
    IN  FirstKnown([k \in DOMAIN keys |-> FirstKnown(<<ById(l, keys[k]), BySlug(l, keys[k])>>)])

\* lookupModel: by the exact names in their order, by an alias of an id, by the last part of one.
LookupModel(l, provider, names, ids) ==
    FirstKnown(<<FirstKnown([k \in DOMAIN names |-> Exactly(l, names[k])]),
                 FirstKnown([k \in DOMAIN ids |-> ByAlias(l, provider, ids[k])]),
                 FirstKnown([k \in DOMAIN ids |-> ByLeaf(l, Leaf(ids[k]))])>>)

\* What a lookup is given of a model: its id always; its key and its name, and the last part
\* of its key beside its id, where a record is made.
ShortNames(m) == <<<<m.provider>> \o m.id, m.id>>
LongNames(m) == ShortNames(m) \o <<m.key, m.name>>
LongIds(m) == <<m.id, Leaf(m.key)>>

(* ------------------------- from discovery to record ----------------------- *)

\* normalizeDiscoveredModel: the parameters a model supports tell whether it calls tools,
\* and one that lists none is taken to call them.
OfApi(o) ==
    LET mode == IF {o.input, o.output, o.request} = {None} THEN None ELSE ModeOf(o)
    IN  [provider |-> o.provider, id |-> o.id, key |-> <<o.provider>> \o o.id, name |-> o.name,
         mode |-> mode, input |-> o.input, output |-> o.output, request |-> o.request,
         free |-> mode = "free", tools |-> o.params = {} \/ "tools" \in o.params, agent |-> FALSE,
         tags |-> (IF "tools" \in o.params THEN {"tool-calling"} ELSE {})
                  \cup (IF mode = "free" THEN {"free"} ELSE {})]

\* normalizeModelDescriptor: what an agent says of its model is taken over.
OfAgent(o) ==
    [provider |-> o.provider, id |-> o.id, key |-> o.key, name |-> o.name,
     mode |-> o.mode, input |-> o.input, output |-> o.output, request |-> o.request,
     free |-> o.free, tools |-> IF o.tools = None THEN TRUE ELSE o.tools, agent |-> TRUE, tags |-> {}]

Discovered(o) == IF "mode" \in DOMAIN o THEN OfAgent(o) ELSE OfApi(o)

HasPrice(m) == m.mode \notin {None, "external_directory"} \/ {m.input, m.output, m.request} # {None}

\* Mutant: the directory's tags are taken over as they are.
MergeAllTags(m, tags) == m.tags \cup tags
\* mergeCapabilityTags: no tag that the record denies.
MergeTags(m, tags) ==
    m.tags \cup {t \in tags : (t = "tool-calling" => m.tools # FALSE) /\ (t = "free" => m.free = TRUE)}

FromDirectory(m, e) ==
    LET mode   == ModeOf(e)
        priced == IF HasPrice(m) THEN m
                  ELSE [m EXCEPT !.mode = mode, !.input = e.input, !.output = e.output,
                                 !.request = e.request, !.free = (@ = TRUE \/ mode = "free")]
        known  == [priced EXCEPT !.tools = IF @ = None THEN e.tools ELSE @]
    IN  IF m.agent THEN known ELSE [known EXCEPT !.tags = MergeTags(known, EntryTags(e))]

\* The curated table calls a model free, and gives the prices of one that has none.
FromCurated(m) ==
    LET exact  == m.key \in DOMAIN Curated
        called == [m EXCEPT !.free = IF exact \/ m.provider \in CuratedFree THEN TRUE ELSE @]
    IN  IF ~exact \/ HasPrice(m) THEN called
        ELSE [called EXCEPT !.mode = "token", !.input = Curated[m.key].input,
                            !.output = Curated[m.key].output]

Classified(m) ==
    IF /\ ~m.agent /\ m.provider \in ToolProviders /\ m.key \notin NoToolModels
       /\ m.tools # FALSE /\ m.tags \cap {"tool-calling", "function-calling"} = {}
    THEN [m EXCEPT !.tags = @ \cup {"tool-calling"}] ELSE m

\* enrichModelMetadata, with no list when the directory has none.
Enriched(d, l) ==
    LET e == LookupModel(l, d.provider, LongNames(d), LongIds(d))
    IN  Classified(FromCurated(IF e = None THEN d ELSE FromDirectory(d, e)))

\* getDiscoveryPricing: half a price is none.
StoredPrice(m) ==
    LET half == m.mode = "token" /\ None \in {m.input, m.output}
        mode == IF m.mode = None \/ half \/ (m.mode = "request" /\ m.request = None)
                THEN "external_directory" ELSE m.mode
    IN  [m EXCEPT !.mode = mode, !.input = IF half THEN None ELSE @, !.output = IF half THEN None ELSE @]

(* --------------------------------- charging ------------------------------- *)

Amount(price) == IF price = None THEN 0 ELSE price
Charge(cost, exempt, missing) == [cost |-> cost, exempt |-> exempt, missing |-> missing]

CostBy(mode, p, usage) ==
    CASE mode = "free"    -> Charge(0, TRUE, FALSE)
      [] mode = "request" -> Charge(Amount(p.request), FALSE, FALSE)
      [] OTHER            -> Charge(usage.input * Amount(p.input) + usage.output * Amount(p.output), FALSE, FALSE)

\* calculateRequestCost: the record's own price, else the directory's.
RequestCost(m, usage, l) ==
    LET e == LookupModel(l, m.provider, ShortNames(m), <<m.id>>)
    IN  IF m.mode # "external_directory" THEN CostBy(m.mode, m, usage)
        ELSE IF e # None THEN CostBy(ModeOf(e), e, usage)
        ELSE Charge(0, FALSE, TRUE)

(* ---------------------------------- steps --------------------------------- *)

\* Nothing is provisioned while an answer comes in, its record was resolved before.
AtRest == turn \in PricedTurns /\ (pos = 0 \/ status = "ended")
Pricing(step) == AtRest /\ step /\ UNCHANGED <<vars, target>>

Waiting(state) == IF sync # None /\ sync.state = "waiting" THEN [sync EXCEPT !.state = state] ELSE sync

\* load replaces the list and its indexes at once.
FetchSucceeds == Pricing(
    /\ fetching
    /\ entries' \in Listings
    /\ fetching' = FALSE /\ stale' = FALSE
    /\ sync' = Waiting("listed")
    /\ UNCHANGED <<row, charge, fetches, syncs>>)

\* Without a list a failure rejects everyone who waits, and they go on without a directory;
\* with one it is logged and the old list stays.
FetchFails == Pricing(
    /\ fetching
    /\ fetching' = FALSE
    /\ sync' = Waiting(IF entries = << >> THEN "alone" ELSE "listed")
    /\ UNCHANGED <<entries, stale, row, charge, fetches, syncs>>)

Age == Pricing(
    /\ entries # << >> /\ ~stale /\ fetches < MaxFetches
    /\ stale' = TRUE
    /\ UNCHANGED <<entries, fetching, sync, row, charge, fetches, syncs>>)

\* discoverProviderModels, then refreshIfNeeded: nothing for a fresh list, the refresh under way, or a new one.
StartSync(o) == Pricing(
    /\ sync = None /\ syncs < MaxSyncs
    /\ syncs' = syncs + 1
    /\ LET fresh == entries # << >> /\ ~stale IN
       /\ fresh \/ fetching \/ fetches < MaxFetches
       /\ fetching' = (fetching \/ ~fresh)
       /\ fetches' = fetches + IF fetching' # fetching THEN 1 ELSE 0
       /\ sync' = [descriptor |-> Discovered(o), state |-> IF fresh THEN "listed" ELSE "waiting"]
    /\ UNCHANGED <<entries, stale, row, charge>>)

\* enrichDiscoveryDescriptors and normalizeDiscoveryDescriptor; "of" and "list" remember
\* where a record comes from.
Provision == Pricing(
    /\ sync # None /\ sync.state # "waiting"
    /\ LET list == IF sync.state = "listed" THEN entries ELSE << >> IN
       row' = [model |-> StoredPrice(Enriched(sync.descriptor, list)),
               of |-> sync.descriptor, list |-> list]
    /\ sync' = None
    /\ UNCHANGED <<entries, stale, fetching, charge, fetches, syncs>>)

\* The request resolves its model when it starts.
Stream ==
    /\ Next
    /\ target' = IF pos = 0 /\ status = "reading" THEN row ELSE target
    /\ UNCHANGED <<entries, stale, fetching, sync, row, charge, fetches, syncs>>

\* auditLog after the answer's end: without usage a streamed answer costs nothing, a buffered
\* one what no tokens cost.
ChargeAnswer == Pricing(
    /\ status = "ended" /\ charge = None /\ target # None
    /\ \E streamed \in BOOLEAN :
         charge' = [price |-> IF streamed /\ Captured.usage = None THEN Charge(0, FALSE, FALSE)
                              ELSE RequestCost(target.model, Counted(Captured.usage), entries),
                    list |-> entries]
    /\ UNCHANGED <<entries, stale, fetching, sync, row, fetches, syncs>>)

PricingInit ==
    /\ entries = << >> /\ stale = FALSE
    /\ fetching = TRUE /\ fetches = 1   \* the gateway fetches the list as it starts
    /\ sync = None /\ row = None /\ target = None /\ charge = None /\ syncs = 0

PricedInit == Init /\ PricingInit

PricedNext ==
    \/ Stream
    \/ FetchSucceeds \/ FetchFails \/ Age \/ Provision \/ ChargeAnswer
    \/ \E o \in Offers : StartSync(o)

PricedSpec == PricedInit /\ [][PricedNext]_allVars

(* ------------------------------- properties ------------------------------- *)

\* The price a provider states itself, whole.
Own(d) == d.mode = "free" \/ (d.mode = "request" /\ d.request # None)
            \/ (d.mode = "token" /\ None \notin {d.input, d.output})

\* The i-th model of a list is one that names and ids can mean: by its id, or by a slug, a
\* name or a last part that no other model of the list has.
Meant(l, provider, names, ids, i) ==
    LET known == ToSet(names) \cup UNION {Aliases(provider, id) : id \in ToSet(ids)}
    IN  \/ l[i].id \in known
        \/ \E key \in known : {j \in DOMAIN l : l[j].slug = key} = {i}
        \/ \E key \in ToSet(names) : {j \in DOMAIN l : l[j].name = key} = {i}
        \/ \E id \in ToSet(ids) : {j \in DOMAIN l : Leaf(id) \in LeavesOf(l[j])} = {i}

CostsIn(l, provider, names, ids, usage) ==
    {CostBy(ModeOf(l[i]), l[i], usage) : i \in {j \in DOMAIN l : Meant(l, provider, names, ids, j)}}

\* An answer costs its tokens at the price its provider states; else at the price of a model
\* that the directory can mean by its names, as the record was made or as the answer ended,
\* or at the curated price; and it goes unpriced only when none of them knows it.  The price
\* passes through descriptor, envelope, directory, table, record and lookup.
AnswerCostsItsPrice ==
    (charge # None /\ Captured.usage # None) =>
        LET d == target.of
            usage == Captured.usage
            made == CostsIn(target.list, d.provider, LongNames(d), LongIds(d), usage)
            ended == CostsIn(charge.list, d.provider, ShortNames(d), <<d.id>>, usage)
            curated == IF d.key \in DOMAIN Curated THEN {CostBy("token", Curated[d.key], usage)} ELSE {}
        IN  IF Own(d) THEN charge.price = CostBy(d.mode, d, usage)
            ELSE IF charge.price.missing THEN ended = {}
            ELSE charge.price \in made \cup ended \cup curated

\* Tags route requests to tiers: a model that the directory or the classifier tags as free
\* is not charged, and one they tag for tools has not said that it has none.
TagsAreTrue ==
    row # None =>
        LET added == row.model.tags \ row.of.tags
        IN  /\ "free" \in added => row.model.mode = "free" \/ row.of.free = TRUE
            /\ "tool-calling" \in added => row.model.tools # FALSE
===================================================================================
