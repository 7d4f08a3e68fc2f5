----------------------------- MODULE ModelRegistry -----------------------------
(***************************************************************************)
(* The rows of one discovered provider: who writes providers, models and   *)
(* model_children, statement by statement.  Writers are                    *)
(*   - the Ploinky reconciliation pass (reconcile-agents.mjs), started by  *)
(*     an interval that has no running latch, so passes overlap;           *)
(*   - the provider catalogue refresh (provider-catalog-refresh.mjs) and   *)
(*     the operator's sync request, which share syncProviderModels;        *)
(*   - the operator's handlers for models, providers and tiers.            *)
(* Every database statement is one step: the facade serialises statements, *)
(* nothing serialises the handlers.  Row ids stand for the UUIDs.  Tier is *)
(* the tier of the one predefined tag, which the agent's catalogue gives   *)
(* to some of its models and may take from them again.                     *)
(***************************************************************************)
EXTENDS Naturals, FiniteSets, FiniteSetsExt

CONSTANTS
    Workers,    \* background passes that may run at the same time
    Kinds,      \* which of "reconcile", "refresh" and "sync" they run
    Models,     \* model keys the agent's /v1/models may list
    Fallback,   \* key of the fallback model <repo>/<agent>/default
    Tier,       \* key of the tier of the models' tag
    NoRow,      \* null
    IsDefault,  \* whether LLM_DEFAULT_AGENT names this agent
    MayFail,    \* whether the agent's /v1/models can fail
    MaxRuns     \* bound on passes and operator requests together

ASSUME KindsAssumption == Kinds \subseteq {"reconcile", "refresh", "sync"}
ASSUME KeysAssumption == Fallback \notin Models /\ Tier \notin Models \cup {Fallback}
ASSUME SizeAssumption == IsFiniteSet(Workers) /\ IsFiniteSet(Models) /\ MaxRuns \in Nat

VARIABLES
    provider,   \* the agent's providers row: [id, enabled] or NoRow
    rows,       \* models table by key
    children,   \* model_children: [parent, child, priority]
    worker,     \* per worker: the pass it is running and what it has read
    operator,   \* the management request being handled
    left,       \* passes and requests left
    held,       \* history: ids of rows the operator disabled and not enabled since
    unserved,   \* history: a row changed after the last snapshot refresh
    lost,       \* history: an error ended a pass or request while rows were unserved
    pending     \* a refresh was requested without being awaited

tables == <<provider, rows, children>>
vars   == <<provider, rows, children, worker, operator, left, held,
            unserved, lost, pending>>

Keys == Models \cup {Fallback, Tier}

\* A row of models: its id, the provider it belongs to, discovery_source and enabled,
\* whether its tags hold Tier's, and what its metadata says: that a sync disabled it,
\* that it is the fallback row, that it is a tier which a pass made.
Id  == [key : Keys \cup {NoRow}, n : Nat]
Row == [id : Id, provider : Id, source : {"manual", "synced"}, enabled : BOOLEAN,
        tagged : BOOLEAN, marker : BOOLEAN, fallback : BOOLEAN, auto : BOOLEAN]

ASSUME NoRowAssumption == NoRow \notin Row

(* ------------------------------ the tables ------------------------------ *)

Present == {k \in Keys : rows[k] # NoRow}
IdsOf(r) == {r[k].id : k \in {x \in Keys : r[x] # NoRow}}
KeyOf(id) == id.key

\* A stored or remembered row the operator created by hand.
IsManual(row) == row # NoRow /\ row.source = "manual"

\* A row id is the UUID of the n-th row stored under a key that anyone still knows: a
\* fresh one differs from every row's and from those some reader holds.
IdsRead(s) == {s.known[m].id : m \in {x \in Models : s.known[x] # NoRow}}
              \cup s.mine \cup s.gone \cup s.stale \cup {s.tierId, s.default}
              \cup {c.child : c \in s.kids}
              \cup (IF s.found = NoRow THEN {} ELSE {s.found.id})
FreshId(k) ==
    LET used == IdsOf(rows) \cup operator.ids
                \cup UNION {IdsRead(worker[w]) : w \in Workers}
        free == {n \in 1..(Cardinality(used) + 1) : [key |-> k, n |-> n] \notin used}
    IN  [key |-> k, n |-> CHOOSE n \in free : TRUE]

NewModel(k, prov, source) ==
    [id |-> FreshId(k), provider |-> prov, source |-> source, enabled |-> TRUE,
     tagged |-> FALSE, marker |-> FALSE, fallback |-> FALSE, auto |-> FALSE]

ChildrenWithout(ids) == {c \in children : c.parent \notin ids /\ c.child \notin ids}

\* Every statement that changes a row makes the installed snapshot out of date.
Store(r, c, p) ==
    /\ rows' = r
    /\ children' = c
    /\ provider' = p
    /\ unserved' = (unserved \/ <<p, r, c>> # tables)
    /\ held' = held \cap IdsOf(r)
StoreRow(k, row) == Store([rows EXCEPT ![k] = row], children, provider)
DeleteRows(ks) == Store([k \in Keys |-> IF k \in ks THEN NoRow ELSE rows[k]],
                        ChildrenWithout({rows[k].id : k \in ks}), provider)

\* FOREIGN KEY of models.provider_id; OtherProvider is one the operator made.
ProviderId(n) == [key |-> NoRow, n |-> n]
OtherProvider == ProviderId(0)
ProviderExists(prov) == prov = OtherProvider \/ (provider # NoRow /\ provider.id = prov)

\* UNIQUE (parent, child), UNIQUE (parent, priority) and the two FOREIGN KEYs.
CanInsertChild(parent, child, priority) ==
    /\ {parent, child} \subseteq IdsOf(rows)
    /\ \A c \in children : c.parent = parent => c.child # child /\ c.priority # priority

\* Mutant: the sync enables whatever the catalogue lists.
SyncedUpdateAlways(row, tagged) ==
    [row EXCEPT !.enabled = TRUE, !.tagged = tagged, !.marker = FALSE,
                !.fallback = FALSE, !.source = "synced"]
\* updateProviderSyncedModel: only a row the sync itself disabled comes back.
SyncedUpdate(row, tagged) ==
    [row EXCEPT !.enabled = @ \/ row.marker, !.tagged = tagged, !.marker = FALSE,
                !.fallback = FALSE, !.source = "synced"]
\* disableMissingProviderSyncedModel, on an enabled row that is not manual.
DisabledBySync(row) == [row EXCEPT !.enabled = FALSE, !.marker = TRUE]
\* enable and disable drop the marker.
Enabled(row)  == [row EXCEPT !.enabled = TRUE, !.marker = FALSE]
Disabled(row) == [row EXCEPT !.enabled = FALSE, !.marker = FALSE]

(* ------------------------------- workers -------------------------------- *)

Nothing == [m \in Models |-> NoRow]
Idle == [kind |-> "idle", pc |-> "idle", hadRows |-> FALSE, prov |-> NoRow,
         disc |-> {}, tags |-> {}, todo |-> {}, known |-> Nothing, mine |-> {},
         gone |-> {}, tierId |-> NoRow, default |-> NoRow, kids |-> {}, found |-> NoRow,
         wrote |-> FALSE, changed |-> FALSE, stale |-> {}]

At(w, pc) == worker[w].pc = pc
Settled == lost' = (lost /\ unserved)
Failed == lost' = unserved

Continues(w, s) ==
    /\ worker' = [worker EXCEPT ![w] = s]
    /\ left' = IF worker[w] = Idle THEN left - 1 ELSE left
    /\ UNCHANGED operator
Move(w, s) == Continues(w, s) /\ Settled
Throw(w, s) == Continues(w, s) /\ Failed
MoveTo(w, pc) == Move(w, [worker[w] EXCEPT !.pc = pc])
Reads == UNCHANGED <<tables, held, unserved, pending>>
Same == UNCHANGED <<tables, held, unserved>>

\* What a worker remembers of a sync is dropped when the sync returns or throws.
AfterSync(w, next) ==
    [Idle EXCEPT !.kind = worker[w].kind, !.pc = next, !.prov = worker[w].prov,
                 !.changed = worker[w].changed \/ worker[w].wrote]
\* reconcile catches a failed sync and stores the fallback model; the refresh counts
\* a failure and the operator's sync answers 500.
SyncThrows(w) ==
    IF worker[w].kind = "reconcile"
    THEN Throw(w, [AfterSync(w, "fallbackFind") EXCEPT !.changed = worker[w].changed])
    ELSE Throw(w, Idle)
\* An error outside that catch ends the pass: runPloinkyReconcileOnce only logs it.
PassThrows(w) == Throw(w, Idle)

(* ----------------- the reconciliation pass up to discovery -------------- *)

\* discoverPloinkyAgents lists the agent, or not: only a complete listing without it
\* makes its rows stale, a failed or partial one leaves the pass nothing to do.
StartReconcile(w) ==
    /\ At(w, "idle") /\ left > 0 /\ "reconcile" \in Kinds
    /\ \E pc \in {"providerFind", "staleList", "finish"} :
        Move(w, [Idle EXCEPT !.kind = "reconcile", !.pc = pc])
    /\ Reads

FindProvider(w) ==
    /\ At(w, "providerFind")
    /\ Move(w, [worker[w] EXCEPT !.pc = "providerWrite", !.found = provider])
    /\ Reads

\* upsertProvider writes by the id it read: create when there was none, re-enable when
\* it was disabled; a row deleted in between keeps its stale id in the pass.
WriteProvider(w) ==
    /\ At(w, "providerWrite")
    /\ LET found == worker[w].found
           next(id, wrote) == [worker[w] EXCEPT !.pc = "discover", !.prov = id,
                                   !.found = NoRow, !.changed = @ \/ wrote]
       IN  \/ /\ found = NoRow /\ provider # NoRow
              /\ PassThrows(w) /\ Same
           \/ /\ found = NoRow /\ provider = NoRow
              /\ LET id == ProviderId(1 + MaxRuns - left) IN
                    /\ Store(rows, children, [id |-> id, enabled |-> TRUE])
                    /\ Move(w, next(id, TRUE))
           \/ /\ found # NoRow
              /\ Store(rows, children,
                       IF provider # NoRow /\ provider.id = found.id
                       THEN [provider EXCEPT !.enabled = @ \/ ~found.enabled]
                       ELSE provider)
              /\ Move(w, next(found.id, ~found.enabled))
    /\ UNCHANGED pending

(* --------------------- the other users of the sync ---------------------- *)

StartRefresh(w) ==
    /\ At(w, "idle") /\ left > 0 /\ "refresh" \in Kinds
    /\ provider # NoRow /\ provider.enabled
    /\ Move(w, [Idle EXCEPT !.kind = "refresh", !.pc = "peek", !.prov = provider.id])
    /\ Reads

\* The refresh lists the rows beside the discovery: an empty catalogue is skipped
\* when rows existed.
PeekRows(w) ==
    /\ At(w, "peek")
    /\ Move(w, [worker[w] EXCEPT !.pc = "discover",
                    !.hadRows = \E k \in Present :
                        rows[k].provider = worker[w].prov /\ ~IsManual(rows[k])])
    /\ Reads

StartSync(w) ==
    /\ At(w, "idle") /\ left > 0 /\ "sync" \in Kinds
    /\ provider # NoRow
    /\ Move(w, [Idle EXCEPT !.kind = "sync", !.pc = "discover", !.prov = provider.id])
    /\ Reads

(* ------------------------- syncProviderModels --------------------------- *)

Discover(w) ==
    /\ At(w, "discover")
    /\ \/ MayFail /\ SyncThrows(w)
       \/ \E offers \in SUBSET Models : \E tags \in SUBSET offers :
            IF worker[w].kind = "refresh" /\ offers = {} /\ worker[w].hadRows
            THEN Move(w, Idle)
            ELSE Move(w, [worker[w] EXCEPT !.pc = "list", !.hadRows = FALSE, !.tags = tags,
                                           !.disc = offers, !.todo = offers])
    /\ Reads

ListRows(w) ==
    /\ At(w, "list")
    /\ Move(w, [worker[w] EXCEPT !.pc = "sync",
                    !.known = [m \in Models |->
                        IF rows[m] # NoRow /\ rows[m].provider = worker[w].prov
                        THEN rows[m] ELSE NoRow]])
    /\ Reads

\* The worker after it wrote model m: an enabled row joins the models to append to the
\* tier when it has the tag, and those to take out when the row as read had it.
Wrote(w, m, row, hadTag) ==
    [worker[w] EXCEPT !.todo = @ \ {m}, !.found = NoRow, !.wrote = TRUE, !.pc = "sync",
        !.mine = @ \cup {id \in {row.id} : row.enabled /\ row.tagged},
        !.gone = @ \cup {id \in {row.id} : row.enabled /\ hadTag /\ ~row.tagged}]
\* Manual rows and rows deleted since they were read are left out of the table.
Kept(w, m) == [worker[w] EXCEPT !.todo = @ \ {m}, !.found = NoRow, !.pc = "sync"]

\* Only Ploinky providers re-append models that already existed, each as it was written,
\* or as it was read when the statement found no row.
UpdateById(w, m, known) ==
    IF rows[m] # NoRow /\ rows[m].id = known.id /\ ~IsManual(rows[m])
    THEN LET row == SyncedUpdate(rows[m], m \in worker[w].tags) IN
         StoreRow(m, row) /\ Move(w, Wrote(w, m, row, known.tagged))
    ELSE Move(w, Wrote(w, m, known, known.tagged)) /\ Same

CreateModel(w, m) ==
    /\ At(w, "sync") /\ m \in worker[w].todo /\ worker[w].known[m] = NoRow
    /\ \/ /\ rows[m] = NoRow /\ ProviderExists(worker[w].prov)
          /\ LET row == [NewModel(m, worker[w].prov, "synced")
                           EXCEPT !.tagged = m \in worker[w].tags] IN
                StoreRow(m, row) /\ Move(w, Wrote(w, m, row, FALSE))
       \/ rows[m] = NoRow /\ ~ProviderExists(worker[w].prov) /\ SyncThrows(w) /\ Same
       \/ /\ rows[m] # NoRow
          /\ Move(w, [worker[w] EXCEPT !.pc = "raced", !.todo = {m} \cup @,
                                       !.found = [id |-> [key |-> m, n |-> 0]]])
          /\ Same
    /\ UNCHANGED pending

\* UNIQUE(model_key): look the row up again; another provider's row is an error.
FindRaced(w, m) ==
    /\ At(w, "raced") /\ worker[w].found.id.key = m
    /\ IF rows[m] = NoRow \/ rows[m].provider # worker[w].prov
       THEN SyncThrows(w)
       ELSE IF IsManual(rows[m])
            THEN Move(w, Kept(w, m))
            ELSE Move(w, [worker[w] EXCEPT !.pc = "sync", !.found = NoRow,
                                           !.known = [worker[w].known EXCEPT ![m] = rows[m]]])
    /\ Reads

UpdateModel(w, m) ==
    /\ At(w, "sync") /\ m \in worker[w].todo /\ worker[w].known[m] # NoRow
    /\ IF IsManual(worker[w].known[m])
       THEN Move(w, Kept(w, m)) /\ Same
       ELSE UpdateById(w, m, worker[w].known[m])
    /\ UNCHANGED pending

Missing(w) == {m \in Models \ worker[w].disc :
                  /\ worker[w].known[m] # NoRow
                  /\ ~IsManual(worker[w].known[m]) /\ worker[w].known[m].enabled}

DisableMissing(w, m) ==
    /\ At(w, "sync") /\ worker[w].todo = {} /\ m \in Missing(w)
    /\ LET hit == /\ rows[m] # NoRow /\ rows[m].id = worker[w].known[m].id
                  /\ rows[m].enabled /\ ~IsManual(rows[m])
       IN  /\ IF hit THEN StoreRow(m, DisabledBySync(rows[m])) ELSE Same
           /\ Move(w, [worker[w] EXCEPT !.known = [worker[w].known EXCEPT ![m] = NoRow],
                                        !.wrote = @ \/ hit])
    /\ UNCHANGED pending

(* --------------------- appendNewModelsToTagTiers ------------------------ *)

\* Mutant: models that lost the tag are taken out of whosever tier it is.
AnyTier(tier) == TRUE
\* isAutoTagTier.
AutoTier(tier) == tier.auto

\* findDefaultAgentModel: the first enabled row of LLM_DEFAULT_AGENT, by display name.
DefaultModels ==
    IF IsDefault
    THEN {rows[k].id : k \in {x \in Present \ {Tier} : ~IsManual(rows[x]) /\ rows[x].enabled}}
    ELSE {}

\* One listing of models gives the tier and the default model.
FindTier(w) ==
    /\ At(w, "sync") /\ worker[w].todo = {} /\ Missing(w) = {}
    /\ \E default \in IF DefaultModels = {} THEN {NoRow} ELSE DefaultModels :
        LET tier == rows[Tier]
            gone == IF tier # NoRow /\ AutoTier(tier) THEN worker[w].gone ELSE {}
            s == [worker[w] EXCEPT !.known = Nothing, !.tags = {}, !.gone = gone]
        IN  Move(w, IF s.mine \cup gone = {} THEN [s EXCEPT !.pc = "syncRefresh"]
                    ELSE IF tier = NoRow THEN [s EXCEPT !.pc = "tierCreate", !.default = default]
                    ELSE [s EXCEPT !.pc = "children", !.tierId = tier.id, !.default = default])
    /\ Reads

CreateTier(w) ==
    /\ At(w, "tierCreate")
    /\ IF rows[Tier] # NoRow
       THEN SyncThrows(w) /\ Same
       ELSE LET row == [NewModel(Tier, OtherProvider, "manual") EXCEPT !.auto = TRUE] IN
            /\ StoreRow(Tier, row)
            /\ Move(w, [worker[w] EXCEPT !.pc = "children", !.tierId = row.id])
    /\ UNCHANGED pending

ChildIds(kids) == {c.child : c \in kids}

\* The children are read once; the pass keeps its copy up to date with its own writes.
ListChildren(w) ==
    /\ At(w, "children")
    /\ LET kids == {c \in children : c.parent = worker[w].tierId} IN
       Move(w, [worker[w] EXCEPT !.pc = "append", !.kids = kids,
                    !.mine = @ \ ChildIds(kids), !.gone = @ \cap ChildIds(kids)])
    /\ Reads

\* A model that lost the tag leaves the tier, one DELETE each.
RemoveChild(w) ==
    /\ At(w, "append")
    /\ \E id \in worker[w].gone :
        LET s == worker[w]
            link == {c \in children : c.parent = s.tierId /\ c.child = id}
            kids == IF link = {} THEN s.kids ELSE {c \in s.kids : c.child # id}
        IN  /\ Store(rows, children \ link, provider)
            /\ Move(w, [s EXCEPT !.gone = @ \ {id}, !.kids = kids])
    /\ UNCHANGED pending

\* isFallbackOnly, asked before the first insert: the tier as read holds the default
\* model and nothing else.
StandsIn(s) == ChildIds(s.kids) = {s.default}

\* Then the children are replaced, in one transaction.
ReplaceStandIn(w) ==
    /\ At(w, "append") /\ worker[w].gone = {} /\ worker[w].mine # {} /\ StandsIn(worker[w])
    /\ \E order \in [1..Cardinality(worker[w].mine) -> worker[w].mine] :
        LET s == worker[w]
            kids == {[parent |-> s.tierId, child |-> order[i], priority |-> i] : i \in DOMAIN order}
        IN  /\ ChildIds(kids) = s.mine
            /\ IF {s.tierId} \cup s.mine \subseteq IdsOf(rows)
               THEN /\ Store(rows, {c \in children : c.parent # s.tierId} \cup kids, provider)
                    /\ Move(w, [s EXCEPT !.mine = {}])
               ELSE SyncThrows(w) /\ Same
    /\ UNCHANGED pending

\* Otherwise priorities continue from the highest one read, one insert per model.
AppendChild(w) ==
    /\ At(w, "append") /\ worker[w].gone = {} /\ ~StandsIn(worker[w])
    /\ \E id \in worker[w].mine :
        LET s == worker[w]
            priority == 1 + Max({c.priority : c \in s.kids} \cup {0})
            kid == [parent |-> s.tierId, child |-> id, priority |-> priority]
        IN  IF CanInsertChild(s.tierId, id, priority)
            THEN /\ Store(rows, children \cup {kid}, provider)
                 /\ Move(w, [s EXCEPT !.mine = @ \ {id}, !.kids = @ \cup {kid},
                                      !.default = NoRow])
            ELSE SyncThrows(w) /\ Same
    /\ UNCHANGED pending

Appended(w) ==
    /\ At(w, "append") /\ worker[w].mine \cup worker[w].gone = {}
    /\ MoveTo(w, "syncRefresh") /\ Reads

\* A sync that wrote something awaits the refresh; then each caller goes on.
SyncRefresh(w) ==
    /\ At(w, "syncRefresh")
    /\ unserved' = (unserved /\ ~worker[w].wrote)
    /\ Move(w, IF worker[w].kind # "reconcile" THEN Idle
               ELSE AfterSync(w, IF worker[w].disc # {} THEN "dropFind" ELSE "finish"))
    /\ UNCHANGED <<tables, held, pending>>

(* ---------------- the reconciliation pass after the sync ---------------- *)

\* deleteFallbackModelAfterSuccessfulSync: look up, then delete by id.
FindFallbackToDrop(w) ==
    /\ At(w, "dropFind")
    /\ Move(w, IF rows[Fallback] # NoRow /\ rows[Fallback].fallback
               THEN [worker[w] EXCEPT !.pc = "drop", !.found = rows[Fallback]]
               ELSE [worker[w] EXCEPT !.pc = "finish"])
    /\ Reads

DropFallback(w) ==
    /\ At(w, "drop")
    /\ LET hit == rows[Fallback] # NoRow /\ rows[Fallback].id = worker[w].found.id IN
       /\ IF hit THEN DeleteRows({Fallback}) ELSE Same
       /\ Move(w, [worker[w] EXCEPT !.pc = "finish", !.found = NoRow,
                                    !.changed = @ \/ hit])
    /\ UNCHANGED pending

\* upsertFallbackModel: look up, then create or update by id; its errors end the pass.
FindFallback(w) ==
    /\ At(w, "fallbackFind")
    /\ Move(w, [worker[w] EXCEPT !.pc = "fallbackWrite", !.found = rows[Fallback]])
    /\ Reads

WriteFallback(w) ==
    /\ At(w, "fallbackWrite")
    /\ LET found == worker[w].found
           done(wrote) == [worker[w] EXCEPT !.pc = "finish", !.found = NoRow,
                                            !.changed = @ \/ wrote]
           asFallback(row) == [row EXCEPT !.enabled = TRUE, !.fallback = TRUE, !.marker = FALSE,
                                          !.provider = worker[w].prov]
       IN  \/ /\ found = NoRow
              /\ IF rows[Fallback] # NoRow \/ ~ProviderExists(worker[w].prov)
                 THEN PassThrows(w) /\ Same
                 ELSE /\ StoreRow(Fallback, asFallback(NewModel(Fallback, worker[w].prov, "synced")))
                      /\ Move(w, done(TRUE))
           \/ /\ found # NoRow /\ found = asFallback(found)
              /\ Move(w, done(FALSE)) /\ Same
           \/ /\ found # NoRow /\ found # asFallback(found)
              /\ IF rows[Fallback] = NoRow \/ rows[Fallback].id # found.id
                 THEN Move(w, done(TRUE)) /\ Same
                 ELSE IF ~ProviderExists(worker[w].prov)
                 THEN PassThrows(w) /\ Same
                 ELSE StoreRow(Fallback, asFallback(rows[Fallback])) /\ Move(w, done(TRUE))
    /\ UNCHANGED pending

\* disableStaleRows, after a complete listing without the agent: models, then provider.
ListStaleModels(w) ==
    /\ At(w, "staleList")
    /\ Move(w, [worker[w] EXCEPT !.pc = "stale",
                    !.stale = {rows[k].id : k \in {x \in Present \ {Tier} :
                                 ~IsManual(rows[x]) /\ rows[x].enabled}}])
    /\ Reads

\* Mutant: disabled models are not counted as a change.
DisableStaleModelUncounted(w) ==
    /\ At(w, "stale") /\ worker[w].stale # {}
    /\ \E id \in worker[w].stale :
        /\ IF id \in IdsOf(rows)
           THEN StoreRow(KeyOf(id), Disabled(rows[KeyOf(id)]))
           ELSE Same
        /\ Move(w, [worker[w] EXCEPT !.stale = @ \ {id}])
    /\ UNCHANGED pending

DisableStaleModel(w) ==
    /\ At(w, "stale") /\ worker[w].stale # {}
    /\ \E id \in worker[w].stale :
        /\ IF id \in IdsOf(rows)
           THEN StoreRow(KeyOf(id), Disabled(rows[KeyOf(id)]))
           ELSE Same
        /\ Move(w, [worker[w] EXCEPT !.stale = @ \ {id}, !.changed = TRUE])
    /\ UNCHANGED pending

ListStaleProviders(w) ==
    /\ At(w, "stale") /\ worker[w].stale = {}
    /\ Move(w, IF provider # NoRow /\ provider.enabled
               THEN [worker[w] EXCEPT !.pc = "staleProvider", !.found = provider]
               ELSE [worker[w] EXCEPT !.pc = "finish"])
    /\ Reads

DisableStaleProvider(w) ==
    /\ At(w, "staleProvider")
    /\ IF provider # NoRow /\ provider.id = worker[w].found.id
       THEN Store(rows, children, [provider EXCEPT !.enabled = FALSE])
       ELSE Same
    /\ Move(w, [worker[w] EXCEPT !.pc = "finish", !.found = NoRow, !.changed = TRUE])
    /\ UNCHANGED pending

FinishPass(w) ==
    /\ At(w, "finish")
    /\ unserved' = (unserved /\ ~worker[w].changed)
    /\ Move(w, Idle)
    /\ UNCHANGED <<tables, held, pending>>

(* ------------------------- the operator's requests ---------------------- *)

Resting == [pc |-> "idle", ids |-> {}, order |-> << >>]
Request == operator = Resting /\ left > 0 /\ left' = left - 1
           /\ Settled /\ UNCHANGED worker
Continue(pc) == operator.pc = pc /\ UNCHANGED <<left, worker>>
Respond == operator' = Resting
RefreshRequested == pending' = TRUE

\* handleCreateModel: one INSERT; a taken key answers 500.
CreateManualModel(m) ==
    /\ Request /\ rows[m] = NoRow
    /\ \E prov \in {OtherProvider} \cup (IF provider = NoRow THEN {} ELSE {provider.id}) :
        StoreRow(m, NewModel(m, prov, "manual"))
    /\ Respond /\ RefreshRequested

\* handleEnableModel, handleDisableModel and a PATCH that carries `enabled`; the tier
\* handlers do the same to a tier's row.
EnableRow(k) ==
    /\ Request /\ rows[k] # NoRow
    /\ rows' = [rows EXCEPT ![k] = Enabled(@)]
    /\ unserved' = (unserved \/ rows' # rows)
    /\ held' = held \ {rows[k].id}
    /\ UNCHANGED <<provider, children>>
    /\ Respond /\ RefreshRequested

DisableRow(k) ==
    /\ Request /\ rows[k] # NoRow
    /\ rows' = [rows EXCEPT ![k] = Disabled(@)]
    /\ unserved' = (unserved \/ rows' # rows)
    /\ held' = held \cup {rows[k].id}
    /\ UNCHANGED <<provider, children>>
    /\ Respond /\ RefreshRequested

\* handleUpdateModel with `tags`, until a pass writes the catalogue's over them; no pass
\* reads the tags of a row the operator made.
EditTags(m) ==
    /\ Request /\ rows[m] # NoRow /\ ~IsManual(rows[m])
    /\ StoreRow(m, [rows[m] EXCEPT !.tagged = ~@])
    /\ Respond /\ RefreshRequested

\* handleDeleteModel and handleDeleteTier; model_children goes with the row.
DeleteRow(k) ==
    /\ Request /\ rows[k] # NoRow
    /\ DeleteRows({k})
    /\ Respond /\ RefreshRequested

\* handleUpdateProvider with `enabled`.
SetProviderEnabled ==
    /\ Request /\ provider # NoRow
    /\ \E on \in BOOLEAN : Store(rows, children, [provider EXCEPT !.enabled = on])
    /\ Respond /\ RefreshRequested

\* handleDeleteProvider lists, deletes the models, deletes the provider: three statements.
ListForDelete ==
    /\ Request /\ provider # NoRow
    /\ ~\E k \in Present : rows[k].provider = provider.id /\ IsManual(rows[k])
    /\ operator' = [Resting EXCEPT !.pc = "deleteModels", !.ids = {provider.id}]
    /\ Same /\ UNCHANGED pending

DeleteModels ==
    /\ Continue("deleteModels")
    /\ DeleteRows({k \in Present : rows[k].provider \in operator.ids})
    /\ operator' = [operator EXCEPT !.pc = "deleteProvider"]
    /\ Settled /\ UNCHANGED pending

\* ON DELETE RESTRICT: a model stored in between makes the last statement fail.
DeleteProvider ==
    /\ Continue("deleteProvider")
    /\ IF \E k \in Present : rows[k].provider \in operator.ids
       THEN Same /\ Failed /\ UNCHANGED pending
       ELSE Store(rows, children, NoRow) /\ Settled /\ RefreshRequested
    /\ Respond

\* handleCreateTier and handleUpdateTier validate each child by id before they write.
DirectIds == {rows[k].id : k \in Present \ {Tier}}
SubmitTier ==
    /\ Request
    /\ \E ids \in SUBSET DirectIds : \E order \in [1..Cardinality(ids) -> ids] :
        /\ {order[i] : i \in DOMAIN order} = ids
        /\ operator' = [ids |-> ids \cup IdsOf([k \in Keys |-> IF k = Tier THEN rows[k] ELSE NoRow]),
                        order |-> order,
                        pc |-> IF rows[Tier] = NoRow THEN "tierInsert" ELSE "tierChildren"]
    /\ Same /\ UNCHANGED pending

InsertTier ==
    /\ Continue("tierInsert")
    /\ IF rows[Tier] # NoRow
       THEN Same /\ Respond
       ELSE LET row == NewModel(Tier, OtherProvider, "manual") IN
            /\ StoreRow(Tier, row)
            /\ operator' = [operator EXCEPT !.pc = "tierChildren", !.ids = @ \cup {row.id}]
    /\ Settled /\ UNCHANGED pending

\* replaceChildren is one transaction: a child deleted since the validation rolls it back.
ReplaceChildren ==
    /\ Continue("tierChildren")
    /\ IF {operator.order[i] : i \in DOMAIN operator.order} \subseteq IdsOf(rows)
       THEN /\ Store(rows,
                     {c \in children : c.parent # rows[Tier].id}
                       \cup {[parent |-> rows[Tier].id, child |-> operator.order[i], priority |-> i]
                               : i \in DOMAIN operator.order},
                     provider)
            /\ Settled /\ RefreshRequested
       ELSE Same /\ Failed /\ UNCHANGED pending
    /\ Respond

\* The refresh that a handler requested or awaits (snapshot loading: RuntimeSnapshot).
RuntimeRefresh ==
    /\ pending
    /\ pending' = FALSE /\ unserved' = FALSE /\ lost' = FALSE
    /\ UNCHANGED <<tables, worker, operator, left, held>>

\* A new database, or one whose passes stored the agent's catalogue before this start.
InitialTables ==
    LET id(k) == [key |-> k, n |-> 1]
        row(k, prov, source) == [id |-> id(k), provider |-> prov, source |-> source,
                                 enabled |-> TRUE, tagged |-> k \in Models, marker |-> FALSE,
                                 fallback |-> FALSE, auto |-> k = Tier]
    IN  \/ provider = NoRow /\ rows = [k \in Keys |-> NoRow] /\ children = {}
        \/ /\ provider = [id |-> ProviderId(0 + 1), enabled |-> TRUE]
           /\ rows = [k \in Keys |-> IF k = Fallback THEN NoRow
                                    ELSE IF k = Tier THEN row(k, OtherProvider, "manual")
                                    ELSE row(k, provider.id, "synced")]
           /\ children = {[parent |-> id(Tier), child |-> id(m), priority |-> 1]
                             : m \in Models \cap {CHOOSE x \in Models : TRUE}}

Init ==
    /\ InitialTables
    /\ worker = [w \in Workers |-> Idle]
    /\ operator = Resting /\ left = MaxRuns
    /\ held = {} /\ unserved = FALSE /\ lost = FALSE /\ pending = FALSE

Start(w) == StartReconcile(w) \/ StartRefresh(w) \/ StartSync(w)

SyncStep(w) ==
    \/ Discover(w) \/ ListRows(w)
    \/ \E m \in Models : CreateModel(w, m) \/ FindRaced(w, m) \/ UpdateModel(w, m)
                           \/ DisableMissing(w, m)
    \/ FindTier(w) \/ CreateTier(w) \/ ListChildren(w) \/ RemoveChild(w)
    \/ ReplaceStandIn(w) \/ AppendChild(w) \/ Appended(w) \/ SyncRefresh(w)

Step(w) ==
    \/ FindProvider(w) \/ WriteProvider(w) \/ PeekRows(w)
    \/ SyncStep(w)
    \/ FindFallbackToDrop(w) \/ DropFallback(w) \/ FindFallback(w) \/ WriteFallback(w)
    \/ ListStaleModels(w) \/ DisableStaleModel(w)
    \/ ListStaleProviders(w) \/ DisableStaleProvider(w) \/ FinishPass(w)

Handler == DeleteModels \/ DeleteProvider \/ InsertTier \/ ReplaceChildren

Operate ==
    \/ \E m \in Models : CreateManualModel(m) \/ EditTags(m)
    \/ \E k \in Keys : EnableRow(k) \/ DisableRow(k) \/ DeleteRow(k)
    \/ SetProviderEnabled \/ ListForDelete \/ SubmitTier

\* The bound on passes and requests: nothing is left to start.
BoundReached == left = 0 /\ operator = Resting /\ ~pending
                /\ (\A w \in Workers : At(w, "idle")) /\ UNCHANGED vars

Next ==
    \/ \E w \in Workers : Start(w) \/ Step(w)
    \/ Operate \/ Handler \/ RuntimeRefresh \/ BoundReached

\* The timers keep firing, and a pass or handler that started runs to its end.
Fairness ==
    /\ \A w \in Workers : WF_vars(Start(w)) /\ WF_vars(Step(w))
    /\ WF_vars(Handler) /\ WF_vars(RuntimeRefresh)

Spec == Init /\ [][Next]_vars /\ Fairness

(* ------------------------------ properties ------------------------------ *)

\* What the operator switched off stays off, whatever passes were reading at the time,
\* until the operator switches it on again (the fallback row is the pass's own).
OperatorDisableHolds ==
    \A k \in Present \ {Fallback} : rows[k].id \in held => ~rows[k].enabled

PassSteps(w) == worker'[w] # worker[w] /\ operator' = operator

\* Passes keep the operator's work, however old what they had read is: no step of one
\* changes a row the operator made, deletes or replaces a row other than the fallback's,
\* or takes a model out of a tier or to another place in its order, with two exceptions.
\* A discovered model that lost the tag leaves a tier which a pass had made, and a tier
\* which the pass had read with the default agent's model alone is filled anew.
PassesKeepOperatorsWork ==
    [][\A w \in Workers : PassSteps(w) =>
        /\ \A k \in Present \ {Fallback} :
              /\ rows'[k] # NoRow /\ rows'[k].id = rows[k].id
              /\ IsManual(rows[k]) => rows'[k] = rows[k]
        /\ \A c \in children \ children' :
              \/ c.child.key = Fallback \/ StandsIn(worker[w])
              \/ rows[Tier].auto /\ ~IsManual(rows[c.child.key])]_vars

\* Every stored change reaches the snapshot that routes requests, although passes
\* overlap and find their rows changed or gone, unless an error ended a pass or a request in between.
RowsReachSnapshot == unserved ~> (~unserved \/ lost)
===============================================================================
