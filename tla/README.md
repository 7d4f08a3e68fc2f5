# A verification model of Soul Gateway

The repository (`src/`) holds Soul Gateway, an OpenAI-compatible proxy in front of
model providers (`soul-gateway/`), two smaller agents (`searchAgent/`,
`default-local-llm/`) and their packaging. This directory keeps TLA+ models of the
parts of Soul Gateway and the search agent that are stateful, concurrent or intricate,
the TLC configurations that check them, and TLAPS proofs.

Soul Gateway is one Node.js process. Everything between two `await`s is atomic, so
the models' steps are the stretches of code between awaits: what makes this code hard
is what other requests, timers and handlers do during an await. The same holds of the
dashboard's page in a browser and of the search agent's browser pool.

## 1. Inventory

Paths are below `src/soul-gateway/src/` where nothing else is said.

### Request path

`runtime/route/run-route-request.mjs` composes, for each request, errorBoundary,
parseBody, authenticate, identity, bindSnapshot, normalizeIngress, auditLog, validate,
resolveModel, agentModelLoopGuard, resolveSession, respond, gatewayDispatch. The kernel
(`runtime/kernel/compose.mjs`) runs each middleware around the next one; the order of
the `finally` blocks is the order in which resources come back.

| Component | State | Operations | Modules |
| --- | --- | --- | --- |
| Concurrency controller (`runtime/execution/concurrency-controller.mjs`) | per model: limit, active count, FIFO of waiters with timers | configure, acquire, release, drain, queue timeout | SlotQueue, ConcurrencyController, SlotLimiter |
| Model execution (`runtime/execution/*`, `public-api/embeddings-route.mjs`) | per request: resolved children, attempt, tried models, slot, lease, pin, timer | direct chain, cascade, retry with backoff, credential lease, dispatch, finalize, embed | ModelExecution |
| Backend catalog (`runtime/backends/backend-catalog.mjs`, `backend-loader.mjs`) | generations of modules, in-flight counts, old generations | load, registerModule, acquire/release generation, shutdownAll | BackendCatalog |
| Backends (`runtime/backends/builtin/*`, `runtime/backends/achilles/*`) | the generator of a stream | parse a body into canonical events, discover models, classify errors | ProviderStream, ModelPricing |
| Middleware catalog (`runtime/middleware/middleware-catalog.mjs`) | definitions, factories, previous generation, grace timers, rows of the table | rescan, register, resolve a policy chain | MiddlewareCatalog |
| Policies (`runtime/middleware/builtin/*`, `runtime/policy/*`) | rate windows, spend cache, response cache, loop fingerprints, pricing directory | check, record, replay, price | RequestPolicies, ModelPricing |
| Authentication (`runtime/security/*`, `runtime/route/authenticate.mjs`) | key rows | verify, provision on first use, revoke, edit | RequestPolicies |
| Sessions (`request/session.mjs`, `runtime/route/resolve-session.mjs`) | session rows and counters | find, create, touch | RequestPolicies |
| Snapshot (`runtime/registry/*`, `runtime/route/bind-snapshot.mjs`) | the installed snapshot, one running refresh and one queued | requestRefresh, load (six SELECTs), validate, install, pin | RuntimeSnapshot |
| Database (`db/sqlite-db.mjs`, `db/dao/*`) | SQLite rows, a promise chain that serialises statements and transactions | query, withClient transactions | RuntimeSnapshot; statements in the others |
| Responses (`runtime/route/respond.mjs`, `error-boundary.mjs`, `audit-log.mjs`) | the response object, the provider's stream, the audit row | dispatch, read an event, write a frame, wait for drain, close, audit, report the error | ResponseStream |
| Converters (`request/*`, `runtime/route/canonical-stream-to-sse.mjs`, `runtime/execution/stream-collector.mjs`) | what a writer, collector or capture has put together | frames, buffered answers, tools and tool calls there and back | ProviderStream |
| Provider accounts (`runtime/providers/*`) | account rows, credential files, in-flight refreshes, authorization flows | lease, release, refresh, authorize, delete, reset | OAuthAccounts |

### Around it

| Component | State | Operations | Modules |
| --- | --- | --- | --- |
| Management API (`management/*`) | none of its own | handlers that change rows, then ask for a snapshot refresh, mostly without awaiting it | RuntimeSnapshot, ModelRegistry, RequestPolicies, AdminPages |
| Background jobs (`background/scheduler.mjs`) | a running latch for each job | cooldown cleanup, partitions, token refresh, quota sweep, spend cleanup, catalog refresh | OAuthAccounts, ModelRegistry, RequestPolicies |
| Ploinky discovery (`ploinky/*`) | agent rows, a timer without latch | discover, reconcile | ModelRegistry |
| Tier seeding, model sync (`bootstrap/*tiers.mjs`, `runtime/providers/auto-provisioner.mjs`, `provider-catalog-refresh.mjs`) | model and tier rows | reconcile rows with what a provider or a seed says | ModelRegistry, ModelPricing |
| Observability (`observability/*`, `management/log*`) | audit rows, subscribers, captured responses | write, publish, query, capture | LogFeed, ResponseStream |
| Dashboard (`dashboard/js/*`) | the state of its pages | load, merge, edit, compose | LogFeed, AdminPages, Dashboard |
| Search agent (`src/searchAgent/`) | browser slots, settings file, settings page | checkout, search, hand on, save | BrowserPool, SearchAgent |
| Shutdown (`shutdown.mjs`) | a draining flag | stop timers, close the server, shut catalogs down, close the database | BackendCatalog (shutdownAll) |
| default-local-llm, deploy, workflows | – | packaging and deployment | none |

### What is hard, and what must hold

1. *Concurrency limits.* Requests carry different limits for the same model (each its
   own snapshot's), waiters time out while being served, and retries and cascades hold
   and return slots in nested `finally` blocks. The count must be exact, no slot may
   idle while somebody waits, nobody may be overtaken, and every request must settle.
2. *Hot reload.* Backends and middlewares are reloaded under running requests. A
   generation in use must live, one no longer used must go, and what the previous
   generation provided must not be missing.
3. *Snapshots.* Configuration is read in several statements while handlers and
   transactions change it. A snapshot must be the state of one instant, and every
   change must reach requests in the end.
4. *Streams.* Client, provider and handler each may end a stream at any moment, and
   the bytes come in any cutting. Nothing may be lost or repeated, every reader of the
   canonical stream must understand the same answer, and the audit row must tell what
   happened.
5. *Accounts.* A refresh token can be used once, is kept in a file and a row that are
   written separately, and is refreshed by requests and a job. It must never be lost by
   the gateway's own interleavings.
6. *Policies.* Checks before and records after an await, keys that are provisioned while
   they are revoked, find-then-insert, caches that lag behind the rows they add up.
7. *Reconciliation.* Passes without a latch, a catalog refresh and an operator write the
   same rows from what each read some statements ago. What the operator decided must
   hold, and what is stored must be served.
8. *Prices.* A price goes from provider, directory and curated table through a stored
   record to a charge, found by names that may be ambiguous.
9. *The dashboard.* Answers overtake each other while the operator clicks on; a live feed
   with two transports and a timer must come back; edits are series of requests.
10. *The browser pool.* Launches, crashes, timeouts and hand-overs of a few slots.

PROJECT.json lists the hazards line by line, each with the properties that cover it or
the reason why none does.

## 2. Modules and the code they stand for

```
SlotQueue  <------- ConcurrencyController --- refines ---> SlotLimiter
    ^
    +-------------- ModelExecution
BackendCatalog   MiddlewareCatalog   RuntimeSnapshot   ResponseStream   OAuthAccounts
ModelRegistry    RequestPolicies
ProviderStream  <-- ModelPricing
LogFeed, AdminPages  <-- Dashboard
BrowserPool  <-- SearchAgent
ExecutionProofs    on SlotQueue, ConcurrencyController, ModelExecution
RuntimeProofs      on BackendCatalog, MiddlewareCatalog, RuntimeSnapshot
RequestPathProofs  on RequestPolicies, ResponseStream
ManagementProofs   on OAuthAccounts, Dashboard with its pages
ModelRegistryProofs
SearchAgentProofs  on SearchAgent with its BrowserPool
AnswerProofs       on ModelPricing with its ProviderStream
FoldTheorems       on folds of sequences, instantiated by AnswerProofs
```

**SlotQueue** has no state: it is the controller's per-model record `[max, active,
queue]` and what `configure`, `acquire`, `_drain`, the returned `release` and the timer
do to it (`Resized`, `Admitted`, `Enqueued`, `Drained`, `Returned`, `Spliced`). Both
modules that use the controller share it.

**ConcurrencyController** is one model's slots with any number of callers. `Enter` is
configure plus acquire, with the limit the caller brings; `Release` the release with its
drain; `ReleaseAgain` a second call of the same release function, which must do
nothing; `WaiterTimeout` the timer. Limits are positive: a limit of 0 falls through `||` to
the default in concurrency-middleware.

**SlotLimiter** is the abstract promise: an atomic limiter in which a caller waits,
holds or neither, and is granted a slot only if the number of holders is below the
limit in force. It knows no queue and no counter.

**ModelExecution** is a request's path through composeDirectModelChain and
modelExecutionMiddleware: `Arrive` (pins a snapshot), `EnterModel` (concurrency and
timeout middlewares), `BeginAttempt` (credential lease and generation pin),
`AttemptFails` (classification by retry-middleware and executeWithHttpRetry),
`BackoffEnds`, `AttemptSucceeds`, `ConsumeStream`/`StreamEnds` (lazy streams read by
respond) and `AfterFailure` (the cascade's decision). The embeddings route takes the same
slots by a loop of its own: it leases before its `try`, uses a backend without pinning
its generation, filters a tier's children by what each can embed and ignores cooldowns
(`EmbeddingBegins`, `EmbeddingLosesSlot`, `EmbeddingEnds`, `Eligible`). Both use SlotQueue for each model.

**BackendCatalog** is the catalog with its reload: `StartReload`, `Load` (the
synchronous swap), `Merge` and `ScanFails` (the extension scan that ends later),
`AcquireGeneration` and `ReleaseGeneration` (dispatch middleware), `ShutdownCurrent`
and `ShutdownOld` (the two phases of shutdownAll). The class keeps the current count and
entries in fields and moves them to `_oldGenerations`; the model indexes them by
generation number.

**MiddlewareCatalog** is rescan with its phases: the maps are emptied, refilled file by
file with awaits in between, rotated at the end or restored on failure; the grace timer
drops an old generation; requests resolve their chain at any moment.

**RuntimeSnapshot** composes the promise chain of `sqlite-db.mjs`, the handlers as
writers, the transaction of `replaceChildren`, cooldown rows, backend reloads, the
refresh with its running/queued latch, validation, installation, pinning, and a crash
that rolls an open transaction back and reloads at boot.

**ResponseStream** is respond with canonicalStreamToSse, Node's socket (buffer,
`drain`, `close`), the wrapper that releases the generation lease when a stream ends,
the audit row and the error boundary.

**OAuthAccounts** is one OAuth account: `PickAccount` to `ReleaseLease` is
getCredentials, `ListExpiring` the job, `StartRefresh` to `MarkErrored` is refreshTokens
with `_doRefresh` statement by statement, `GrantGiven` to `UpsertAccount` is
completeAuthFlow, `DeleteAccount` and `ResetQuota` are management handlers. The account
may be deleted and authorized again under a new row; all its rows share one credential
file because the path is made of provider and external id. The variables `latest`,
`lost` and `expired` are the world's: what the provider takes, which answers never
arrived, which tokens are near their expiry.

**ModelRegistry** is the tables `providers`, `models` and `model_children` as far as one
discovered agent is concerned, with everybody who writes them, a statement a step: the
discovery pass (`reconcile-agents.mjs`, its model sync, fallback row, stale rows and
tier entries), the catalog refresh and the operator's sync (`auto-provisioner.mjs`,
`provider-catalog-refresh.mjs`, `reconcile-tag-tiers.mjs`), and the handlers of models,
providers and tiers. A pass keeps what it read in its record, so that what it writes
later is stale where the code's variables are. `held`, `unserved` and `lost` are history: what the
operator disabled, whether a change awaits a refresh, and whether an error cut a pass or
request short before it asked for one.

**RequestPolicies** is one signed subject's requests, statement by statement: parsing and
verifying the token, first use of its key (`findByHash`, insert, conflict, read again),
the session middleware, then rate limiter, budget enforcer with its spend cache, loop
detector and response cache in their bound order, the model's answer as a stream or
whole, and the audit row that the next budget check adds up. The operator provisions,
edits, revokes and resets the key meanwhile; the clock ticks.

**ProviderStream** is an answer's way through the converters. `Receive` takes the next
chunk of the body into `parseSSE` of the agent backend, or an answer of a JSON body or
of an achilles bridge (with a final chunk that repeats the whole) into its generator;
every event yielded is fed at once to the writer of the client's format
(canonical-stream-to-sse), the collector behind buffered answers (stream-collector, with
format-serializers) and the capture behind the audit row. The Responses API's tools
are named for the provider by `Adapters` (normalizeResponsesTools), found again for its
calls and in the client's next turn. The loops of the code over lines, payloads, events and
tools are folds with one named step each (`ParseLine`, `Yield`, `CollectAll` with `Collect`,
`Adapters` with `AddAdapter`).

**ModelPricing** extends it by the price of that answer: `FetchSucceeds`, `FetchFails` and
`Age` are the pricing directory's refresh, `StartSync` and `Provision` what a provider's
listing becomes as a stored record (descriptor, envelope, directory, curated table,
classifier), `ChargeAnswer` the lookup and the calculation when the answer has ended.
`LookupModel` is the directory's lookup: by exact names in the order of the code, each by id,
slug and name; by an alias of an id; by the last part of an id. The record is made with four
names and two ids (`LongNames`, `LongIds`), the charge with two and one (`ShortNames`).
It shares the answer with ProviderStream, so the usage it charges is the usage the collector saw.

**LogFeed** is the log page: the writer that inserts and publishes rows, the hub and its
two transports, the browser's WebSocket with EventSource as fall-back and a reconnect
timer, and the page's loads, each sent, answered and taken up in three steps, in any
order. **AdminPages** is the pages that list a table and change it, the trees of
providers and models, and the composer of provider middlewares, whose requests the gateway serves or refuses
and whose bindings get ids that nobody still remembers, for the random UUIDs. **Dashboard** puts them
together. The pages share no state in the browser but read tables of their own, so a
behaviour is what happens on one page, chosen in the initial state: this loses nothing
and keeps the product of independent pages out of the state space.

**BrowserPool** is the pool's process: slots, the queue, checkout with launch and context,
timers, aborts, crashes, idle closing and `closeAll`. **SearchAgent** composes it with
the searches that use it, with `deep-research` over several providers, the settings
file's writers and the settings page. For the same reason as above a behaviour plays in
one `scene`: `pool` (searches through the browser), `search` (searches by API) or
`settings` (the page and the processes it starts); the settings file and the secrets are in
any state when a search starts.

Each MC module gives constants that a cfg cannot write down; the cfgs give the rest.
Definitions marked *Mutant* are slips the code could have had; no specification uses
them, they are there to see that a property notices.

## 3. Runs

| Run | States | Instance | Shows |
| --- | --- | --- | --- |
| `concurrency` | 428 | four callers, limits 1..3 brought in any order | `NoOvertaking`, `ImplementsLimiter` |
| `execution` | 95 k | two requests over two models, chats direct or cascading, buffered or streamed, and embeddings; retries, queue timeouts, backoff, two snapshots | `ResourceAccounting`, `NothingHeldWhileWaiting`, `ExhaustedMeansTried`, `RequestSettles` |
| `backends` | 106 k | two dispatches, two overlapping reloads, three generations, failing imports and scans, shutdown | `PinnedGenerationLives`, `UsedGenerationRetires` |
| `middleware` | 418 k | two overlapping rescans with failures, three modules, four maps | `PreviousCoversRescan` |
| `snapshot` | 148 k | two handlers, a transaction, cooldowns, a reload, a crash | `SnapshotIsOneInstant`, `ChangesReachRequests` |
| `streaming` | 52 k | two streams over six scripts, sockets of two frames | `AuditTellsOutcome`, `ConnectedClientIsServed` |
| `oauth` | 577 k | a request and the job, three tokens of a grant, a second authorization, a new row, a crash | `TokenNeverStranded`, `RefreshedLeaseIsNew`, `DeletedStaysDeleted`, `CredentialsArrive` |
| `provider_stream` | 132 k | every client format, four kinds of backend, five tool lists, six bodies, four tails; six listings, eight offers | `EventsAreTheAnswer`, `StreamEqualsBuffered`, `ResponsesFramesLegal`, `ToolCallsRoundTrip`, `AnswerCostsItsPrice`, `TagsAreTrue` |
| `registry` | 415 k | two workers, three passes or operator requests, one model, fallback and tier | `OperatorDisableHolds`, `PassesKeepOperatorsWork`, `RowsReachSnapshot` |
| `policies` | 1.9 M | three requests, five tokens, two edits, two ticks | `WholeAnswersReplayed`, `ExplicitSessionIsOne`, `RevokedStaysOut`, `RateHolds`, `BudgetLagBounded` |
| `dashboard` | 1.0 M | three log rows, three table rows, three bindings of two providers, two calls in flight | `RowsBelongToSelection`, `FeedComesBack`, `ListIsCurrent`, `TreesAccountForAll`, `ComposedIsStored` |
| `search_agent` | 271 k | one slot and three searches, three providers, two secrets | `SlotServesOne`, `SlotsComeBack`, `SavedIsReadable`, `SearchSettles` |

What the properties say, beyond their names:

* `NoOvertaking`, `ImplementsLimiter`: a waiter is not passed by one that came later, and
  the counter with its queue behaves as the atomic limiter under limits that flap between snapshots.
* `ResourceAccounting`: each model's counter is the number of requests that hold its slot, and
  its queue the requests that wait for it, once each. The slot an embedding loses (section 6) counts as held by it.
  `NothingHeldWhileWaiting`: no circle of requests that hold one model and wait for the other.
  `ExhaustedMeansTried`: "all models exhausted" is said only when each usable child was
  tried or given up for a reason. `RequestSettles`: every request gets an answer, an error
  or a stream to read, however its attempts fail, unless an embedding keeps its slot for ever.
* `PinnedGenerationLives`, `UsedGenerationRetires`: a reload does not take the modules of a
  running dispatch, and a replaced generation that was used is shut down in the end.
* `PreviousCoversRescan`: during an undisturbed first rescan every bound middleware of the old
  map is found, in the new map or in the previous generation.
* `SnapshotIsOneInstant`, `ChangesReachRequests`: six SELECTs between other writers' statements
  see one state of the database; a committed valid change is seen by later requests.
* `AuditTellsOutcome`, `ConnectedClientIsServed`: completed, failed and aborted streams are
  told apart whichever end came first; a client that stays and reads gets the end.
* `TokenNeverStranded`: the file holds a token the provider still takes, or one is on its way to
  it, unless a crash or a lost answer took it. `RefreshedLeaseIsNew`: who waited for a
  refresh leases a token at least that new. `DeletedStaysDeleted`, `CredentialsArrive`.
* `OperatorDisableHolds`: a model the operator disabled is not enabled by anybody else.
  `PassesKeepOperatorsWork`: no step of a pass rewrites a row made by hand, deletes or
  replaces a row other than the fallback's own, or takes another child out of a tier or to
  another place in it. `RowsReachSnapshot`: every stored change is served
  in the end, although passes overlap and their rows go.
* `RevokedStaysOut`: neither a first use, nor provisioning, nor an edit under way revives a
  revoked key, and nobody is authenticated by one. `RateHolds`: a window never holds
  more admissions than the limit its last was authenticated with. `BudgetLagBounded`: a request that
  passes the budget was below it one cache TTL ago. `WholeAnswersReplayed`,
  `ExplicitSessionIsOne`.
* `EventsAreTheAnswer`, `StreamEqualsBuffered`, `ResponsesFramesLegal`, `ToolCallsRoundTrip`:
  the parser yields what arrived; writer, collector and capture agree; Responses
  frames can be put together; a call the client sends back is the provider's own.
* `AnswerCostsItsPrice`, `TagsAreTrue`: a charge is the provider's own price, else that of the
  one directory entry its names can mean, else the curated one, and is missing only if
  there is none; tags that route to tiers do not contradict the record.
* `RowsBelongToSelection`, `FeedComesBack`, `ListIsCurrent`, `TreesAccountForAll`,
  `ComposedIsStored`: the pages show what they say, in the presence of answers in any order,
  lost connections and restarts.
* `SlotServesOne`, `SlotsComeBack`, `SearchSettles`, `SavedIsReadable`: the pool's slots,
  the end of every search, and the secrets behind "Saved.".

### Bounds, and why they are enough

* Two or three actors of a kind: the races are between one actor's await and one other
  actor; a third is there where order matters (the queue, a session, a rate window).
* Limits 1..3 with four callers include growing, shrinking below the active count and
  flapping between two snapshots. Three generations include current, old and older.
* Two attempts for each model and two children include retry, exhaustion, cascading and
  a second cascade step after a queue timeout. `MaxLost` bounds the slots embeddings may
  lose to one: with the second every model may be blocked for good, and nothing would be learnt.
* A socket of two frames and scripts of up to three events reach back-pressure before,
  between and after events.
* Three tokens of a grant allow two refreshes in a row, which a stale overwrite needs;
  a second grant and row allow a refresh of a deleted row to meet the new one.
* Three passes or operator requests over two workers, one model beside the fallback and the tier: a row
  may be stored, disabled or deleted, and stored again, while an older pass goes on. A
  second model would only be treated like the first.
* Two ticks of the clock with windows of one or two: windows and caches expire under
  requests in flight. The cache has one place, so that eviction happens.
* A payload is cut in three and a chunk has up to four pieces: chunks end within lines, at
  their ends and beyond the next line's head. Answers have up to three pieces of text and calls and four
  tails; tool lists collide in name, type, namespace and after sanitising.
* Listings of one or two models in both orders, with names that mean one, both or none;
  two fetches and two syncs, so that record and charge see different listings.
* Three rows of log for pages of two; three rows of tables, one to be added; three bindings
  with one to be created; two calls in flight (overtaking needs no more) and four clicks.
* One slot for three searches: one serves, one launches or waits, one waits behind. Several
  slots only add places that behave alike.
* `MaxGeneration`, `MaxMaps`, `MaxCommits`, `MaxReloads`, `MaxSerial`, `MaxCrashes`, `MaxRuns`,
  `MaxClock`, `MaxEdits`, `MaxCalls`, `MaxEvents`, `MaxDeaths`, `MaxWrites` and the like are guards of the
  actions that would grow the counters; at `MaxSerial` the provider refuses, which it may do
  at any time anyway.

`CHECK_DEADLOCK FALSE` stands in a cfg whose system stops by itself: responses sent, every
authorization used up, every click made, every search over.

## 4. Fairness

Fairness is weak and only on steps the runtime takes by itself: a promise that has
been resolved continues, a timer fires, a SQLite statement or a file operation ends, a
provider attempt ends (the timeout middleware bounds it; `fetch` rejects at last), a job
that is due runs again (`setInterval`), a stopped gateway is restarted (its container).
Nothing is assumed of operators, clients that read slowly or leave, crashes, lost
requests, or of the order in which promises resolve.

* `FairSpec` of BackendCatalog, ModelExecution and OAuthAccounts, `SnapshotFairSpec`,
  `StreamFairSpec`, `DashboardSpec`, and `Spec` of ModelRegistry and SearchAgent have it;
  ConcurrencyController, MiddlewareCatalog, RequestPolicies and ProviderStream are
  checked for safety only.
* `UsedGenerationRetires` assumes that dispatches and their streams end. This does not
  follow from the code when a client leaves during back-pressure: the writer then waits
  for a `drain` that never comes (section 6).
* An embedding has no timeout of its own, so its provider owes no answer, and `RequestSettles`
  assumes that no embedding keeps its slot for ever.
* `SearchSettles` asks fairness only of the searches and the pool together: that some
  step is taken while one can be.

## 5. Proofs

Eight modules have theorems for every value of the constants, checked by TLAPS. Each
component follows the same plan: an inductive invariant, one lemma for each action that
can disturb it, and the properties as its consequences. Some of the properties are proved only: the runs do not repeat them, since
the theorem covers the small instance too.
ExecutionProofs, RuntimeProofs, RequestPathProofs and ManagementProofs are about several
components each; FoldTheorems is about an operator.

**ExecutionProofs** begins with the lemmas on the controller's record: what each method returns
(`DrainFacts`, `ResizedFacts`, `EnqueuedFacts`, ...), and that it keeps `Agrees(C, st, W, H)`:
the record counts the holders `H` and queues the waiters `W`, each once (`DrainAgrees`,
`ResizeAgrees`, `AdmitAgrees`, `EnqueueAgrees`, `ReturnAgrees`, `SpliceAgrees`). Both parts
that follow rest on them.

*ExecutionProofs* on the controller, for every finite set of callers and every set of
positive limits (`CallersAssumption`, `LimitsAssumption`). `ControllerInv` adds to `SlotAccounting` and
`NoIdleSlot` that the queue holds exactly the waiting callers, each once: without it a
drain could serve a caller that holds a slot already, and the counter would be wrong
afterwards. Theorems: `ControllerInvariant`, `ControllerTypeOK`,
`SlotsAccounted`, `WorkConserving`, `FirstComeFirstServed`, and `ControllerImplementsLimiter`,
the refinement of SlotLimiter.

*ExecutionProofs* on requests, for every finite set of requests, every tier and all limits of all
snapshots (`ExecutionAssumption`). `ResourceAccounting` is not inductive: a drain wakes
whoever is queued, and it counts right only if the woken request held nothing. So
`IInv` says for each request what its stage holds (`Fits`), how far its cascade has come
(`Trail`: the trace has the tier's first usable children in order, which also bounds it),
and for each model that its record agrees with the requests that wait and hold
(`Counted`). An action touches one request and at most two models (a cascade returns one
slot and enters the next model), plus every request a drain wakes. Theorems:
`ExecutionInvariant`, `ResourcesAccounted`, `WaitersHoldNothing`, `ExhaustionMeansTried`,
and, what no run checks, `SlotsNeverIdle` (nobody waits for a model with a free slot) and
`GrantsKeepLimits` (no step admits beyond the limit in force).

**RuntimeProofs** on the backend catalog, for every finite set of dispatches and every set of reloads and
backends (`CatalogAssumption`). `InflightExact` needs `PinsAreRunning` (a dispatch pins
one generation exactly while it runs). `PinnedGenerationLives` needs two more facts:
`PinnedIsNotEmpty`, because `load()` keeps the generation it replaces only if it has
entries, and `InflightExact` itself, because the release that brings a count to zero drops
the generation, and only exactness says that nobody else pins it. `OldIsOld` separates
the kept generations from the current one. Theorems: `CatalogInvariant`, `CatalogTypeOK`,
`InflightCountsPins`, `PinnedGenerationsLive`, `BuiltinsServed`.

*RuntimeProofs* on the middleware catalog, for any number of rescans, requests, modules and maps
(`RescanAssumption`). That the previous generation is whole needs that what a rescan found
was whole, and this that the map its predecessor left has every module: `Filling` counts
them (`at`), as long as no two rescans overlap. Theorems: `MiddlewareInvariant`,
`RescansHideNothing`, `ResolvedChainsComplete`.

*RuntimeProofs* on the snapshot, for every set of handlers and requests, every tier and any number
of commits, reloads and crashes (`SnapshotAssumption`). The argument is about the queue for the
connection. `Fit`: the SELECTs of one refresh stand one behind the other, a transaction
stands only at the head, and nothing else shares a caller; `BatchFits` and `TailFits` keep it when a
batch is enqueued and when the head leaves. `HeadTells`: when a refresh's second or third
SELECT is at the head, nothing was committed since its first. `Apart`: a caller is queued,
ready or scanning, never two of these, so what a refresh has read is its own until it is installed.
Theorems: `QueueInvariant`, `SnapshotsAreInstants`, `CallersApart`.

**RequestPathProofs** on the policies, for every finite set of requests, all limits, windows,
cache sizes and times (`TimesAssumption`, `LimitsAssumption`; `TtlAssumption`: a cached figure
lives for some time, as it does by default; with none, an entry of the same millisecond is missed).
`IInv` has three parts that carry an argument. `WindowCovers`: there
is an injection of the admissions that the limiter still has to count into places of its
window that hold their times. The window is a list cut at its front, so cutting
moves every place by the same distance; nothing that counts is cut, and an admission takes
the place behind all others. `RateHolds` follows by counting: no more requests than places.
`SpendCovers`: the cached figure is at least what the audit log held before it was fetched,
also while the sum is on its way from the query to the cache, unless the operator reset
it since; `BudgetLagBounded` is this, one TTL later. `SessionsProper`: a row for the
named session is only inserted when there is none, however many requests found none
before. `RevokedStaysOut` needs `RevokeKnows` (a revoke under way has found a row, and rows are
not deleted). Theorems: `TypeCorrect`, `WholeReplayed`, `OneNamedSession`, `RateKept`,
`BudgetLag`, `RevokedKeysOut`.

*RequestPathProofs* on streamed answers, for every finite set of responses and every size of the socket's
buffer (`StreamAssumption`, which asks of providers that a stream ends with its final event
or fails: one that breaks off cleanly leaves a row "succeeded" without a final frame).
`Consistent` relates handler, socket and stream. Its heart: a handler that reads on after the
last event, having seen neither an error nor the client leave, has written the final frame. A
client that leaves between two reads is seen, and one that left unseen leaves the handler
waiting for `drain`. Theorems: `ResponseInvariant`, `RowTellsOutcome`, `LeasesAreStreams`.

*ManagementProofs* on accounts, for every set of requests, rows, grants, tokens and any number of
crashes (`AccountAssumption`). Its invariant has two parts. `Control`: the map
`_inflightRefreshes` names exactly the callers that run a refresh (`RefreshIsLed`), and each
of them has the data its place needs; `OneRefreshPerAccount` follows at once. `TokenInv`:
two refreshes may use the same credential file (the rows of a deleted and a new account
share it), so one refresh for a row does not by itself protect the file. What does is
`NewestOnItsWay`: while a caller carries the newest token of a grant, no other caller
carries one, and neither the file nor a caller about to call the provider has a token that
the provider would take; `LostIsOutOfReach` says the same of grants whose newest token is
gone. Every token in the gateway has been given by the provider and its grant's first
token has been stored (`HeldCirculate`), which keeps an authorization under way from
meeting tokens of its own grant. `FileFollows` carries what a waiter was promised through
the end of the refresh up to its lease. Steps that move no token are treated together
(`Quiet`). Theorems: `ControlInvariant`, `AccountsInvariant`, `AccountsTypeOK`,
`RowsRefreshedOnce`, `DeletionIsFinal`, `NoTokenStranded`, `LeaseAfterRefresh`.

*ManagementProofs* on the dashboard, for every table, finite set of log rows and number of
requests and clicks (`LogsAssumption`), and of bindings (`AdminAssumption`: ids of their own, no
middleware bound twice at a provider). `ListsInv`: a list is current, or somebody `Promises`
to make it so: a list not served yet or served after the last write, a write that was done
and not taken up, or a key being signed. Every write the gateway does makes its
own request such a promise at the same moment, and a promise is only given up for another
or for a current list; with no request left there is nobody to promise. `LogInv`: rows match the
key selected, or a load is under way or was lost; and the load that will clear the spinner
is for the key selected, or the rows match without it (`CallOK`), which is what keeps an
answer that is dropped from leaving the rows of another key behind. `AscendingOf` (a finite set
of numbers has an element of every rank) gives the server's sorted pages their rows.
`ComposerInv`: bindings keep the primary key and the unique index of their table, and what the
composer or a request `Remembered` of an id stays true while the binding lives, because ids
are fresh (`Known`). A save that counts is the only one under way (`OnlySave`), and at each of its
requests it is `Sound`: what is still to be deleted is on its list (`Covers`), and the first k items
are stored under the numbers 1..k, with every other own binding that stays still awaiting its number
(`Progress`); after the last item nothing else is left, so `StoredInOrder` holds, and
`InOrderIsStored` reads it back by `Ranks` (an element of a finite set has as its rank the number
of those up to it). The trees need no more of the state than that lists stay finite (`TableOK` in `ListsInv`;
`TablesAssumption`: tables are finite at the start and no path is empty, which `splitPath`
sees to). `Tally` says of a set of rows that each item of a set is in just one of them that is not an
opened group; it passes to unions of rows of items that have nothing in common (`TallyUnion`). The
recursive function of the models' tree has a solution, and every branch of it accounts for what lies
below (`TreeGrows`, `TreeTally`), since children have longer paths and no path exceeds the longest
(`LongestPath`). `SizesAddUp` then makes the sums of counts the number of items.
Theorems: `ListsBecomeCurrent`, `PipelineIsStored`, `TreesAccount`, `RowsAreOfTheKey`.

**ModelRegistryProofs**, for every finite set of workers and models and any number of passes
and requests (`SizeAssumption`). A pass acts on rows by ids it read long before, so
everything rests on an id meaning one row for ever: `FreshId` avoids every id stored
or remembered, which is possible because those are finitely many (`SomeIdIsFree`, by the
pigeonhole lemma). `HeldOK`: a row the operator disabled is stored, not enabled and not
marked as disabled by a sync, since the mark is what lets a sync enable it again.
`StaleOK`: no id in a pass's stale list is that of a present row made by hand, although
the list was read earlier. `ChildrenOK` and `TierThere` say where children may be attached.
Theorems: `RegistryInvariant`, `DisabledStaysDisabled`, `OperatorsWorkKept`.
The proof corrected the second property. It had said that a pass appends behind all
children of the tier, as a unit test has it (`reconcile-tag-tiers.test.mjs:247`), and held in
the instance TLC checks. It does not hold in general: the place is computed from a
listing read earlier, and when the tier has been rewritten since, the new child may come before others.

**SearchAgentProofs**, for any number of slots, requests, providers and secrets
(`SlotsAssumption`). `SlotOK`: a busy slot has a request that uses it; one that was not
launched twice has one user, is busy while it serves and has no browser while it is launched.
A slot is handed on to the first of the queue without being free in between, so `QueueWaits`
(the queue has waiting requests, each once) is part of the invariant, and `Leaves` says that
giving up keeps it. `Underway` follows a save through its calls: what was asked to be saved
and is not among the changes still to be sent is readable, or its grant is on its way.
Theorems: `OneAtATime`, `AllSlotsBack`, `SavedSecretsReadable`.

**AnswerProofs** on prices, for all listings and offers, every curated table and any number of
refreshes and syncs (`PricingAssumption`: the price modes are those the database
accepts, lists have no gaps, alias rules are finitely many). The operators come first.
`LookupFinds` says of the lookup what its callers need: it finds a model that the names can
mean (`Meant`), and finds one whenever there is one; the lemmas before it say the same of
each index. `DiscoveredIs`, `FromDirectoryIs`, `FromCuratedIs`, `ClassifiedIs` and
`StoredPriceIs` follow a record through its stages and `MadeIs` puts them together. `PricedInv`
remembers for the stored record, and for the one a request resolved, the descriptor and the
list it was made from. Theorems: `TagsAreTrueAlways`, `AnswerCostsItsPriceAlways`.
The attempt found the model's lookup incomplete: a record is looked up by the last part of its
key too, beside its id (`pricing-directory.mjs:452`, `482`), which the model had left out and
the property called wrong.

**AnswerProofs** on streams, for any answers and tool lists of the providers and however the
body is cut. `TurnsAssumption` says what providers send: the five kinds of payload, texts that
are not empty, and a call whose first delta brings its id and name, which later deltas repeat or
leave out. (A later delta with another id is taken over by the collector, though the frames have
gone out under the first.) None of the four properties is inductive: that a frame is legal, or that
a client heard what the collector has, depends on all payloads before it. `StreamInv` therefore
relates three accounts of one answer. `Held` is what the payloads received so far come to.
`Good` says that the parser has passed on just that (`EventsOK`: its events collect to it), and
that the writer stands where it should after those events (`OnWay`, `Follows`); `Through` says
what is left of it when the answer has ended. `Follows` has a part per format: for Chat the client's reading of the frames is the collected answer,
for Messages all of it but the calls (`Told`); for the Responses API `ResponsesOpen` says which items
the stream has open (`FramesOpen`) and that each holds what the answer has for it (`Carries`), and
`ResponsesShut` that all were closed, each once, before the last frame. `AgentReads` and `BridgeReads`
tie the position in the body to the buffer and the parser: the buffer is what came since the last
payload ended, and the parser is where the lines read so far take it. Each step of a writer is one lemma of its format (`ChatStep`, ...),
and `CallComesBack` follows a tool call (`LegalCall`: one whose adapter is no other tool's by name, and
whose arguments are an object) to the client and back in the next turn.
A fold is computed by a recursion on sets of indices; **FoldTheorems** proves, for any operator,
that folding one more element applies the operator once more (`FoldAppend`), and that a fold from within a set stays
there (`FoldStays`). AnswerProofs takes an instance for each of its eight operators. Induction
over sequences is by the least counterexample, so the facts are about sets of sequences
(`AllSequences`); the hypothesis `WellOrdered` is proved once (`NumbersWellOrdered`).
Theorems: `StreamInvariant`, `EventsAreTheAnswerAlways`, `StreamEqualsBufferedAlways`,
`ResponsesFramesLegalAlways`, `ToolCallsRoundTripAlways`. The run checks the stream composed
with prices; `PricedIsStream` says that its behaviours are behaviours of the stream.

A theorem about a specification that has one with fairness beside it holds of that too,
since it is implied.

## 6. What is only checked, what is left out, and what the code does otherwise

Only model-checked are the liveness properties (`RequestSettles`, `UsedGenerationRetires`,
`ChangesReachRequests`, `ConnectedClientIsServed`, `CredentialsArrive`, `RowsReachSnapshot`,
`FeedComesBack`, `SearchSettles`): liveness under fairness and `ENABLED` are outside the prover's
reach. Every invariant and action property of the runs is a theorem.

### Abstractions, by module

* *ModelExecution*: delays are steps without length; the pool's choice among accounts
  is not modelled; a tier whose child is itself a tier is not modelled.
* *BackendCatalog*: what a module's own shutdown does; a module that is rejected by
  validation behaves as one that fails to import.
* *MiddlewareCatalog*: `promoteGeneration` has no caller; middleware settings are data.
* *RuntimeSnapshot*: rows are reduced to what validation and resolution look at; the
  SELECTs of one load are one queue item each.
* *ResponseStream*: buffered answers are one write and not modelled; frames are kinds.
* *OAuthAccounts*: the copy of the tokens in the row's metadata, which is read only when
  the credential file cannot be, is left out, and so are failing statements and files;
  a provider that does not rotate refresh tokens is less strict than the modelled one;
  `revokeTokens` and `markExhausted` have no callers; a provider keeps an older grant
  when a newer one is given.
* *ModelRegistry*: the columns are the ones the writers decide by (id, source, enabled,
  priority); no LLM_DEFAULT_AGENT; one predefined tag. Rows an error cut short from
  their refresh are excused by `lost`, since nothing in the code brings it back.
* *RequestPolicies*: the key's signature is a Boolean of the token; one subject, since
  windows, spend and loops are kept per key; a charge is one unit; one UTC day.
* *ProviderStream*: texts and arguments are sequences of pieces; a chunk ends between pieces,
  never inside a character; images, sampling parameters and headers are left out. A call's id
  and name come with its first delta; later ones repeat them or leave them out (`TurnsAssumption`).
* *ModelPricing*: prices and token counts are small numbers, never negative.
* *LogFeed, AdminPages*: markup, charts, dialogs, clipboard and formatting; the pages'
  timers except the reconnect timer. `overtaken`, `cutShort` and `loadLost` are history: a
  list overtaken by a later answer, a chain of requests cut short, a load that failed.
  `stored` holds after a save that nothing disturbed.
* *BrowserPool, SearchAgent*: pages of providers are sequences of results; `doubled` are the
  slots two requests launched at once (below), the place `lost` of a request a handle nobody waits for.

### What the code does otherwise than one would wish

These are behaviours of the code which the models contain, or leave out where said;
the properties are stated so that they hold of the code as it is, and name the exception.

* *Embeddings* (`public-api/embeddings-route.mjs:205–228`): credentials are leased outside the
  `try`, so a failing lease loses the concurrency slot for ever; the backend is used
  without pinning its generation; there is neither signal nor timeout.
* *Streams hold no slot.* A lazy stream is read after its slot went back
  (`concurrency-middleware.mjs:63`), so provider calls may exceed the limit; a client that
  leaves while the writer waits for `drain` leaves the handler waiting with its pin
  (`respond.mjs:151`); a provider error in mid-stream ends a response without an error event.
* *Rescans and cooldowns.* Of two overlapping rescans the second may start from a
  half-filled map, and a chain resolved then lacks policies bound to it; a cascade filters by the
  cooldowns of its pinned snapshot, new ones do not reach it (`model-execution.mjs:190`),
  though the header of `cascade-middleware.mjs` may be read otherwise.
* *Models.* A sync that throws after its writes asks for no refresh
  (`auto-provisioner.mjs:560–679`); `discoverModels` of `openai-api.backend.mjs:333–357` answers an
  empty list when `/models` is missing but chats are answered, which makes a sync disable
  every model; a provider's 4xx without a rule of its own becomes a server error, is
  retried and cascaded (`openai-api.backend.mjs:572–581`). A model that was disabled as stale and is
  listed again stays disabled (`reconcile-agents.mjs:484`).
* *Policies.* `recordCost` has no caller in the request path, so spend lags by the cache's TTL
  (the comment at `budget-enforcer.mjs:4` has it otherwise); a rate window's entry is never
  evicted; a blocked session stays blocked until restart.
* *Prices.* The directory's "-1" for a variable price is used as a negative price
  (`cost-calculator.mjs:98`); the mode `token` drops a price per request
  (`pricing-directory.mjs:161–168`); curated models may be tagged free and charged
  (`curated-model-metadata.mjs:45`); the public list looks prices up by more names than the charge
  does (`register-routes.mjs:152`, `audit-log.mjs:263`). Listings of the run have no
  negative prices.
* *Converters.* `input_json` deltas of Messages come without a `content_block_start`
  (`canonical-stream-to-sse.mjs:300`), so `StreamEqualsBuffered` speaks of text and stop reason there;
  a chunk cut inside a character is decoded by halves (`ploinky-agent-openai.backend.mjs:682`); a
  body that breaks off without `[DONE]` counts as finished; text beside a tool result is dropped
  (`format-normalizer.mjs:162`); custom tools carry no namespace and tools that differ in
  type only are confused in some orders (`format-normalizer.mjs:356`, `493`): `Distinct` excludes them.
* *Dashboard* (`dashboard/js/app.mjs`): composers of two providers opened at once mix their
  bindings (1309); a save reads the pipeline live between its requests (1337) and does not notice a
  binding deleted meanwhile; a middleware may be composed twice, but the unique index
  (`db/schema/sqlite-current.sql:232`) refuses the second binding and the composer does not look at
  that answer (1375); an error answered to `openComposer` reads as an empty pipeline (503, 1330):
  `ComposedIsStored` excuses these (`Doubled`, `RefuseStep`, `Mixed`, `Disturb`); the list id `__unknown__` asks for all keys' rows (1677); an
  EventSource that is answered by anything but a stream closes for good; after a failed
  mint the list is stale and a retry is refused (2926–2937); a list may be
  overtaken by an older answer.
* *Search agent*: two requests may launch the same slot's browser at once, share it and leak one
  (`browser-pool.mjs:74`, `173`); one that gives up during its checkout loses the slot
  (250, 271); `deep-research.mjs:83` answers ok without results when every provider failed; a
  secret typed during a save is cleared from the form unsaved (`search-agent-settings.js:274`).

### Not modelled

* *Tier seeding at boot, retention jobs, metrics and exports*: sequential statements at boot,
  deletions of rows nothing reads, single reads.
* *Rotation among several accounts*: one SELECT ordered by `last_used_at` without an await
  inside; which account comes next is data.
* *Shutdown's order* beyond `shutdownAll`: `shutdown.mjs` counts no requests, so there is nothing to wait for.
* *Identity headers, signatures, parsing of bodies, validation*: stateless checks.
* *Request bodies of each provider, images, sampling parameters*: field-by-field copying. The
  protocol converters `toProviderRequest` and `fromProviderChunk` have no caller.
* *Charts, dialogs, markup of the dashboard; provider page formats of the search agent.*
* *default-local-llm, deploy, workflows*: packaging and scripts.

## 7. Order of work, and what would come next

The modules were written in the order in which they rest on each other: controller,
execution, catalogs, snapshot, streams, accounts; then reconciliation, policies with
sessions and keys, converters with prices, dashboard, search agent. What would add most
now:

1. Shutdown composed with BackendCatalog and ResponseStream, should the code begin to count
   its requests.
2. Several accounts of one provider with their quota windows.
