# Verification of search-service

TLA+ models of search-service, the TLC configurations that check them on small
instances, and theorems about them that TLAPS checks. `PROJECT.json` lists the
components, the runs, the mutated definitions each property is tested with, the
source lines every definition stands for, the hazards and the theorems.

    tlc -workers 2 -config MCProjectionEvents.cfg MCProjection
    tlapm ProjectionProofs.tla

## 1. The system

search-service keeps one OpenSearch index of documents that other services own.
Owners publish `upserted` and `deleted` events, or call batch RPCs; users search
through HTTP and gRPC and see only what is addressed to them.

| Part | Source | State | Operations |
|---|---|---|---|
| search service | `internal/search/service.go` | none | `BatchUpsert`, `BatchDelete`, `Search`, `Suggest`, `Get`, `validateVisibility`, `CanonicalID` |
| engine | `internal/searchstore/opensearch.go` | the index (in OpenSearch) | `Upsert`, `Delete`, queries, `ensureIndex` |
| projection | `internal/app/search_projection.go` | inbox rows (PostgreSQL), consumer position (JetStream) | handle an event, clean the inbox |
| event bus | `internal/eventbus` | the stream (JetStream) | hand times and limits to the shared library |
| visibility resolver | `internal/searchauth/resolver.go` | none | `VisibilityTokens` |
| transports | `internal/transport/http`, `.../grpc` | none | middleware, interceptors, handlers |
| rate limiter | `internal/ratelimit` | budgets (in Redis) | `Allow` |
| authentication, authorization | `internal/auth`, `internal/authorization` | keys | verify, decide |
| outbound clients | `internal/outbound`, `internal/grpcclient` | breakers, connections | calls with timeout, retry, breaker |
| health | `internal/health` | none | `Live`, `Ready` |
| lifecycle, migration | `internal/app`, `internal/migration` | what is open; the schema | start, roll back, stop |
| configuration | `internal/config` | none | `LoadWithProfile`, `Validate` |
| locker | `internal/cache` | keys with a time to live (in Redis) | `TryLock`, `Lock`, `Extend`, `Unlock` |
| database, idempotency, observability, logging, ... | the other packages | - | opening connections, value types |

Interactions. JetStream calls the projection's handler; the handler goes through
the inbox to the search service, which checks the document and calls the engine,
which sends one request per item to OpenSearch. Batch RPCs take the same way from
the gRPC server. A read passes the transport's chain, asks the resolver
(authorization-service, page by page) and application-service, then OpenSearch.
Replicas share the database, the stream, the index and Redis, and nothing else.

Hard behaviours, and where they are met:

- an event is delivered more than once, out of order, to several handlers; a
  handler dies between the index write and the inbox commit; an abandoned request
  reaches OpenSearch late; a batch fails in the middle (`Projection`);
- the ack wait, the handler timeout, the age limit and the retention have to fit
  (`DeliveryTiming`);
- roles, grants and documents change between the calls of one request
  (`SearchAccess`);
- attempts, backoffs, cancellation and a shared breaker (`OutboundCall`);
- the deadline of a request, panics, an outage of the limiter and concurrent
  requests on one budget (`RequestPipeline`);
- probes that hang (`Readiness`);
- replicas that start at once, fail half way, or stop while work goes on
  (`Lifecycle`);
- settings from four sources layered over each other, and what the process makes
  of the result (`Configuration`, inside `Lifecycle`);
- a lock that expires under its holder, commands and answers that are lost
  (`Locker`).

### What makes each part correct

| Part | Correct when |
|---|---|
| writes, projection | what is acknowledged is in the index, the newest version of a record wins, nothing but what an owner may send gets in, every event ends |
| reads | a caller sees documents of its tenant that are addressed to it, in the applications that are granted, all of them, page by page |
| transports | a handler runs only past every check its route calls for; a budget is spent only by its subject; one answer per request |
| outbound clients | no call is sent more often than it may be; no body is left open; a breaker on trial lets one call through and only failures open it |
| health | a verdict is true of the dependencies; a hanging one holds up nobody |
| lifecycle, configuration | replicas do not make each other fail; work ends before what it needs is closed; production rules hold for what runs as production |
| locker | whoever holds the lock by its own clock holds it alone; a lock nobody remembers becomes free |

## 2. Modules

| Module | Models | Uses |
|---|---|---|
| `SearchDocument` | what a write must look like: operators over documents and events | - |
| `SearchStore` | the engine's loops, the retrying client, the versioned index | `SearchDocument` |
| `Projection` | handlers, inbox, stream and batch RPCs over one index | `SearchStore`, refines `ConfirmedReplica` |
| `ConfirmedReplica` | abstract: what owners are promised | - |
| `DeliveryTiming` | one event against the configured times | - |
| `SearchAccess` | one read against a changing world | `SearchDocument`, refines `ReadPromise` |
| `ReadPromise` | abstract: what a read promises its caller | - |
| `RequestPipeline` | HTTP middleware and gRPC interceptors | - |
| `OutboundCall` | one outbound client with its breaker | - |
| `Readiness` | `Service.Ready` and its probes | - |
| `Configuration` | loading, validation, what constructors make of settings: operators | - |
| `Lifecycle` | replicas starting and stopping | `Configuration` |
| `Locker` | one key of Redis and the clients that lock it | - |
| `MC*` | instances for TLC | the module they name |
| `ProjectionProofs`, `DeliveryTimingProofs`, `SearchAccessProofs`, `RequestPipelineProofs`, `OutboundCallProofs`, `ReadinessProofs`, `LifecycleProofs`, `LockerProofs` | theorems | the module they name |

Operators under a comment "Mutant" are faulty variants of the definition that
follows. No specification uses them; each shows that a property would notice that
fault.

### SearchDocument

Names are sequences of the parts between colons, so that `CanonicalID` is their
concatenation and two records can share an id as they can in the code; a token is
a record of kind, name and whether it is padded with white space. `EventAccepts`
and `BatchAccepts` collect every check on the way to the engine. Titles, bodies
and the other fields no check looks at are left out; so is
the authorization of batch callers beyond `requireIndexer`, whose refusals leave
no trace.

### SearchStore

`call[c]` is one call of `Upsert` or `Delete`: the items, the position of the loop
and the attempt of the client's transport. `Answer` covers every status the loops
treat as done (2xx, 409, and 404 for a deletion). An attempt that is given up on
may stay behind in `orphans` and be applied at any later time, any number of
times. The index keeps the version of a deleted document until `CollectDeleted`
drops it (`index.gc_deletes`); `collected` remembers that it happened, and the
properties that cannot hold for such an id say so.

### Projection

One handler is a `job` with a stage; `fate` and `deliveries` are the stream's
knowledge, `inbox` the row of `search_event_inbox`. The inbox library is external
and assumed to do one thing: it does not run the callback for a completed row. It
is not assumed to keep two handlers apart. `GiveUp` includes a commit that fails
after the engine has written. Deliveries are bounded by `MaxDeliver` as in the
consumer; there is no other bound.

### DeliveryTiming

One event, a clock, and the times of the configuration. The library cancels the
handler's context after `consumer_handler_timeout`; the model takes it that the
handler then returns before the clock goes on, since every call it makes is given
that context. `CommitsSpaced` holds for every retention; that there is one commit
follows from it if `RetentionCovers`, which `Validate` does not check and the
defaults satisfy.

### SearchAccess

One request from the resolver to the query, over HTTP or gRPC, with or without a
resolver. Lists of bindings, grants and documents change between any two steps;
`held` and `granted` remember what was true at some time of the request and
`quiet` whether nothing changed. Authorization-service is taken to report the
total number of bindings with each page; the code takes an answer without a page
result for the last page, which is left out. `unavailable` stands for whichever
error a failed look-up becomes (not found, internal, unavailable). `Offset` and `Size` are `normalizePage`
(or the limit of a Suggest) and the computation of `from`, modulo `Width` as in
`uint32`; which of the hits come first is OpenSearch's business, so a page is any
selection of the right number. OpenSearch refuses a page that starts beyond its
result window; that is one of the failures of `DependencyFails`. Sorting, scores,
highlights and facets are left out. The index is finite and page numbers and sizes
are natural numbers (`RequestAssumption`).

`ReadPromise` is the read without its look-ups: a question, one moment between
question and answer at which the answer is taken from the index, the grants it
calls for, and nothing shown by a refusal. `ImplementsPromise` maps `SearchAccess`
to it: `Showable` is what the index holds and the caller may see by roles held
since the question, `allowed` is `granted`. A request that is refused early never
takes anything; the query of a search is where a page is taken and answered, and a
`Get` takes its document before it asks for its application.

### RequestPipeline

Requests enter by one of six chains: the group `/api/v1`, the open HTTP routes,
`/debug/pprof`, `/swagger`, a unary RPC and a stream. `Chain` gives the order in
which the two `NewServer`s install middleware and interceptors, and each stage has
an action. Routes are model values in sets (`PskRoutes`, `SkipRoutes`,
`Protected`), which stand for the patterns of the configuration; `flaw` is what is
wrong with a request before anybody is asked (an idempotency key, a header, CORS,
JSON). A budget counts what is left; `Refill` stands for time. The request
deadline interrupts no handler: `Timeout` looks at it when the chain has
returned, and that is where the model decides whether it has passed; a call that
fails because of it is one of the failures every step has. `answers` counts what
the client is sent. A panic is one of the handler before it
has written anything: `Recovery` writes its answer without asking whether one has
begun, so that a handler which panics after writing would be answered twice, but
those of this repository end with their answer. Recovery is modelled once, for
the HTTP middleware and the gRPC interceptors alike. The manager of idempotency is
a shared library: a call with a key is let through or answered. Request ids,
headers, metrics and logging change nothing and are left out.

### OutboundCall

A call runs its retry loop inside the breaker. `fresh` is gobreaker's generation;
where the library's behaviour is not visible from this repository the model
allows every outcome. `bodies` counts response bodies nobody has closed. A call is
`retryable` by its method, by a configured pattern, or because its context carries
an idempotency key; which of them is not told apart. The gRPC client forwards the
key, the HTTP client leaves that to whoever calls it, and nobody does yet.

### Readiness

Three goroutines, a channel and a caller. A dependency may hang; only the
probe's timeout ends its goroutine then (for Redis the client's read timeout and
attempts, as it does not look at the context while it waits).

### Configuration and Lifecycle

A `Deployment` is what a process finds: the flag, the environment, `config.yaml`
and the files of profiles. A section of the file stands for its switch and its
settings together: "off", "on", or "flawed" with a setting missing or out of
range (the delivery times, whose relations matter, are in `DeliveryTiming`). A
layer overrides what it mentions; environment variables reach only upstreams a
file mentions, as in viper. `Loaded` is the result, `Validate` what it must
satisfy, and `Builds` what the constructors insist on besides; what depends on more
than these settings (certificate files, trusted proxies) is one of the failures
`StartFails` allows at any step.

Each replica of `Lifecycle` loads that configuration, walks through constructors
and hooks; `up` is what it has open and `work` what it is doing. `CREATE SCHEMA IF
NOT EXISTS` looks before it inserts and fails if another transaction has inserted
meanwhile, as in PostgreSQL. A failing hook rolls back what was started, a failing
constructor ends the process. A kill releases locks and may leave a request
behind.

`Validate` accepts some configurations that never start: credentials over HTTP with
`allow_insecure`, which `NewHTTPClient` refuses, a target that is no URL, and
`opensearch.enabled: false`, which `searchstore.New` refuses. `Builds` says so, and
`NoStartRace` and the proofs speak of the rest.

### Locker

One key, its owner and its life; a client's request is on its way until
`Execute` or `Lose`, and its answer may be lost as well. `left` is what a client
believes to have left by `Until`. The model takes it that time passes alike for
Redis and the clients up to `Drift`, that a command its sender has given up is
executed before the sender goes on or never, and that Redis keeps its keys: no
lock with a time to live survives the loss of any of these, and redsync over one
Redis does not claim it.

## 3. Runs

| Run | Checks | Instance, and why it is enough |
|---|---|---|
| `projection_events` | types, `SettledReached`, `Converged`, `EverySettled`, refinement of `ConfirmedReplica` | two handlers, a deletion (version 2) and a re-creation (version 3) of one record, two deliveries each, one retry: handlers meet on one event and on both, a late request overtakes, a marker is dropped |
| `projection_inputs` | `IndexedSound`, `PrefixReached` | a good event, one with an unsupported schema and one of another tenant, against one batch RPC at a time: a two-item upsert, a delete, a batch invalid in its second item, an empty one |
| `projection_tombstone` | finding 1 | |
| `projection_collision` | finding 2 | |
| `delivery_timing` | `NoOverlap`, `CommitsSpaced` | timeouts 2 < 3, age limit 7, clock up to 18: long enough for all deliveries, and for cleaning after the age limit; a retention of 5, so that an event is committed twice, and would be three times if the cleaner did not look at the age of a row |
| `access` | `ReturnedVisible`, `RolesComplete`, `GrantChecked`, `HolderSees`, `Answered`, refinement of `ReadPromise` | pages of one binding, two pages at most, lists of up to three: complete, partial and too long, growing as they are read; requests of each operation, from callers of every shape, with and without a resolver, a first, a second and a third page with offsets that wrap at 4 |
| `access_service_account` | finding 3 | |
| `outbound` | `BodiesOwned`, `SentWithinPolicy`, `TrialAlone`, `OpensOnFailure`, `EveryCallEnds` | a client of either kind, two callers, three attempts, a threshold of two: the breaker opens, goes on trial and closes while older calls end |
| `pipeline` | `HandlerGuarded`, `SubjectBudgetOwn`, `OneAnswer` | two requests by any of the six chains, a budget of one: every limit is met; routes of each kind, one both with a shared key and skipped; right and wrong credentials, every flaw; `fail_open` is on: the limiter may fail at any limit, and a request it is closed to ends as one over the limit does |
| `readiness` | `VerdictTruthful`, `NothingLeft`, `Answered` | the code's three dependencies, one of them not configured |
| `lifecycle` | `MappedIndex`, `ResourcesOutliveWork`, `NoStartRace`, `ProfileEnforced`, `InboxWhereMigrated`, `StartEnds`, `Stops` | two replicas: every race of a start is between two; eleven deployments: production by an oddly spelled flag against the environment, MySQL, the least that serves, and eight that must not start for a reason each |
| `locker` | `HolderAlone`, `KeyFreed` | two clients, `TryLock` and `Lock` with two tries, times to live 3 and 0, drift 1: a lock expires in each state of its holder, and 0 has to be refused |

Each passing run also checks `TypeOK`, except `projection_inputs`
(`projection_events` does), `delivery_timing` and `readiness`, whose types
`DeliveryTimingProofs` and `ReadinessProofs` prove, and `locker` (proved in
`LockerProofs`).
The longest run takes about a minute and a half on two cores; `pipeline` visits
about 3,000,000 states, `lifecycle` about 58,000.

`CHECK_DEADLOCK FALSE` is set where the system may come to rest: all events
settled (`Projection`), the clock at its horizon (`DeliveryTiming`), the request
answered (`SearchAccess`).

Bounds that are not the code's own: the numbers of handlers, callers, replicas and
clients, `Horizon` of `DeliveryTiming`, `MaxBindings` and `Width` of
`SearchAccess`, and the small sets of events, documents, requests and deployments.
The theorems hold without them.

Symmetry: requests in progress (`RequestPipeline`) are interchangeable; runs that
check liveness use none.

### Fairness

- `Projection`: a running handler and a running engine call go on (goroutines are
  scheduled, attempts time out); the stream goes on delivering what is not
  acknowledged. Crashes, losses and OpenSearch's housekeeping are never owed.
- `SearchAccess`: the handler goes on; its outgoing calls have deadlines. The
  world is not fair.
- `OutboundCall`: attempts end by the client's timeout, timers fire.
- `Readiness`: goroutines run and probe timers fire. No dependency owes an answer.
- `Lifecycle`: weak fairness for the steps of a start, of a stop and for the stop
  timeout; strong fairness for the advisory lock, because PostgreSQL queues those
  who wait. Work in progress is not taken to end.
- `Locker`: time passes. No client and no command is owed a step.

`DeliveryTiming` and `RequestPipeline` state safety only.

## 4. Findings

1. *A deleted document can come back* (`projection_tombstone`). The engine relies
   on OpenSearch to refuse versions older than the deletion, but OpenSearch
   forgets a deletion's version after `index.gc_deletes`, left at its default of
   60 s. An older upsert that is retried later is accepted. The comment on
   `Engine` and the repository's README promise that delayed events cannot
   overwrite newer documents.
2. *Two records can share an id* (`projection_collision`). `CanonicalID` joins
   parts with `:` and nothing forbids `:` within a part.
3. *Service-account tokens match nobody* (`access_service_account`). They are
   documented and accepted on write, and the resolver never produces one.

Not a finding, but worth knowing: `Validate` accepts any positive
`inbox_retention`, while the repository's README says only that the default is longer than the
stream's replay window. With a retention shorter than the stream
keeps an event, the cleaner may remove the row of an event whose acknowledgement
was lost, and the next delivery commits it again. `CommitsSpaced` says how often
that can happen: `delivery_timing` runs with such a retention. The index is none
the worse for it: in `Projection` the cleaner may remove a row at any time, and
`SettledReached` and `Converged` hold.

## 5. Proofs

Every theorem holds for all values of the constants that satisfy the assumption
named in the module it is about. Each proof follows the same plan: an inductive
invariant `IInv`, that `Init` establishes it, that every action keeps it, one step
per action, and what it implies.

`ProjectionProofs`, for any handlers, callers, events, batches, deliveries and
retries, from the assumptions named in `SearchDocument`, `SearchStore` and
`Projection`:

- `InductiveInvariant`: `IInv` is `TypeOK`, `CallInv`, `JobInv`, `PrefixReached`,
  `SettledReached` and `OnlyAcceptedContent`. `SettledReached` alone is not
  inductive: that an acknowledgement is justified rests on the handler having been
  told `ok` (`JobInv`: a job that applies an event has exactly that event's write
  in its call, one past it has it reached), which rests on the loop having passed
  the item (`PrefixReached`), which needs every call to hold accepted writes and a
  position within them (`CallInv`). `ReachedStable` carries all of it: the
  version of an id never falls unless its deletion marker is dropped.
- `TypeCorrect`, `SettledEventsReached`, `BatchPrefixReached`, `ContentSound`,
  `Convergence`: the invariants the runs check, from `IInv`.
- `Refinement`: the projection implements `ConfirmedReplica`, from `NextIsIndexStep`,
  which says what a step may do to the index at all: put a write that is not older
  than what is there, or drop a deletion marker.
- `ApartWithoutColons` and `NothingOlderWithMarkers` are the other side of
  findings 2 and 1. If no part of a key before the last holds a colon,
  `CanonicalID` is injective (`CanonicalApart`, from what concatenation leaves in
  its first three places), and as the index holds nothing but accepted writes
  under their own id, `RecordsApart` holds. If OpenSearch drops no deletion
  marker, versions never fall at all, and `NothingOlderReturns` holds. So each
  finding has the one cause it names.
- `CallsEnd`, `HandlingEnds`: the loops of `Upsert` and `Delete`, and the handling
  of a delivery, come closer to their end with every step of theirs
  (`RequestsLeft`, `HandlingLeft`), and only a new call or delivery begins them
  again. A call of n items sends at most n * (`MaxRetries` + 1) requests.

`DeliveryTimingProofs`, for all times that pass `Validate`:

- `TypeCorrect`.
- `HandlersApart`: a busy handler is younger than the handler timeout and the next
  delivery is not due before the ack wait of the latest one or a refusal
  (`TimeInv`), so no delivery happens while a handler works.
- `CommitsApart`: whoever is about to commit has found no completed row, so that
  the commit before is a retention old (`RowInv`), and is inside its timeout.
- `Idempotent`: if the retention covers the age limit and a handler timeout, that
  leaves room for one commit.

`SearchAccessProofs`, for any bindings, grants, documents, requests, page sizes and
limits, whatever changes during the request:

- `Visible`, `Granted`: each token resolved so far is trimmed and addressed to the
  caller by a role held during the request (`Addressed`, kept because `held` only
  grows), the caller's tenant has been compared before any list is read
  (`Staged`), and whatever the query returns carries such a token (`Found`).
- `Complete`: while nothing changes, the role tokens are those of the first
  `(page - 1) * PageSize` bindings (`Reading`); a page follows upon the one before
  it (`Pages`), and a page without bindings comes after the last one (`PageRead`).
- `HolderServed`: in a world that stays quiet the tokens a query asks for are
  exactly those addressed to the caller (`Whole`: one for each active role of the
  complete list, and his own; `TokensAsked`), so what matches is what he may see;
  a page is a selection of what the pages before have left of that finite set
  (`PageLeft`, `PageShown`), below the offset at which `uint32` wraps.
- `PromiseKept`: the initial states map to those of `ReadPromise`, and every step
  to one of its steps or to none (`PromiseStep`); the list of bindings may be read
  while `showable` changes, because what matches by tokens resolved earlier is
  addressed by a role in `held`, which only grows.
- `ServiceAccountsIgnored`: finding 3 for every instance: whatever is returned is
  returned for a token of another kind.
- `AnswerNears`: a request is answered after at most `MaxPages` + 4 steps of its
  own (`StepsLeft`), whatever the world does between them.

`RequestPipelineProofs`, for any number of requests, routes, bursts, and either
setting of `fail_open`:

- `HandlersGuarded`, `SubjectBudgets`, `Answered`: per request a predicate of the
  stages its chain has behind it (`Placed` in the chain, `Authenticated`,
  `Admitted`, `Permitted`, `Paid`, `Counted`). Requests meet only in the budgets,
  so that a step of one keeps the predicate of every other.
- `ChainAdvances`: the stages a request has left (`Ahead`, `StepsLeft`) fall with
  each of its steps, and no step of another request changes them.

`OutboundCallProofs`, for any callers, attempts and threshold:

- `PolicyKept`, `BodiesHandedOver`: a call's sends keep step with its attempts
  within its limit (`Counted`), and it owns a body only when it hands one over
  (`Owned`).
- `OneTrial`: calls the breaker still watches were admitted in its present state;
  while it is on trial it watches at most one (`Trial`).
- `OpenedByFailure`: the action property.
- `EndNears`: each step of a call lowers the attempts, timers and positions it has
  left (`StepsLeft`), and no step of another call raises them.

`ReadinessProofs`, for any finite set of dependencies:

- `Truth`, `Leftovers`: every dependency is reported, in the channel or being
  probed, each in one place, and the loop has as many turns left as are waiting.
- `SendsFit`: the channel never holds more results than there are dependencies,
  which is its capacity, so that a send never blocks, as the model takes it: the
  names in it differ, and there are no more names (`FS_PigeonHole`).
- `NeverWaitsInVain`: while the loop has turns left there is a result to take or a
  probe that will send one.

`LifecycleProofs`, for any replicas and any deployments:

- `IndexMapped`, `StartsApart`, `WorkEquipped`: where a replica is determines what
  it has open and what it may be working on (`Equipped`, `Placed`), only the
  holder of the advisory lock is inside `createSchema` and finds what its look has
  found (`Alone`), and the index exists once a replica is past `ensureIndex`
  (`Indexed`).
- `ProductionHeld`, `InboxFound`: from `ConfigValid`, that a configuration that is
  not refused is the loaded one and satisfies `Validate`, and what the layers over
  each other leave of the profile, the database and the schema.
- `HooksAdvance`: the places of a replica are in an order (`Place`) in which every
  step of a start, a rollback or a stop goes down, and only `main` goes up; no
  start or rollback goes in circles.

`LockerProofs`, for any clients, times to live and drift:

- `Exclusive`: a confirmation that is still young, and the time a client has left,
  are each backed by its value in the key with at least as much life (`Granted`,
  `Backed`); nobody else's command touches a key that is owned.
- `AbandonedFreed`: a key whose client stopped or never learnt it had acquired the
  lock has a time to live left (`Mortal`, because `newMutex` never sends zero and a
  script that compares the value leaves a stranger's key alone), loses it with
  every tick and is free when it is used up.

Every invariant, action property and refinement a passing run checks is proved.
Model-checked only: liveness (`EverySettled`, `EveryCallEnds`, `StartEnds`,
`Stops`, `KeyFreed`, both `Answered`), since TLAPS does not reason about fairness
and `ENABLED`. What there is of safety in these is proved: each step brings its
actor closer to the end (`HandlingEnds`, `EndNears`, `ChainAdvances`, `HooksAdvance`,
`AbandonedFreed`, `NeverWaitsInVain`, `AnswerNears`). TLC checks that such a step
can be taken and, by fairness, is.

## 6. Not modelled

Opening connections and TLS, decoding of single settings and their numeric ranges
(but for the delivery times), logging, metrics, tracing, generated API
documentation; token verification (cryptography in a library); the migrator and
its SQL files; the transaction helper and `Publish`, which the application
constructs and does not call; the manager of idempotency, a shared library;
scoring, highlighting and facets. Whether the scheme of `base_url` agrees with
`tls.enabled` is not told apart.

Left open on purpose:

- which of two bodies with the same source version stays (`external_gte` lets the
  last win, nothing is promised);
- what a document with a padded token is good for (it is stored and matches
  nobody);
- what happens after `ConsumeWithOptions` has returned an error: the goroutine
  ends and nothing starts it again before the process does; the repository says
  nothing of when the shared library returns;
- what `app.shutdown_timeout` does when it is not positive: `Validate` does not look
  at it, and fx then leaves no time for a start or a stop.

## 7. What could be added

1. `Projection` composed with `DeliveryTiming`, so that the inbox's part in the
   order of events can be stated.
2. A measure of a whole event for `EverySettled`, over deliveries and handlers
   together; `HandlingEnds` measures one delivery.
3. What layers of configuration leave of each single setting, beyond those
   `ProfileEnforced` and `InboxWhereMigrated` speak of.
