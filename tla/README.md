# ai-gateway-core in TLA+

TLA+ models of `ai-gateway-core`, the gateway between the tenants of a platform
and the providers of language models, with what TLC checks of them on small
instances and what TLAPS proves of them for every instance.

Paths are those of the repository, without the leading `src/`.

## 1. The system

A request for a chat completion goes through one function,
`application/chat.Service.Complete`: risk control, cache, router, and then a loop
over the router's chain of models in which each model is offered to the rate
limiter, the circuit breaker and at last its provider.  A session turn
(`application/session`) stores the user's message, calls `Complete` with the
session's history and stores the answer.  Every provider call is metered by a
worker of its own, whose totals the usage page shows beside what the billing
service has.  Agents are authored through handlers of their own that read and
write a repository, with a catalog of published agents behind it.

| component | state | operations | meets others through |
| --- | --- | --- | --- |
| circuit breaker `application/breaker` | one entry per model: state, counters, time of opening, probes; a mutex | `Allow`, `Record`, `State` | `Allow` before and `Record` after each provider call, with up to a minute between them |
| rate limiter `application/ratelimit` | a bucket per tenant and model, the marks of the global ceiling; a mutex | `Allow` | called for each model of the chain |
| chat pipeline `application/chat` | none of its own; a chain, an attempt count and an error per request | `Complete` | all of the above and below |
| router `application/routing` | none | `Resolve` | many queries of the model catalog |
| model catalog `infrastructure/catalog` | the cards, in memory or in PostgreSQL | `Get`, `ListByCapability`, `Upsert`, `UpdateHealth` | router, pipeline, `/v1/models` |
| response cache `infrastructure/cache` | answers by key; a lock | `Get`, `Set` | shared by the requests |
| metering `application/metering`, `infrastructure/metering` | a channel, a worker, the token totals | `Report`, `Close`, the sink | requests send, the worker drains and posts to billing |
| sessions `application/session` | none of its own | `OpenSession`, `SendMessage`, history, uploads, agents | repositories, pipeline, content security |
| repositories `infrastructure/repository` | sessions and agents, in memory (maps under a lock) or in PostgreSQL (one row each) | `Save`, `Get`, `AppendMessage`, `List`, `Delete` | sessions, agent handlers |
| provider adapters and transports `infrastructure/provider` | a registry filled at start | `ForModel`, `Chat` | the pipeline; posts to the upstreams |
| agent catalog `infrastructure/catalog/agents.go` | summaries by id; a lock | `Put`, `ListAvailable` | agent handlers, `GetAgent` |
| usage page `interfaces/http`, `cmd/main.go`, `infrastructure/billing` | none | `Usage` | reads the totals, asks billing twice |
| risk control, content security, scanner | none: regular expressions | `Inspect`, `ScanInput`, ... | pipeline, sessions |
| storage, audit, auth, config, tracing | files and objects; an append-only trail; none | | pure I/O |
| HTTP handlers `interfaces/http`, wiring `cmd/main.go` | none | | decode, dispatch, encode |

What is hard in it:

- **Calls that outlive the state they were admitted in.** `Allow` and `Record`
  are atomic, but a provider call lies between them.  Outcomes reach the breaker
  late, out of order and in another state; whoever takes a half-open breaker's
  permission must report back, or the model is shut out for ever.
- **Shared memory by accident.** The in-memory repository hands out slices of the
  array it stores; `SendMessage` appends to such a slice outside the lock.
- **Read, then write.** `AppendMessage` on PostgreSQL, `UpdateAgent` on either
  repository.
- **A process that restarts.**  Requests are cut off between two statements, maps
  are lost, and a start at which PostgreSQL does not answer goes on with an empty
  map.
- **Readings at several times.**  A usage page, a listing and a history are put
  together from what is there at different instants.
- **A worker and its shutdown.** The select of the drain loop may take either case
  when both are ready; requests go on reporting while `Close` flushes.
- **Edges of windows.** A mark exactly one window old, an estimate that fits
  exactly, a bucket that is full.
- **Several steps of which one fails.** A failed query looks like a model that is
  not there; a refusal comes after half the limiter's work is done; a client goes
  away during a call.

What makes each component correct, in one sentence each:

- breaker: it opens on its own sample only, stays silent for a cooldown, and a
  half-open entry always has somebody who will decide it;
- limiter: no window of time holds more than the limits allow, and a refusal costs
  nothing and ends with its cause;
- pipeline: the answer is that of the first model able to serve, every provider
  call is recorded and metered once, 429 and 502 mean what they say, and every
  request ends;
- metering: what is accepted arrives once, in order, also through shutdown;
- sessions: a history holds what was appended to it, in order;
- authoring: an agent is what the requests that wrote it made of it, and a client is
  told what was so at some time during its request;
- provider calls: every upstream is sent the whole conversation, and the whole text
  of its answer reaches the client;
- usage page: it is always answered, and no figure the gateway or billing gave goes
  back;
- router: only models the request may use, all of them, in the order of the rule.

`PROJECT.json` lists every component, also those that are not modelled, and the
hazards with the line at which each bites.

## 2. The modules

| module | models | extends / uses |
| --- | --- | --- |
| `BreakerEntry` | the functions of a breaker entry: what `Allow` and `Record` make of it | |
| `BreakerContract` | what callers of a breaker rely on: three states, a bound on trials, and that a half-open breaker decides (abstract) | |
| `CircuitBreaker` | one entry under concurrent callers and a clock | `BreakerEntry`; instantiates `BreakerContract` |
| `CircuitBreakerProofs` | theorems about it | `CircuitBreaker` |
| `RateLimiter`, `MCRateLimiter` | `Allow` for several keys, with time | |
| `RateLimiterProofs` | theorems about it | `RateLimiter` |
| `MeteringReporter` | `Report`, the worker, the sink, `Close` | |
| `UsagePage` | `GET /usage` beside the worker that feeds it | `MeteringReporter` |
| `MeteringReporterProofs` | theorems about both | `UsagePage` |
| `ChatPipeline`, `MCChatPipeline` | `Complete` for concurrent requests, one breaker entry per model, the cache | `BreakerEntry`; instantiates `BreakerContract` |
| `ChatPipelineProofs` | theorems about it | `ChatPipeline` |
| `SessionTurns` | `SendMessage` for concurrent turns of a session on both repositories, backing arrays included | |
| `SessionHistory` | `GetChatHistory` beside the turns | `SessionTurns` |
| `SessionHistoryProofs` | theorems about both | `SessionHistory` |
| `Router`, `MCRouter` | `Resolve`, query by query | |
| `RouterProofs` | theorems about it | `Router` |
| `AgentAuthoring`, `MCAgentAuthoring` | the agent handlers, service and repositories, the catalog, restarts | |
| `AgentAuthoringProofs` | theorems about it | `AgentAuthoring` |
| `ProviderCall` | a completion from the handler through adapter and transport to the upstream and back | |
| `ProviderCallProofs` | theorems about it | `ProviderCall` |

Operators named `Faulty...` stand before the definition they are a plausible slip
of.  Nothing uses them: putting one in the place of the definition shows which
property notices.

### CircuitBreaker

`entry` is the Go struct, `now` the clock.  `Allowed`, `Refused` and `Return` are
`Allow` true, `Allow` false and `Record`, each one step because each holds the
mutex for its whole length.  `calling` is the set of request goroutines between
the two.  The error ratio is compared as a rational: correctly rounded division
of two small integers orders them as rationals.  `probing`, `lastTrip` and
`sample` are histories that the properties speak about; no guard reads them.

### RateLimiter

`Allow` is one step with four outcomes, one per return.  Request tokens are a
`float64` in the code that gains `qps` per second; here a second is `Second` units
of time and a request costs `Second` units of the bucket, so that refilling is
exact.  That leaves rounding out of the model.  `grants` is the history of what
was admitted, and the ceilings are stated about it, not about the marks.

### MeteringReporter

The worker's loop is `mode` ("serve", "flush", "done") and `stage` (idle, event
received, event being posted).  The sink is two steps because the totals are
visible to `/usage` before the post returns.  `Post` may or may not have been
ingested, and the sink returns in either case.

### ChatPipeline

A request's locals are a record; its audit rows and metering events are kept with
it.  There is a step for each access to shared state (breaker, cache), in the
order of the code.  The verdicts of risk control, router and limiter are free
choices: no property depends on when they are given.  A client that goes away
during a provider call cancels its context, and the error that `Chat` returns then
is recorded as any other: it is one of the reasons of `Failed`.

### SessionTurns

In memory, `heap` is the backing arrays, and a slice is an array and a length.
`AppendMessage` is Go's `append` under the lock: in place if there is room, else
into a new array of twice the capacity.  The append of `SendMessage` to its own
copy is outside the lock, where a message of several words is stored in two
steps, so that two stores that race leave halves of both.  On PostgreSQL `Select`
and `Update` are separate steps, either of which may fail, the second also after
it has taken effect.

### SessionHistory

A reader takes the slice header under the lock and copies message by message, a
step each, from the array the session had then.  On PostgreSQL the messages come
with the query.

### UsagePage

Each request for a page has a goroutine of its own, so there is a page for each,
put together beside the others.  `Ask` reads the totals; the two queries of
billing follow, each of which may be answered or fail, while worker and requests go
on.  When the query for the cost fails, the page has a cost of 0 and the gateway as
its source, as in the code.  `due` is the history of what the page must show at
least: every accepted call but those that may be in the channel or in the worker's
hands when it is asked for; `before` that of the pages answered by then, the only
ones a reader could hold against it.

### AgentAuthoring

A request is one to three accesses (`Get` or `List`, then `Save`, `Delete` or the
catalog), each atomic: a lock in memory, one statement on PostgreSQL.  `store`
holds what is in the map and in the database, of which the process uses the one it
found at its start; `Restart` empties the map, cuts requests off and finds either.
A statement may fail, the second also after it has taken effect.  Ids are readings
of the clock, as in the code, and two creations under way at once may read the
same.  A specification is its tenant, its status and the request its other fields
are from.  `ideal` is the history of what the repository would hold if every write
had read and written at one instant, `during` of what it held while a request was
under way.  Bootstrap leaves the agent catalog empty; `Put` is the projection of
`ai-platform-api` that the comment at `catalog/agents.go:9` announces.

### ProviderCall

Messages keep their place and their role; a reply is its status, whether its body
decodes, and its parts (OpenAI's choices, Claude's content blocks), each with its
place and whether it has a text.  `answer` and what is `written` are sequences of such
parts, so that a text that is dropped, doubled or moved is seen; numbers are left out.
A first choice without content is an empty answer, as in the code.  `Complete` is the
models it goes on to call; `Post`, `Unanswered` and `Replied` are the two transports,
`Echo` the stub of a model without credentials.

### Router

Each query of the catalog is a step, since each may fail on PostgreSQL.  A card
says what it says to the request at hand.  The order of a listing is free, as the
in-memory catalog goes through a Go map.  `Filter` takes the candidates, and after
`CapabilityJump` the listing, one by one (`SkipCandidate` passes over those of the
listing that were candidates, without a query); `Split` and `Compare` are the two
loops of `stableCostSort`.

## 3. The runs

Runs that must pass:

| run | what it shows | bounds, and why they are enough |
| --- | --- | --- |
| `breaker` | the entry is closed exactly as long as its own sample allows; a half-open entry has its probes under way and is decided; nothing is let through within a cooldown of the last trip; late outcomes do not prolong an outage; the contract with two trials is kept | three callers: two probes and a late call at once; a sample of three to trip and five at most; time for two outages |
| `limiter` | ceiling, token limit and request rate hold in every window and interval; a refusal changes nobody's room; a quiet key that fits is admitted | two keys, one without a request limit; seven instants, three seconds or one and a half minutes long, so that both windows slide off their first marks; an estimate that never fits |
| `metering` | nothing accepted is lost, doubled or overtaken; the post is sent at most once; `Close` flushes what came before it, and ends; every usage page is answered, shows what was due, and no smaller token figure, nor a smaller cost of billing's, than a page answered before it was asked for | a channel of one and three reports: it fills, drops, drains and fills again around `Close`, and a figure is due before the last report; two pages, one after the other or both at once, which is all the property compares |
| `chat` | see below | two requests for one cache key; a chain longer than the two attempts, chains that begin with a model without an adapter; breakers trip at once, time for two cooldowns |
| `chat_contract` | no path through the loop takes the breaker's permission without reporting back, and the entry keeps its contract under the pipeline | three requests: one trips the entry and two probe it |
| `session` | without overlap the history and the prompt are exact; with overlap what was stored before is untouched, the in-memory list keeps its length, the PostgreSQL list invents and reorders nothing; a reader sees all that had settled | two turns and a reader; sessions of zero to seven messages, so that the array is full or has one, two or three places left |
| `router` | whatever fails, only models the request may use, none twice; none lost; the stable order by cost | every catalog of up to three models with seven kinds of card, three requests, two failing queries |
| `agents` | an agent that no two writing requests had in hand at once is exact; however they overlap, none is lost; 404s, summaries, reads and confirmed writes are honest; so is a listing | three requests: a creation and two that overlap, or one before and two after a restart; two tenants, two ids, one of which the catalog may have; either repository at each start |
| `provider` | each upstream is sent every message once, in the client's order, with the system messages where its protocol has them; a call that an upstream serves is answered to the end, and no failure is; the text the client gets is all that the reply has for it, once and in order | up to three messages and two calls, so that each protocol comes after each; replies of up to two parts, each text or not, in each status: two texts, a text after a part without one, and none |

`chat` checks that 429 is answered exactly when the limiter refused the whole
chain, that a request makes at most `MaxAttempts` calls and none twice to one
model, that each call is metered once and in order, that the answer comes from
the first model not passed over and names the preferred one, that a request gives
up only when calls or chain are spent, that the cache holds only answers a
provider gave to a request of that key, and that every request ends.

Behaviours of all models end, because the clock, the number of reports and pages or
the number of requests is bounded or because one call is modelled; every cfg says so
where it switches the deadlock check off.  In `CircuitBreaker` `MaxSample` bounds
how many calls a closed entry may take, `RateLimiter` has `MaxTime` and
`MaxGrants`, `MeteringReporter` `MaxReports`, `UsagePage` `MaxPages`, `Router` `MaxFailures`,
`AgentAuthoring` `MaxClock` and `MaxRestarts`, `ProviderCall` `MaxMessages`,
`MaxCalls` and `MaxParts`: no other bound limits a behaviour.

Runs that must find a violation, where the code does something else than the
repository says:

| run | what the repository says | what the run finds |
| --- | --- | --- |
| `single_probe` | `breaker.go:88`: "allow a single probe" | the call that finds the cooldown over is not counted: two calls at once |
| `session_memory` | `handler.go:295`: "persists both the user and assistant turns" | the append outside the lock overwrites a message another turn has stored |
| `session_postgres` | `repository.go:196`: "load current messages, append, persist atomically" | two appends that read the same list keep one message |

Four more disagreements were met that no run is about:

- `docs/SKILLS.md:30` gives the provider's error rate as the breaker's trigger;
  `Complete` records the error of a cancelled context too (`chat/service.go:141`),
  so that clients who disconnect open the breaker of a provider that never failed.
- `docs/SKILLS.md:17` lets a preferred model with `health != healthy` give way;
  `Resolve` passes over "down" only (`router.go:86`), so that a degraded model stays
  preferred.
- `cmd/main.go:194` and `billing/client.go:6` say that the usage page answers 502
  when billing is down; the adapter answers 200 with what the gateway knows.
- `provider/httpclient.go:64` says that a Qwen model may use the `OPENAI_*`
  variables; `TransportFromEnv` does not look at them for it.

Three more are decisions of the code that no document contradicts.  A successful
reply of Claude without any text, and one of OpenAI whose first choice has no
content, are empty answers (`httpclient.go:271` and `:182`), where one of OpenAI
without a choice is an error.  Of several choices only the first is passed on.  And
a usage page for which billing did not answer shows a cost of 0, which may be less
than on the page before (`main.go:208`); only its source, "gateway", tells that this
is no figure of billing's, so `PagesNeverGoBack` compares costs of pages that have one.

### Fairness

- `CircuitBreaker`: each caller's `Return`.  The HTTP client has a timeout of a
  minute and `Complete` records the outcome before anything else.  Nobody is
  bound to ask, and the clock is not bound to be read.
- `ChatPipeline`, `SessionTurns`, `Router`: each request's own steps.  A request is
  a goroutine; no step waits for another request.
- `UsagePage`: each page's queries too, which have the same timeout.  `ProviderCall` assumes
  that calls and handlers go on; `AgentAuthoring` assumes nothing and checks no
  liveness, since a restart may cut any request off.
- `MeteringReporter`: the worker, whose post has a timeout of five seconds, and
  the return of `Close` once the worker is done.  Nobody is bound to report or to
  call `Close`.  `CloseEnds` holds because reports are bounded: the flush of the
  code ends only when it finds the channel empty.

## 4. The proofs

Every safety property that a passing run checks is proved, for all values of the
constants that the module's assumptions allow.  Each proof is along the same line:
`IInv` holds initially, every step keeps it, with a lemma or step for each action,
so that it is an invariant of `Spec`, and it implies the property.  Each invariant
was found to hold by TLC first.

Recursive functions and folds need an argument of their own.  Induction theorems
that take an operator are beyond the provers, but the library's
`WFMin` takes none: a set that is not empty has a least element in a well-founded
order.  So what a recursive function does is proved from a minimal counterexample:
the set of arguments for which it does something else has a least one, and for
smaller arguments the function does what it should.  `LeastNatural` is this for
numbers; for folds over a set the order is that of strict subsets
(`FS_StrictSubsetOrderingWellFounded`).

### CircuitBreakerProofs

For every finite set of callers, from `BreakerConfig`, `CallersAssumption` and
`BoundsAssumption`:

| theorem | states |
| --- | --- |
| `TypeCorrect` | `[]TypeOK` |
| `HalfOpenIsNeverOrphaned` | `[]HalfOpenHasItsProbes` |
| `TripsOnItsSample` | `[]ClosedWhileSampleGood` |
| `NoCallWithinCooldown` | `SilentAfterTrip` |
| `LateOutcomesDoNotExtend` | `OutageNotExtended` |
| `BreakerKeepsContract` | every behaviour satisfies the contract's initial condition and next-state relation |

The inductive invariant has five parts.  `TypeOK`, `HalfOpenHasItsProbes`
and `ClosedWhileSampleGood` are not inductive together: the counters the code
evaluates are those of the entry, the property speaks of the outcomes since the
entry last became closed, so `CountersMatchSample` says that in the closed state
they are the same; and what `Allow` compares with the clock is `openedAt`, so
`TripTimeKept` says that in the open state this is the time of the last trip, and
that in the half-open state a whole cooldown has passed since.  The action
properties and the refinement follow from it one step at a time.

### RateLimiterProofs

For every set of keys, every limit (zero included) and every pair of windows, from
`LimitsAssumption`:

| theorem | states |
| --- | --- |
| `TypeCorrect` | `[]TypeOK` |
| `CeilingHolds` | `[]GlobalCeiling` |
| `RateHolds` | `[]RequestRate` |
| `RefusalsAreFree` | `RefusalIsFree` |
| `TokensHold` | `[]TokenCeiling` |
| `QuietKeysAreAdmitted` | `[]QuietKeyIsAdmitted` |

The ceiling counts marks that every call prunes; the property counts
reservations.  `MarksComplete` relates them: the marks include every reservation
of the last second.  Then a reservation admitted below the limit is one more than
fewer, and a tick of the clock only takes reservations out of the window.  The
rate is about every interval, of which the bucket knows nothing;
`RoomIsEarned` says that what a key was admitted since *any* time, together with
what it could still reserve now (`Room`, the bucket as the next call would find
it), is at most a full bucket and the gain since.  A reservation moves `Second`
units from one term to the other, a refusal moves none (refilling twice at once is
refilling once), a tick adds at most the rate to both sides, and the cap only
lowers the left.  `RefusalsAreFree` needs one thing more, `Numbered`: a granted
step does add to the history, so that a step that leaves the history alone is a
refusal.

The token limit is that of the ceiling with sums in place of counts: `TokenMarks`
says that a key's marks include all its reservations of the last minute, and a group
of lemmas that the sum over a set of marks is additive and grows with the set, which
the fold gives by a least counterexample.  That a quiet key is admitted needs the
bucket from below, where `RequestRate` needs it from above: `RoomComesBack` says
that a key not admitted since some time has at least the room it gained since then,
up to a full bucket.

### MeteringReporterProofs

For every capacity of the channel and every number of reports, from
`MeteringAssumption`:

| theorem | states |
| --- | --- |
| `TypeCorrect` | `[]TypeOK` |
| `AcceptedStays` | `[]NothingLostOnTheWay` |
| `CloseReturnsFlushed` | `[]CloseFlushes` |
| `NeverBilledTwice` | `[]BilledAtMostOnce` |
| `PagesGrow` | `[]PagesNeverGoBack`, of `UsagePage`, for any number of pages |

`NothingLostOnTheWay` is inductive with the types.  That `Close` flushes needs
`ShutdownInOrder`: the worker is done only after a flush that found the channel
empty, by when the sink has at least what had been accepted at `Close`, and
`Close` returns only then.  `BillingInv` is kept by steps from `IInv`: events are
numbered in the order they are accepted (`AcceptedInOrder`), and what is being
posted is the last that was sunk and younger than all that was billed
(`PostsTheLast`).

A page is put together from readings at three times, beside other pages.  `PageInv`
orders the readings: what a page has read is at most what is counted now, and at
least what any page in its `before` shows; and so for a cost it has from billing.
Both counts only grow, since `sunk` and `billed` only grow, and pages in a `before`
are answered and change no more, which is why pages do not disturb each other
(`OnePageChanges`).  That what was due is shown follows from `AcceptedStays`: accepted
and not yet sunk are at most the channel and the worker's one event (`DueIsSunk`).
A page waits for billing while the worker goes on, so the invariant is kept by the
steps of both.

### AgentAuthoringProofs

For every set of requests and tenants, every clock and any number of restarts, from
`AuthoringAssumption`:

| theorem | states |
| --- | --- |
| `TypeCorrect` | `[]TypeOK` |
| `QuietAgentsAreExact` | `[]QuietAgentIsExact` |
| `NoAgentIsLost` | `[]AgentsAreNotLost` |
| `RequestsAreTold` | `[]AnswersAreHonest` |
| `ListingsAreTrue` | `[]ListingIsHonest` |

Every step of a request is of one of three shapes (it starts, it reads, it takes
effect), which a first group of lemmas shows; the rest of the proof speaks of the
shapes only.  `TypeInv` adds to the types that what a request does goes with what it
was asked.  For the first property `QuietInv` says that an agent outside
`overlapped` has at most one writing request in hand (`Alone`), and that what that
request has read is still what is stored (`ReadIsCurrent`), so that writing it back
is what `ideal` does.  For the second, `LostInv` follows the tenant instead: what is
stored, and what a request is about to save, was created by some request with that
id (`StoredIsMade`, `SavingIsMade`), and what is ideally there is really there and
from the same writer.  For the last two, `HonestInv` says of each request, at each
place it can be, that what it holds was in the repository during it.  A restart
ends all requests under way, which is why it disturbs none of the four.

### ChatPipelineProofs

For every set of requests and models, every family of chains without duplicates,
every number of attempts and every configuration of the breaker, from
`PipelineAssumption` and `BreakerConfig`:

| theorem | states |
| --- | --- |
| `TypeCorrect` | `[]TypeOK` |
| `HalfOpenIsNeverOrphaned` | `[]HalfOpenHasCall` |
| `LimitsAreToldHonestly` | `[]TooManyRequestsIsHonest` |
| `CallsStayBounded` | `[]CallsAreBounded` |
| `EveryCallIsMetered` | `[]CallsAreMetered` |
| `FirstModelAnswers` | `[]AnswerIsFirstToServe` |
| `NobodyGivesUpEarly` | `[]GivesUpLast` |
| `CacheIsTrue` | `[]CachedAnswersAreReal` |
| `PipelineKeepsContract` | every behaviour satisfies the contract's initial condition and next-state relation, for any one model |

What is said of a request that has ended is the outcome of its loop, so the
invariant is a loop invariant: `RequestInv` speaks of one request's record.  With
`Before` for the models left behind, `CallInv` says that calls went to models of
`Before` and the current one only, hence to none twice; `LimitInv` that as long as
`limitedAll` is true the limiter's rows are `Before` exactly and no call was made,
and once it is false some model tried has no such row; `ServeInv` that every model
of `Before` was passed over.  A first group of lemmas shows that the kinds of step
a record can make (it goes on, starts a call, is served, is stored, gives up) keep
`RequestInv`; a second that each action is one of them and moves one request only.
For the shared entries two facts are added: a model without a provider is never
recorded, so that its entry stays closed and `NoProvider` changes nothing
(`EntriesInv`), and a call under way is one to a model with a provider.

### SessionHistoryProofs

For every set of turns and readers, on a session of any length and either
repository, from `SessionAssumption`:

| theorem | states |
| --- | --- |
| `TypeCorrect` | `[]TypeOK` |
| `QuietHistoryIsKept` | `[]QuietHistoryStays` |
| `EveryAppendHasItsPlace` | `[]AppendsAreCounted` |
| `SerialTurnsAreExact` | `[]SerialIsExact` |
| `RowInventsNothing` | `[]NothingInvented` |
| `HistoriesAreHonest` | `[]HistoryIsHonest`, of `SessionHistory` |

The invariant has a part for each property, over a common `Base`: types, every slice
within its backing array (`SlicesOK`), each repository with steps of its own
(`PathsOK`).  `LogInv` says whose the messages in the log are, and that none is there
twice.  `QuietInv` is why turns that overlap do not reach what had settled: a
turn's own copy is no shorter than that (`base`), so that what it stores outside the
lock lands behind it; and on PostgreSQL whatever a turn has read and will write back
begins with it.  `RowInv` says of the row *and* of each list read from it
that it is kept from the log in order (`KeptFrom`), so that writing back an old list
loses messages but invents none.  `SerialInv` follows the only turn under way through
its steps: what it knows of the session is the session (`InStep`), even while it stores its
question a second time, half by half, since it does so over the same message.  For
`HistoriesAreHonest`, `ReaderInv` says what a reader has been shown and what is still
in the array it copies from (`ToShowOK`), which may by now not be the session's:
turns store only behind what the reader is bound to show (`StoresBehind`).  The
capacity of a new array, a recursive function of the appends in the code's `append`,
is defined for every length and never less than it (`CapOfIsDefined`,
`CapacitySuffices`).

### RouterProofs

For every catalog, every request and default chain over a finite set of models and
any number of queries that fail, from `RouterAssumption`:

| theorem | states |
| --- | --- |
| `ResolveInvariant` | the inductive invariant |
| `DecisionsAreViable` | `[]OnlyViableModels` |
| `DecisionsAreComplete` | `[]NoViableModelIsLost` |
| `DecisionsAreInOrder` | `[]CostOrder` |

`Resolve` is a pipeline of loops, and the invariant has a loop invariant for each.
`FilterInv`: no model is both looked at and to be looked at, and without a failure
what is kept and what is still to be kept are together all that may be used.
`SplitInv`: the two lists and the rest are the viable models, each in their order.
`SortInv`: the part of the third-party list before `upto` is in order but for the
model on its way to the front (`Inserting`), where a tie keeps the order of the
candidates, so that the sort is stable.  Failures make it disorderly, but `Parted`
and what the lists hold together do not depend on them, hence nothing is lost or
doubled.  That the candidates are without duplicates comes from `dedupe`, a fold
over the list, by a least set of places for which it fails.

### ProviderCallProofs

For every number of messages, calls and parts of a reply and every configuration,
from `ProviderAssumption`:

| theorem | states |
| --- | --- |
| `WiresAreFaithful` | `[]WireIsFaithful` |
| `AnswersArrive` | `[]ServedIsAnswered` |

`PostInv` says that what is posted is made from the client's messages, whatever was
called before; that it holds each message once and in order is a fact about
`Chosen`, what a loop keeps of a sequence, proved for every sequence by a least
counterexample (`ChosenIs`).  The same lemma gives what the transports take from a
reply (`ContentIs`).  `AnswerInv` follows the answer through the handler: nothing is
written before it is there, what is written has it whole (`Real`, `Complete`), and no
reply that serves leaves the call open.

### Only model-checked

Liveness: `AcceptedIsSunk`, `CloseEnds`, `PagesAreAnswered`, `EveryRequestEnds` and,
in `KeepsContract`, the fairness part of the contract, by which a half-open entry
decides (its initial condition and next-state relation are proved, as
`BreakerKeepsContract` and `PipelineKeepsContract`).  The prover does not reason
about `ENABLED`, and so not about `WF`.  The three properties that are expected to be
violated are refuted by TLC on small instances, which is all that a counterexample
needs.

## 5. What is not modelled

- Texts: scanning, redaction, token estimates, JSON, configuration files, and in
  what is sent to providers everything but the order and place of the messages.
  Verdicts that follow from texts are free choices.
- What arrives after its sender has stopped waiting: a usage post that billing
  ingests after the sink's timeout, and a statement that PostgreSQL executes after
  the process has died.  "In order" of `BilledAtMostOnce` is the order of sending.
- A row whose stored messages do not decode, which nothing in the program writes:
  `AppendMessage` would begin again with an empty list (`repository.go:203`).
- What a restart costs the usage page: the totals are in memory and begin at zero, so
  `PagesNeverGoBack` is about one run of the process, and about one of billing's periods.
- Floating-point rounding in the token bucket, and counters beyond 2^26 calls in
  the ratio of the breaker.
- Opening a session and the list of models (one access each, with nothing it could
  meet on the way), authentication, storage and tracing: no state, or I/O only.
- Uploads (`UploadFile`, `fileUpload`): a store and a scan that depend on file names
  and contents.  That a rejected file stays stored is listed as a hazard.
- The seeding of the model catalog at a start, and migrations.
- `memory.MeteringRepository`: nothing in the program uses it.
- `ForceSelfHost` and `QuotaExceeded` of the router, which `Bootstrap` does not set,
  and the wording of `Reason`.

## 6. The plan

Done, in this order: breaker with its contract and proofs, limiter, metering,
pipeline, session turns, router, the proofs about metering and limiter, agent
authoring with its proofs, histories, usage page, provider calls, the proofs about the
pipeline, about tokens and quiet keys, usage pages, sessions and histories, router and
provider calls.

Next modules:

1. `Gateway`: pipeline, limiter and router composed, in place of the free choices
   of `ChatPipeline`: what is charged for models that are then not called, and
   what a failed read of a card lets through.
2. `Catalog` with its seeding at start on a shared database.
3. `Uploads`: a file that is stored, scanned, rejected and still there.

Next theorems, in the order of their worth:

1. `MeteringReporter` as a refinement of a queue that loses nothing it has
   accepted and forgets only what it refuses.
2. `SessionTurns` as a refinement of a list with an atomic append, as long as turns do
   not overlap.
3. `AgentAuthoring` as a refinement of a map of agents, as long as no two writing
   requests overlap.
