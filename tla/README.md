# Formal models of sentinelbuild_observability

TLA+ models of the telemetry path of this repository, TLC configurations that
check them on small instances, and TLAPS proofs of their main properties for
every value of the constants. Source paths are relative to the repository;
`ingest.py` and its neighbours are in `gateway/src/obs_gateway/`, `client.ts` in
`clients/react/obs-telemetry/src/`, `client.dart` in
`clients/flutter/obs_telemetry/lib/src/`.

    tlc -config client_delivery.cfg TelemetryClient       # a run
    tlapm TelemetryClient_proofs.tla                      # a proof

`PROJECT.json` lists the runs, the lines each definition models, a mutant of the
code for every property (an operator named in a `\* Mutant:` comment beside the
definition it replaces), the hazards and the theorems.

## 1. The system

Browsers and phones run a **telemetry client** that batches log events and posts
them to the **gateway**. The gateway authenticates (optionally), limits the rate
per address, drops short-window duplicates, and hands each event to an
OpenTelemetry exporter towards the **collector**, which feeds Loki, Tempo and
Prometheus. The gateway also probes these components; while a trigger component
is down it copies events to a local file.

| component | state | operations | interacts with |
|---|---|---|---|
| React client (`client.ts`) | queue, dedupe map, timer, in-flight promise, back-off flag, unanswered keepalive requests | start, dispose, enqueue, flush, interval, drain between its awaits, flushOnUnload | application (calls), page-hide events, gateway (HTTP) |
| Flutter client (`client.dart`) | queue, dedupe map, timer, in-flight future, closed HTTP client | start, dispose, enqueue, flush, timer, `_drain` between its awaits | the same |
| event models (`models.ts`, `models.dart`) | the JSON object being built | `toWire`, `toJson`: caps and cuts | must agree with the validators of `ingest.py` |
| facades, handlers, trace | one global client, registered callbacks | init, log, report, dispose | client |
| ingest (`ingest.py`) | `_hits`, `_recent` | `_rate_limited`, `_is_duplicate`, `ingest` | auth, emitter, monitor, fallback files |
| emitter (`emit.py`) | providers and loggers per app | emit, shutdown | OpenTelemetry SDK, collector |
| stack monitor and fallback log (`stack.py`) | last observations, open handlers, counters, gauges, two files | check_once with concurrent probes, run, write_event, write_health, close | components (HTTP), ingest (`fallback_active`) |
| auth, authz (`auth.py`, `authz.py`) | none | decode a token; decide, perhaps by asking an RBAC service | ingest, edge proxy, `/status` |
| fleet health (`health.py`) | none | probe and aggregate | services |
| application shell (`main.py`) | lifespan task, bytes received of each body | body-size limit, start, stop | all of the gateway |
| configuration, metrics | none / counters | parse; export | all of the gateway |
| collector, edge, Loki, Tempo, Prometheus, Grafana | third party | configuration files only | gateway |

What is hard here, and what correctness means:

- **Clients.** A drain awaits a token and then each request; meanwhile the
  application enqueues, the queue overflows, the page hides and keepalive
  requests fail. No event may be lost, doubled, or evicted while there is room;
  the order of acceptance and the bounds must survive retries; nothing may stay
  queued for ever while the interval runs.
- **Limiter and deduplication.** Both forget: they prune tables above a limit.
  Forgetting must not change a rate-limit decision, may defeat the deduplication
  only under a flood, and must keep memory bounded.
- **Wire caps.** Limits in three units of measure; whatever the application
  reports, the batch must not be refused because of it, and no more may be lost
  than the limits take.
- **Monitor.** Probes answer at different times while the world changes; what
  the health file says, what the gateway believes and what the gauge shows must
  agree; every lasting outage and recovery must be noticed, also after a restart
  that loses the memory but not the files.
- **Client and gateway together.** A client that gives up after four seconds does
  not undo its request; the gateway may handle a batch while, or after, the client
  sends it again, and it forgets everything when it restarts. What counts as sent
  must be stored, and be stored once, but for reasons that can be listed.
- **Life of the process.** An outage of the collector is noticed late; a crash or
  SIGTERM comes in the middle of requests. Nothing accepted may vanish without a
  trace but in the gap that the checks leave, and a graceful stop leaves nothing.
- **Guards.** The RBAC service can fail, be late, or change its mind; each
  combination of settings and credentials must let in whom it should and no more.
- **Handler.** A batch is refused as a whole or processed event by event with
  side effects on four components; a refused batch must leave no trace.

## 2. Modules

| module | models | run |
|---|---|---|
| `TelemetryClient` | `client.ts`, and its refinement of the mailbox | `client_delivery` |
| `ClientContract` | `client.ts` with history variables: what callers observe over time | `client_contract` |
| `LossyMailbox` | abstract specification of what a client promises | as a property |
| `FlutterClient`, `MCFlutterClient` | `client.dart`, and its refinement of the mailbox | `flutter_delivery` |
| `SlidingWindowLog` | abstract specification of the rate limit | as a property |
| `RateLimiter` | `_rate_limited` | `limiter_window` |
| `Deduper` | `_is_duplicate` | through `delivery`, `gateway_ingest` |
| `Delivery`, `MCDelivery` | a Flutter client, the network and the gateway's deduplication | `delivery` |
| `Emitter` | `emit.py` | through `lifecycle`, `gateway_ingest` |
| `FallbackLog` | `FallbackLog` of `stack.py` | through `stack_health`, `gateway_ingest`, `lifecycle` |
| `StackMonitor`, `MCStackMonitor` | `StackMonitor` of `stack.py` and its restarts | `stack_health` |
| `WireEvent`, `MCWireEvent` | `toWire` (`models.ts`), `toJson` (`models.dart`), the validators of `ingest.py` | `wire_caps`, `wire_half_character` |
| `Gateway`, `MCGateway` | `ingest`, composing limiter, deduplication, emitter, monitor and fallback log | `gateway_ingest` |
| `Lifecycle`, `MCLifecycle` | `main.py` and `_client_ip` around emitter, monitor and fallback log: body limit, stop, crash, restart, export | `lifecycle` |
| `Authz` | `auth.py`, `authz.py`: tokens and decisions, as operators | through the next |
| `OpsEndpoints`, `MCOpsEndpoints` | `/status`, `/status/stack` and `/authz/verify` behind their guards (`health.py`, `authz.py`) | `guarded_endpoints` |
| `*_proofs` | theorems and their lemmas: `Delivery_proofs` also those of `Deduper`, `Gateway_proofs` of `StackMonitor`, `Lifecycle_proofs` of `Emitter`, `TelemetryClient_proofs` of `ClientContract` | |

### Correspondence

**TelemetryClient.** JavaScript runs one callback at a time, so an action is one
run of a callback. `drain` is the coroutine behind `this.inFlight`: `"token"` at
the await of `resolveToken()`, `"sending"` at the await of `send()`, `"settling"`
when `drain()` has returned and the `.finally()` that clears `inFlight` is still
queued as a microtask. Microtasks of one task run before the next task, hence
`Tick` and other tasks of the browser's timer cannot run while settling, whereas
the application, itself possibly a microtask, can call `enqueue` or `flush`.
An event is its number in `history` (all accepted events) and the size of its
JSON; `fate` records what became of each. `flushOnUnload` splits the whole queue
in one synchronous loop: a *cut* is the set of positions where a chunk ends, and
`IsUnloadCut` says that every piece is what `takeChunk` takes there. An event
that `send` answers with `'retry'` goes back by `Requeue`. Without `fetch` the
constant `Transport` selects `sendBeacon` or nothing. Message text, headers and
the signature string are abstracted; a suppressed `enqueue` is a stuttering step
(`ClientContract` makes it a step in order to talk about it).

**FlutterClient.** The same, with Dart's differences: an async function that has
awaited completes its future synchronously, so there is no settling state; eager
flushes are not suppressed after failures; pruning of the signature map removes
only expired entries; `dispose()` closes the HTTP client for good, and a request
posted afterwards (`"refused"`) can only fail; chunks are cut by count alone, so
an event has no size. `DateTime.now()` is a wall clock: `ClockSteps` says how it may
move, and whoever sets the phone's clock back moves it back.

**RateLimiter, Deduper.** Neither function awaits: a call is one action. `hits`
and `recent` are the two module-level dictionaries. `log`, `verdict`, `calls` and
`calledAt` are histories. A signature stands for the SHA-256 digest of sender,
type, body and stack.

**Emitter.** The set of registered loggers; `Emit` chooses whether building a
provider or emitting raises, and whether the logger was registered before it did.

**FallbackLog, StackMonitor.** `_write` tries to open a handler on each write
until one opens. A check is three kinds of step: `ProbeReturns` per component,
reading the component's health at that moment; `CheckEnds`, all of the code after
`gather`, which has no await; `SleepEnds`. `MonitorRestarts` may strike anywhere
and keeps only the files. `up` is the world; `missed` is a history that says that
a health record could not be written. Rotation of the files is left out: a file is
all the records that reached it.

**WireEvent.** One event on its way through `toWire` or `toJson`, one step per
cut, with the client library as part of the input. Lengths are what is hard here:
the clients count UTF-16 units, the gateway's field limits characters, the event
limit bytes. Text is therefore a sequence of *kinds* of units: one byte, an escape
of two, an escape of six, and the two halves of a wide character, four bytes
together but a six-byte escape each when alone (both JSON encoders escape lone
surrogates). Sums over text and context are written as cardinalities, which the
prover can reason about where it could not about a fold. Names and ids are reduced
to whether the gateway's patterns accept them. `GatewayAccepts` is translated from
the validators: the limits (`WithinLimits`), and that every text can be encoded
(`Encodable`), which half a character, sent as an escape, cannot: `encode()` and the
limited string fields fail on it. Whole characters are an assumption about what is
reported, named `WellFormedReport` in the proofs and true of the inputs of the runs.

**Gateway.** `Receive` starts at the handler: the batch is validated, the sender
known. `RateLimited`, `IsDuplicate`, `Emit`, `WriteEvent` are the actions of the
component modules. The handler does not await, so `CheckEnds` and `SleepEnds`
wait until it is idle; but each event is an action of its own because time passes
and the world (components, directory) changes while it runs.

**Delivery.** `FlutterClient` and `Deduper` as they are, joined by the network.
`mine` is the request behind the drain that awaits it, `late` those that the client
has given up (`TimesOut`) and that still travel. `Handles` is one turn of the loop
in `ingest`; as the handler has no await, at most one request is being handled.
A batch that is refused leaves nothing behind (`RefusedIffTooLarge`,
`DuplicateHasOriginal`), so it is a request that failed or was dropped.
`GatewayRestarts` empties the table and cuts off the request that was being
handled. The sender in a signature is the token's user or else the address, hence
`who`, which may differ from drain to drain. The app may dispose of its client and
does not start it again; phone and gateway share one clock, which only moves forward
(`Phone` has `ClockSteps <- {1}`; `FlutterClient` is where it is set back).

**Lifecycle.** `phase` is how far uvicorn and `lifespan` have come: on SIGTERM
uvicorn accepts nothing more (`Sigterm`) and waits for the running requests
(`Drained`), then the code after the `yield` runs: `Flush`, `Close`. A request is
read in pieces (`Receive`) and counted as in `limited_receive`; of the handler
only the fate of one event is kept. The batch processor of OpenTelemetry is
external: it holds a record (`"buffered"`) until it exports it (`Export`), to a
collector that is up, or loses it. `Crash` can come at any moment. `up`, `unseen`
and `checkSawUp` say what the monitor could know. `FallbackEnds` in `Crash` is the
operating system closing the files.

**Authz, OpsEndpoints.** A token is a model value with claims; `Principals` is a
set, because with a JWKS the key may not be obtained and the token then counts for
none. A request runs up to its first await (`Arrive`), which is the question to
the RBAC service (`"deciding"`) or the probes (`"probing"`). Requests share
nothing, so one is followed. Both routes that ask for an action ask without a
tenant; the tenant rule of `StaticAllows` is translated but no route reaches it. A
path is a sequence of parts, `?` among them.

## 3. Runs

Bounds: every clock (`MaxNow`), log (`MaxLog`), history (`MaxEvents`, `MaxCalls`,
`MaxRecords`) and disturbance (`MaxPageHides`, `MaxChanges`, `MaxRestarts`) is
capped in a guard. `CHECK_DEADLOCK FALSE` is set where all steps use up such a
bound (limiter, gateway, delivery, lifecycle) or the one request is answered
(guarded endpoints); clients and monitor never stop, and deadlock is checked for
them. `lifecycle` and `delivery` use symmetry of alike model values; they have no
liveness property, so that is sound.

| run | instance | why it is enough | shows |
|---|---|---|---|
| `client_delivery` | 1 signature, sizes 2 and 4, batch 2, queue 2, budgets 8 and 6, 3 events, 2 page hides | 3 accepted events overflow a queue of 2, also when a chunk of 2 returns; both byte budgets cut some but not all pairs; two page hides give several unanswered keepalive requests next to a drain | `EachEventInOnePlace`, `WithinLimits`, refinement of `LossyMailbox`, `EveryEventSettles` |
| `client_contract` | 3 signatures, table of 2, window 2, 5 events, no page hides | a flood needs more signatures than the table has places, and a fifth event to slip through | `InOrder`, `EvictsOldest`, `NoEagerFlushAfterFailure`, `ForgetsOnlyUnderFlood` |
| `flutter_delivery` | 2 signatures, batch 2, queue 3, window 1, pruning above 1, 4 events, a clock that ticks from 0 to 2 and may be set back to 0 | overflow, a part batch, pruning with live and expired entries, dispose and restart; a repetition after the clock was set back, with and without a pruning before | `InOrder`, `EvictsOldest`, refinement of `LossyMailbox`, `EveryEventSettles`, `ForgetsOnlyIfSetBack` |
| `limiter_window` | 3 clients, limit 2, window 2, table of 1, clock to 4, 4 admissions | tables above the limit with live and idle clients; entries exactly at the edge of the window | `NeverOverLimit`, refinement of `SlidingWindowLog`, `OutgrownOnlyByLiveClients` |
| `stack_health` | 3 components, 2 triggers, 3 changes, 1 restart, unreliable directory | two triggers can flip in one check in opposite directions | `HealthLogExplainsState`, `OutageDetected`, `RecoveryDetected` |
| `gateway_ingest` | 1 address, 1 user, 2 bodies, limit 1, batches up to 2, 3 calls, 1 trigger that changes once, unreliable directory | a refused batch retried later; the outage begins and ends between events; the file cannot always be opened | `DuplicateHasOriginal`, `EventsLogExact` |
| `wire_caps` | lengths of 1 to 4 units and 24 bytes, the real limits scaled down; texts up to 3 characters of 4 kinds, contexts up to 3 entries, 140,000 inputs | each limit can be hit, also within a wide character; each field can be given up but the message, which alone always fits, as it does in the code | `RefusedOnlyForACut`, `NoHalfCharacter`, `OnlyAsNeeded`, `CappingEnds` |
| `delivery` | 2 events of 1 signature, batch 2, 2 identities, a table of 1, 1 other sender, window 1, 1 late request, 1 restart, 3 calls per life | each reason for storing twice occurs: a late request handled before and after its retry, a restart between, an expired entry, a flood (2 signatures are one too many), a login between two drains; dispose with a request out; a batch of two is cut off in its middle | `StoredTwiceOnlyIf`, `SentIsStored`, `MetInOrder`, `SlipsThroughOnlyUnderFlood` |
| `lifecycle` | 1 client behind 2 proxies, forged header or none, bodies of 2 and 3 at a limit of 2, whole or in pieces, the collector changes twice, 1 restart, 2 apps and 1 provider place, 2 events | an outage between two checks and during one; a body exactly at the limit, and one over it only in sum; SIGTERM in the middle of a body; a second app meets a full table | `RefusedIffTooLarge`, `ChargedToItsSender`, `NoSilentLoss`, `StopsClean`, `ProvidersBounded`, `Attributed` |
| `guarded_endpoints` | all 36 combinations of settings, 4 tokens (one does not verify, one without a tenant, one with three roles), all header, cookie and key combinations, 4 URIs, 2 targets, 2 changes of mind | every row of the decision table and each failure of the service; both targets can change while probed, a decision be revoked and restored | `FailsClosed`, `RefusedForAReason`, `RollupIsFresh`, `MoreRolesNeverLess`, `EveryRequestAnswered` |

Every property of these runs is violated when the code is changed by its mutant.

Two runs state what a document or comment says and show that the code does
something else:

| run | statement | what happens |
|---|---|---|
| `wire_half_character` | USER_MANUAL.md:822, of a 422 for an invalid field or too long text: "The client libraries prevent this automatically" | Dart's `substring` caps a text through a wide character (models.dart:77, 114, 121) and leaves half of it, which the gateway refuses; the smallest case is a message one unit too long that ends in such a character |
| `stack_recovery` | NFR-10, recovery is recorded | the first healthy observation after a restart is not recorded (stack.py:125), so an outage stays the last record |

### Fairness

- Clients: weak fairness of the timer, of the continuations of promises and
  futures, and of the answers of requests: runtimes run what is ready, and each
  fetch ends by an answer or by the 4 s timeout; keepalive requests are ended by
  the browser. Strong fairness of `ChunkSettled`/`ChunkAnswered` is an assumption
  about the environment, not the code: a gateway that answers 503 for ever keeps
  events queued for ever. `EveryEventSettles` further assumes that the timer stays
  on (and, in Flutter, that the client is not disposed).
- Monitor: weak fairness of every probe (`health_timeout_seconds` bounds it), of
  the end of the check and of the sleep. None of the world, the directory or the
  restarts. `OutageDetected` and `RecoveryDetected` speak only of outages and
  recoveries that last.
- Guarded endpoints: weak fairness of the RBAC service's answer or failure, of each
  probe, and of the rollup. The first two rest on `authz_timeout_seconds` and
  `health_timeout_seconds`, which httpx applies to each network operation: a
  service that keeps sending a byte at a time would have to be bounded elsewhere.
- Capping: weak fairness of the next step, that is, the function runs.
- Nothing else is assumed fair; `delivery` and `lifecycle` check safety only.

## 4. Proofs

TLAPS proves, for all values of the constants that satisfy the named ASSUMEs and
the hypotheses given here. In each module the theorems follow from one inductive
invariant; what the property says is rarely inductive, and the last column says
what had to be added.

**Clients** (`TelemetryClient_proofs`, `FlutterClient_proofs`, `WireEvent_proofs`)

| theorem | property | argument |
|---|---|---|
| `TypeCorrect`, `LimitsHold` | `TypeOK`, `WithinLimits` | `LimitsInv`: both, plus finiteness of the signature table, which `pruneRecent`'s bound needs. Queue: `TrimFacts`. Table: `UnprunedBound`, among the live entries those with at most `DedupeMaxEntries` not older ones are that few. Chunks: the cut of an unload is made of `TakesChunk` pieces (`UnloadChunkFacts`). |
| `NothingLostOrDuplicated` | `EachEventInOnePlace` | `PlacesInv` adds that only a sending drain holds a chunk. `TrimIds`, `SplitIds` and `UnloadIds` say that trimming, taking a chunk and cutting the whole queue partition the ids. Covers all three transports. |
| `ClientIsAMailbox` | `ImplementsMailbox` | On top of `PlacesInv`, each action maps to one action of `LossyMailbox` or a stutter; what an action trims is evicted while the `MaxQueue` events it keeps are pending, whatever keepalive requests return. |
| `DeliveryIsInOrder`, `ClientEvictsOldest` | `InOrder`, `EvictsOldest` | `OrderInv`: drain and queue are sorted and the drain is older. Hypothesis `MaxPageHides = 0`: with keepalive requests in flight neither holds (section 6, client.ts:238). |
| `NoEagerFlush` | `NoEagerFlushAfterFailure` | `BackoffInv`, about `ContractSpec`. The same hypothesis: a failed keepalive request requeues without backing off (section 6, client.ts:56). |
| `DedupeForgetsOnlyUnderFlood` | `ForgetsOnlyUnderFlood` | `FloodInv`: each accepted event is expired, or remembered in a place at least as late as its own, or `DedupeMaxEntries` signatures came after it; `pruneRecent` (`PrunedFacts`) moves events from the second case to the others only. Hypothesis `ClockSteps \subseteq Nat`: after a clock that stepped back, an entry counts as expired and as recent again. |
| `FlutterTypes`, `FlutterKeepsOrder`, `FlutterEvictsOldest` | `TypeOK`, `InOrder`, `EvictsOldest` | `PlacesInv`: chunk and queue are sorted, the chunk older, and each accepted event is pending or settled. No hypothesis: this client has no keepalive requests. |
| `FlutterForgetsOnlyIfSetBack` | `ForgetsOnlyIfSetBack` | `DedupeInv`: the signature of every accepted event is remembered, with the time of its last acceptance, or a later accepted event found the table over its limit and the first one expired. No hypothesis about the clock. |
| `FlutterDedupes` | `AcceptedAWindowApart`: accepted events of one signature are a window apart | From the former and `ForwardInv`: times of acceptance ascend, so what was expired for one event is expired for those after it. Hypothesis `ClockSteps \subseteq Nat`, as for `DedupeForgetsOnlyUnderFlood`; without it the statement is false (section 6, client.dart:48). |
| `FlutterIsAMailbox` | `ImplementsMailbox` | As for the React client, through `dispose()` and restart. |
| `WireRefusedOnlyForACut`, `WireTypes` | `RefusedOnlyForACut`, `WireTypeOK` | `WireInv`: after the caps the object is within every limit but that of the whole event (`IsShort`), and no later cut takes it out of them. At the end it fits: in TypeScript because nothing is left to cut (`NothingLeftFits`), in Dart after the last resort (`LastResortFits`); both need the last part of `WireAssumption`. `CutInv` adds that the only unit of a text that is not whole is a first half at its end, in Dart (`AtMostCut`, kept by every cap: `CapFacts`). Hypothesis: no reported text has half a character of its own. |
| `WireReactNeverRejected` | `GatewayAccepts` at the end, in TypeScript | From the former: there no text ends in a half. Of the Flutter client it is false: `wire_half_character`. |
| `WireOnlyAsNeeded` | `OnlyAsNeeded` | `ShorteningInv`: what is already cut was needed, and in TypeScript nothing is left before a field that is cut, so at its turn the object has the size of `Without(Before(f))` (`SizeSaysNeeded`). In Dart, a cut of the stack without wide characters takes as many bytes as units (`CutBytes`, `StackSize`), hence it is enough or leaves no stack (`CutIsEnough`). |
| `WireNoHalfCharacter` | `NoHalfCharacter` | From `CutInv`, under the same hypothesis: a lone half that the application reports is sent on. |
| `WireEachTurnShortens` | the argument for `CappingEnds` | A turn that is not the last takes at least one unit from one field (`FirstCuttable`, `CapFacts`). |

**Gateway** (`RateLimiter_proofs`, `Gateway_proofs`, `OpsEndpoints_proofs`,
`Lifecycle_proofs`)

| theorem | property | argument |
|---|---|---|
| `LimiterTypes`, `LimiterImplementsSlidingWindow`, `AtMostLimitPerWindow`, `OnlyLiveClientsOutgrow` | `LimiterTypeOK`, `ImplementsSlidingWindow`, `NeverOverLimit`, `OutgrownOnlyByLiveClients` | `LimiterInv`: logs are chronological, and what the table remembers of a client is an end of its log before which everything has expired; `WindowOfFacts` then makes the popped window as long as the abstract one. |
| `HealthFileTellsTheState`, `HealthFileTellsInGateway` | `HealthLogExplainsState` | `KnownInv` adds that in the first life of the process a component without an observation has no record. One check writes at most one record for each component (`FlippedInOrderFacts`, over any list of targets), so the last record of a component is the one the check wrote, or the one it had. |
| `SuppressedWasAccepted` | `DuplicateHasOriginal` | `CallsInv`: each signature in the table was once *accepted*, not only seen; pruning removes, and a suppressed call refreshes what was accepted before. |
| `FallbackFileIsExact` | `EventsLogExact` | `SeenInv`: one observation of the fallback for each call; the events to be in the file are a set of call numbers in ascending order, to which a call adds the last one or none (`AscendingAppend`). |
| `GatewayDrivesLimiter`, `GatewayDrivesDeduper`, `GatewayDrivesEmitter` | the specifications of the components | The composition is a behaviour of each component on its own, so what is proved of a component holds in `Gateway`. `BudgetInv` says that what is left of a batch fits the bound on calls; the emitter also needs `MaxCalls <= MaxRecords`, that its bound is no tighter. |
| `GuardsFailClosed` | `FailsClosed` | `OpsInv`: whoever has passed is entitled, and while a request waits for the RBAC service its sender has a good token and the opinion of now is among those it `saw`. Everything else is decided in `Arrive`: one lemma per operator (`Principals`, `Guard`, `Authorize`, `Passed`). |
| `RefusalsHaveAReason`, `RollupsAreFresh`, `RolesAreMonotone` | `RefusedForAReason`, `RollupIsFresh`, `MoreRolesNeverLess` | `ReasonInv` = `Reasoned`, `Rolled`, `Decided`: the opinion that ends a request is one it saw; each probe's answer was true of its target at some moment of it; an identity that the static map gave is the caller's own. `GrantedMonotone` and `RankMonotone` are about the operators of `Authz`, for every role map. |
| `OpsTypes` | `OpsTypeOK` | `OpsTypeInv`: whoever waits for the RBAC service is somebody, so what changes of the policy meanwhile is about a user that exists; the route table always names an action (`ActionForType`). |
| `EmitterBounded`, `EmitterAttributes`, `EmitterInLifecycle` | `EmitterTypeOK`, `ProvidersBounded`, `Attributed` | `EmitterInv`: the bound is inductive once it separates the fallback service from the apps; a record under an app's own name means that the app is registered and stays so, hence an app sent to the fallback service never had a provider before (`EmitAttributes`). |
| `EveryoneIsCharged`, `BodyLimitIsExact` | `ChargedToItsSender`, `RefusedIffTooLarge` | `RequestsInv`: the entry `Hops` from the right of a header that ends in the client and `Hops - 1` proxies is the client; what was received of a body that is still read is within the limit. |
| `StoppingIsClean` | `StopsClean` | `StopInv`: once flushed nothing is registered or buffered, once stopped no file is open; `RequestsInv` adds that after `Drained` no request is being read, so nothing is emitted or written again. |
| `OutagesAreLogged` | `NoSilentLoss` | `WatchInv`: a collector that was not up since the last finished check began is one that this check saw down, so the fallback is active. Hence `LoggedInv`: every accepted event, lost or not, is excused or in the file. `MonitorInv` says that the monitor is a record. |

**From the phone to the store** (`Delivery_proofs`)

| theorem | property | argument |
|---|---|---|
| `DeduperTypes`, `DeduperMemoryBounded`, `NoFalseSuppression`, `OnlyFloodsDefeatDedupe` | `DeduperTypeOK`, `RecentBounded`, `SuppressedWasSeen`, `SlipsThroughOnlyUnderFlood` of `DeduperSpec` | `DeduperInv`: each entry comes from a call, and each call is still in the table, has expired, or was followed by a flood. |
| `DeliveryDrivesPhone` | `Phone!Spec` | Every step of the network, the gateway and the other senders leaves the phone alone, and every other step is one of `FlutterClient`. The invariant of `FlutterClient` is thereby available (`PhonePlaces`). |
| `FirstMetInOrder`, `NothingSentIsMissing` | `MetInOrder`, `SentIsStored` | `RequestsInv` and `MeetingInv`. A request, also one given up long ago, is *sound*: what was accepted before one of its events is in it as well, or was met by the gateway, or is gone for good. The drain's own request *covers* its chunk: each event is still to be handled in it or was met. A fresh request is sound because the phone's queue is behind its chunk (`FreshIsSound`); later steps only meet or give up more. Hence an event is never met before an older one that is still to come, and an answer finds the whole chunk met. `StoreInv` adds that the gateway suppresses only what it has stored. |
| `RetriesAreStoredOnce` | `StoredTwiceOnlyIf` | `CallsInv` ties each handled event to its call of the deduplication in the present process; two stored ones of one sender and epoch are then two calls that were not duplicates, to which `SlipsThroughOnlyUnderFlood` of `DeduperInv` applies. |
| `OnlyFloodsDefeatDelivery`, `DeliveryTypes` | `SlipsThroughOnlyUnderFlood`, `DeliveryTypeOK` | The whole `DeliveryInv`; a restart empties the table and begins the calls anew. |

The assumptions are those a configuration or the code gives: naturals, at least
one event per batch and place in the queue, finitely many client addresses; the
collector is one of the watched trigger components (as it is by default); no app is
named like the labels of the model for failed and unconfigured exports. The list
of targets is a dictionary's keys, hence without repeats (`MonitorAssumption`). A
role map names roles of the Grafana UI (authz.py:46), the routes are a list of pairs
(config.py:62), and no token or role is the model's `None` (`AuthzAssumption`). The gateway's digest covers the sender, so a
phone shares no signature with others (`DeliveryAssumption`). `WireAssumption` says
that what `toJson` never gives up fits the event limit at worst (about 12.8 of 16
KiB), that a key and an app name may have two and one units (128 and 64), and that
what surrounds a field is not longer than the text the last resort leaves it at worst
(`6 * FinalCap`, 6000 bytes).

The type invariants and `RecentBounded` and `SuppressedWasSeen` of `Deduper` are
proved or documented and not repeated in the runs.

Only model-checked is liveness (`EveryEventSettles`, `OutageDetected`,
`RecoveryDetected`, `CappingEnds`, `EveryRequestAnswered`): the rule that derives it
from fairness needs ENABLED, which is out of the prover's reach.

## 5. Not modelled

- Facades, error handlers, trace ids: constructors and registrations around one
  reference to a client. The one hazard, `init()` dropping a client that still
  holds events, is listed.
- The parsing of environment variables, CORS, the request counters and the
  constant answers of `/health` and `/healthz`: no state of their own.
- The reasons of a 422: which events pass is in `WireEvent`, what a refusal leaves
  behind in `Gateway`.
- JWT verification itself: which tokens verify is part of the input.
- The OpenTelemetry SDK and everything behind the gateway, edge proxy and
  collector included: third-party programs of which the repository has only the
  configuration. What the gateway relies on is marked external in the map.
- A write to a fallback file that fails after the file was opened (a full disk, a
  failed rotation): `logging` swallows it, and the record is gone. `EventsLogExact`
  speaks of files that cannot be opened.
- File rotation, wording of logs, metrics other than the two of the fallback.
- In `Delivery`, the time between two drains of the phone (its signature window is
  0) and the React client, whose requests are aborted rather than abandoned but
  can have arrived just the same.

## 6. Noted while modelling

Behaviour that differs from a document or comment, not stated as a run:

- USER_MANUAL.md:460, identical events "inside this window are stored once": a
  suppressed call refreshes the time (ingest.py:141), so an event repeated at least
  once a window is stored once and never again.
- DESIGN.md:218, "at most `MAX_APP_SERVICES = 32` providers exist": the fallback
  service is a 33rd (emit.py:65); `ProvidersBounded` is what holds.
- models.dart:111, "cutting `over` chars is enough": if the cut splits a wide
  character, its half is written as an escape that is longer than the character
  was; the event is still too large and loses stack and url altogether. Hence the
  exception in `OnlyAsNeeded`.
- `wire_half_character` again: the 422 repeats the value it refuses, so depending on
  the libraries the answer itself cannot be encoded and is a 500, which the client
  takes for retryable: it then sends the batch again until the queue overflows.
- An application that itself reports half a character, in either language, loses the
  batch with it; `RefusedOnlyForACut` assumes that it does not.
- client.dart:48: after the clock is set back, a signature that was pruned as expired
  is within its window again, and a repetition is accepted; `ForgetsOnlyIfSetBack`
  names this case. A clock set back without a pruning suppresses for longer.
- client.ts:98: if `toWire` throws, on a value that is not of its declared type, the
  signature is already remembered, so a later good report of it is suppressed too
  (the catch at client.ts:108). Not in `Enqueue`.
- ingest.py:163: parts of a digest are joined with `|` and not escaped, and all tokens
  with neither company nor user share the sender `None|None`; `Signatures` supposes
  claims without `|` and one of the two present.
- authz.py:203: a user, company or reason that is not latin-1 cannot be put in a
  header, so the answer is a 500. `Passed` and `Refuse` have identities that can.
- client.ts:113 "Send everything queued": a `flush()` while `drain` is settling
  shares a promise that is already finished (client.ts:115).
- client.ts:56: `backingOff` is "set after a retryable failure", but not after
  that of a keepalive request (client.ts:146).
- DESIGN.md:316, both libraries are "capped to the gateway limits": Flutter cuts
  chunks by count (client.dart:83); 100 events of the largest size plus their
  separators exceed the body limit of config.py:151 and are dropped with a 413.
- REQUIREMENTS.md:185, "bounded rate-limit ... maps": above `MAX_TRACKED_KEYS`
  only idle clients are pruned (ingest.py:119). `OutgrownOnlyByLiveClients` is the
  bound the code does have.
- DESIGN.md:285, an unwritable directory is logged "once per path": a handler that
  did not open is tried, and logged, at each write (stack.py:62).
- REQUIREMENTS.md:156, events are copied "while any configured trigger component
  is unhealthy": the copy begins with the check that sees it (ingest.py:212).
- stack.py:34: the counter of events "written" also counts those that could not be
  (stack.py:74).
- client.ts:238, requeue "drops the oldest": two keepalive chunks that fail in turn
  are each put in front of whatever is queued, so the queue may be out of order
  and trimming then drops newer events and keeps older ones (client.ts:240).
- DESIGN.md:482: with mode `none`, `/authz/verify` lets everyone in, but a valid
  token's user and role are still passed on (authz.py:65, authz.py:204).
- USER_MANUAL.md:460 again: two events that the client accepted a window apart and
  then retries in one burst reach the gateway within a window and are stored once.
- An event that the client counts as evicted or dropped may still be stored, by a
  late request; `MetInOrder` has that exception.
- REQUIREMENTS.md:185, flush on graceful shutdown: nothing bounds the time a
  body may take to arrive, so a stalled upload holds off `Drained` until whoever
  stops the process kills it.
- DESIGN.md:230: with trusted hops configured, a caller that reaches the gateway past
  the proxies is charged to what it says in X-Forwarded-For; `ChargedToItsSender`
  speaks of requests that came through them.

## 7. Plan

Done: the modules above, in the order clients, limiter and deduplication,
emitter, fallback log and monitor, gateway, wire caps, guarded endpoints,
lifecycle, delivery; the abstract specifications `LossyMailbox` and
`SlidingWindowLog`; the proofs of section 4.

Next, the most important first:

- `Facade`: one reference to a client that `init()` replaces while the old client
  still holds events (facade.ts:65); the promise is that a disposed client's events
  are still tried once.
- `Delivery` with the rate limiter between phone and store, and for the React
  client with page hides; `FirstMetInOrder` will need the hypothesis of
  `DeliveryIsInOrder`.
- The failover connector of the collector as an external component behind `Emitter`,
  with the fallback file as its promise.
- Termination measures like that of `WireEachTurnShortens` for the other liveness
  properties: of a drain, how many events are left or how often it may retry.
