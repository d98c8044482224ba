# Context-aware logging: TLA+ models and proofs

The repository is a NestJS backend that records one *wide event* per HTTP
request, stores the events in MongoDB (directly, or through Kafka), embeds
their summaries, and answers questions about them. This directory holds TLA+
modules of its stateful parts, the TLC runs that check them on small instances,
and theorems checked by TLAPS for every instance.

Run a check with `tlc -config KafkaPipeline_failover.cfg MCKafkaPipeline` and a
proof with `tlapm KafkaPipelineProofs.tla`. `PROJECT.json` lists components,
runs, theorems, the source lines of every definition, the known divergences
and the hazards.

Paths below are relative to `src/backend/`; `L` is `libs/logging`, `E` is
`src/embeddings`, `P` is `src/payments`.

## 1. Inventory

| Component | State | Operations | Interacts with | What is hard | What makes it correct |
|---|---|---|---|---|---|
| `MongoLogger` (`L/infrastructure/mongodb/mongo.logger.ts`) | buffer, `isFlushing`, timer | `log`, `flush`, timer, `onModuleDestroy` | called by `LoggingService`, `KafkaLogger`, `MqConsumerService`; writes MongoDB | flushes overlapping, partial writes, shutdown, crash | no event written twice, forgotten or stranded |
| `LoggingService`, `SamplingPolicy`, `FinalizeMetrics` (`L/service/logging.service.ts`, `L/core/domain/`) | map of finalized ids, pending count, counters | `finalize`, `shouldRecord`, `recordSuccess/Failure` | called by the interceptor; calls the `LoggerPort` | concurrent finalizations at the limit, failures, repeated ids, eviction | counts exact, a repeat suppressed while remembered |
| `LoggingModeService` (`L/service/logging-mode.service.ts`) | mode, callbacks | `setMode`, `onModeChange` | written by `KafkaLogger` and `MqConsumerService`; calls back the latter | the callback starts async work nobody awaits | the mode recovers with Kafka |
| `MqConsumerService` and `KafkaConsumerClient` (`L/service/worker/`, `L/infrastructure/mq/kafka-consumer.client.ts`) | consumer (twice), batch, batch timer, watchdog, success count | `startConsumer`, `destroyConsumer`, `handleConsumerFailure`, watchdog tick, `eachMessage`, `flushBatch` | KafkaJS, the mode, `MongoLogger` | starts and destroys overlapping at every await, stale probes, crashes of the fetch loop, a batch that rejects half-way | one start at a time, no stray reader, recovery; each delivery in one place |
| `KafkaProducerClient` (`L/infrastructure/mq/kafka-producer.client.ts`) | `isConnected`, watchdog, success count | `initialConnect`, watchdog tick, `connect`, `triggerHealthCheck`, DISCONNECT handler | KafkaJS, `KafkaProducer` | four writers of one flag and one timer | a lost connection is always pending reconnection |
| `KafkaProducer`, `KafkaLogger` (`L/infrastructure/mq/`) | none of their own | `publish`, `log` | producer client, mode, fallback logger | failure after the broker wrote, a process that ends during a publish | every event in the topic or with the fallback; none lost or stored twice without a cause |
| `FileLogger`, `MongoConnectionClient` | file; pool | `log`; `connect`, `close` | | errors swallowed; close racing the last flush | |
| `LoggingInterceptor`, normalizers, `WideEvent` (`L/presentation/`, `L/core/domain/`) | per-request context (`ContextService`) | `intercept`, `normalize`, `fromContext` | the controllers, `LoggingService` | two paths to `finalize`, an error rewritten four times | the event says what happened |
| `EmbeddingService`, `MongoLogStorageAdapter` (`E/service/embedding.service.ts`, `E/infrastructure/repository/mongodb/`) | watermark, embedded collection | `processPendingLogs`, `saveEmbeddingsAndUpdateWatermark` | MongoDB, Voyage | concurrent batches, two writes not atomic, late logs | each log embedded, once |
| `SessionCacheService` and adapters (`E/service/sub-services/session-cache.service.ts`, `E/infrastructure/cache/`) | cached histories over stored ones | `getHistory`, `updateSession`, clean-up | Redis or memory, MongoDB | read-modify-write across awaits, partial misses, failed reads taken for misses | undisturbed, the cache is the database; never a turn that was not kept |
| `SemanticCacheService` (`E/service/sub-services/semantic-cache.service.ts`) | entries by metadata key | `getCachedResults`, `setCachedResults`, clean-up | the semantic and the statistical strategy | one entry for many questions, times cut to hours | a hit lies in the question's hours and filter |
| `SearchService`, strategies, Gemini and Voyage adapters (`E/service/`, `E/infrastructure/api/`) | none | `ask`, `getChatHistory` | both caches, MongoDB, the models | fallbacks of every remote call, what a failed question leaves behind | an answer is made from its own conversation and from logs of its own range; no failure is taken for an answer |
| `PaymentsService`, `PaymentsOutAdapter`, `PaymentStatusVO`, controller (`P/`) | none | `processPayment`, `handlePayment` | the interceptor | failure after the charge | the event names the step that failed, and shows a charge |

Everything runs on one JavaScript event loop: a handler runs undisturbed to its
next `await`, so **an action of these modules is the code between two awaits**,
and interleaving happens at awaits, timers and callbacks only.

## 2. Modules

| Module | Models | Kind |
|---|---|---|
| `EventLog` | what a log sink promises: each event is unseen, pending, stored or lost, and a settled event never moves | abstract specification |
| `EventRouting` | what `KafkaLogger.log()` promises of an event: it is handed to the fallback or published, and both only when its publish failed | abstract specification |
| `MongoLogger` | the buffered writer | component, implements `EventLog` |
| `LoggingService` | `finalize()` and its three gates, with the sampling policy and the metrics of the interceptor | component |
| `KafkaProducerClient` | the producer's connection | component |
| `MqConsumerService` | consumer lifecycle, with `KafkaConsumerClient` and `LoggingModeService` | component |
| `KafkaPipeline` | `KafkaLogger` and `KafkaProducer` over the two modules above, sharing broker and mode | composition, implements `EventRouting` |
| `EmbeddingPipeline` | `processPendingLogs` with the log storage adapter, run by several callers | component |
| `ConsumerBatch` | the messages of `MqConsumerService`: `eachMessage`, the batch, its timer and flushes, over the sink, which the fallback shares | composition with `MongoLogger` |
| `LogPath` | an event from `KafkaLogger.log()` to the collection: fallback or topic, consumer, batch, sink, with exits and restarts | composition with `ConsumerBatch`, implements `EventRouting` |
| `RequestPipeline` | `POST /payments` from the payment's steps through exception, normalizers and event to `finalize()` | composition with `LoggingService` |
| `SessionCache` | one session: stored turns, cached history, both adapters | component |
| `SemanticCache` | the cached results of vector searches | component, without actions of its own but expiry |
| `Search` | `ask()`, its three strategies and `getChatHistory()` over the two caches | composition, implements `SessionCache` |
| `MC*` | constants for TLC | |
| `*Proofs` | theorems | |

Variables and actions carry the names of the fields and methods they stand for.
What differs:

* **`MongoLogger`**: `toWrite` and `flusher` are the local variable and the
  caller of the flush whose `insertMany` is awaited; `accepted`, `settled`,
  `persisted` and `destroyMark` are history. `InsertManySettles(written)` covers
  success, failure and partial writes: `written` is any subset of the batch.
  `Exit` is a crash at any moment or the end after the hooks; `Start` a new
  process.
* **`LoggingService`**: `finalized` is the insertion-ordered `Map` of the
  `LRUCache`. The duplicate gate, `set`, backpressure and sampling all run
  before the first await, hence one action `Finalize` with four outcomes. A
  request's traits (error, slow, critical route) are an input; the draw of
  `Math.random()` is a choice.
* **`MqConsumerService`**: `starts[s]` and `destroys[d]` are calls of
  `startConsumer` and `destroyConsumer`, each standing at one await (`at`) with
  the instance it awaits (`on`). `consumer` is the field of the service and
  `held` that of the client. `setMode` runs its callback synchronously, so a
  step that sets the mode also runs `startConsumer` or `destroyConsumer` up to
  its first await. KafkaJS is external: `connect`, `subscribe` and `run` resolve
  when the broker is up, reject when it is down or when the instance was
  disconnected meanwhile; `stop` and `disconnect` settle either way.
* **`KafkaProducerClient`**: `tick` and `initial` tell where a watchdog tick and
  `initialConnect` stand; `healthChecks` counts probes of `triggerHealthCheck`.
* **`KafkaPipeline`**: `Startup` runs both `onModuleInit` hooks; `PublishRejects`
  chooses whether the broker had written the message.

* **`EmbeddingPipeline`**: a log is its place in the order (timestamp, `_id`), so a
  page is a set, and `First(n, S)` is both `sort().limit(n)` and `slice`. `mark`
  and `todo` are the local variables of a call, `at` the remote call it awaits.
  The limit is chosen where the page is read. `StoreLog` is the write of a log by
  the sink, in any order. `late` and `disturbed` are history; `copies` stops
  counting at 2 (`Many`), which is all the properties tell apart.

* **`ConsumerBatch`**: the k-th delivery is the event k of `MongoLogger`, so a
  message delivered again after a crash is a new event. `flushes` are the calls
  of `processBatch` with what is left of their loops: timer, full batch and
  `destroyConsumer` may each have one. A `log()` call that starts a write awaits
  it, any other returns at once. A message in `broken` is JSON without an event
  (`{}`, `null`): at its turn `log()` throws, and the catch around it, which reads
  `message.event.requestId`, throws too. `processBatch` then rejects with the rest of
  its batch, which goes to `dropped`: `eachMessage` and `destroyConsumer` catch that
  (`BatchRejects`), nobody does for the timer (`TimerRejects`), and Node ends the
  process. `handled` and `committed` are the offsets of
  KafkaJS, `known` says whether the group has one: a start without begins at the
  end of the topic (`fromBeginning: false`). `FallbackLog` is a call that
  `KafkaLogger` makes of the same `MongoLogger`: its events are those that are no
  deliveries. `late`, `broken`, `crashed` and `dropped` are history. `Exit` and `Start` of the sink end
  and begin the whole process.
* **`LogPath`**: `route[r]` is how far the call of `log()` for the event r has come
  (`cut` when the process ended during its publish), `topic` the order in which
  the broker wrote, `source[d]` the place of the delivery d in it. When the mode
  changes is left to `KafkaPipeline`: here a call may take either way. The broker
  writes what was sent at any moment, also when the publish has failed or its
  process is gone, and once (the producer is idempotent). Somebody else may write
  two kinds of message (`OthersWrite`): one without a value or with one that is no
  JSON (`NoJson`), which the consumer passes by (`PassBy`), its offset being
  committed; and one whose JSON has no event (`NoEvent`), whose delivery is `broken`.
  A foreign message with an event is logged like any other. `Copies(r)` are the
  calls of `MongoLogger.log()` that stand for one event. `skipped` and `refetched`
  are history: what starts passed by, and what they went back over.
* **`RequestPipeline`**: a payment is the sequence of the status codes of its
  steps, up to the one that failed. Requests share no state before `finalize()`,
  so a request is one step: the payment and the delay are chosen, everything
  else is computed as the code does. `last` is history.
* **`SessionCache`**: an operation stands before one remote call (`op`) and holds
  the history it was given (`held`). With the in-memory adapter, get and set are
  one step, because nothing of another request runs between them. `trouble`
  and `unsaved` record what has gone wrong: an update that overlapped with
  another access, an entry that expired under a question, failed calls. The in-memory
  adapter hands out the array of its entry: `shared` are the operations that have it,
  and a push changes what they hold (`Sharers`).
* **`SemanticCache`**, **`Search`**: a text is known by its topic, and embeddings
  are similar when a constant says so. What a model returns is a choice among
  the values its adapter lets through, its failure included: a summary tells of the
  turns it was made of, or (the fallback of a failed or empty call) of none; a
  synthesis is an answer with any confidence the model states, or a text about the
  error with none; the grounding check keeps, rejects, or adjusts by a factor the
  adapter has cut to [0, 1], or by 0.3 when it failed. `work[a]` is what a
  question knows: its metadata and what is kept of its history, then the record of
  its answer with the turns it was made from (`context`: a summary and the turns after
  it) and its confidence. `before` is history: the turns that had been answered when
  a question came in. Confidences and factors count in tenths, times in minutes; a
  number that is none (`NaN`) is left out.

Operators marked "(Bug: ...)" are variants with a plausible mistake. Nothing in
a specification uses them: put in the place of the operator defined after them,
each makes TLC report the property that `PROJECT.json` pairs it with.

## 3. Runs

| Run | Checks | Result |
|---|---|---|
| `sink` (`MCConsumerBatch`, `ConsumerBatch_sink.cfg`) | `Conservation`, `DestroyDrains`, `GrowsPastBatchOnlyDuringFlush`, refinement of `EventLog`, `DeliveriesAreAccountedFor`, `DropsFollowABrokenMessage`, `BatchIsTimed`, `EventuallySettled` | holds; about 130 000 states |
| `path` (`MCLogPath`, `LogPath_path.cfg`) | `LossesHaveACause`, `RepeatsHaveACause` | holds; about 3.8 million states modulo symmetry |
| `destroy` (`MCMongoLogger`, `MongoLogger_destroy.cfg`) | `FlushedOnDestroy`, the comment at `mongo.logger.ts:16` | violated |
| `gates` (`MCRequestPipeline`, `RequestPipeline_gates.cfg`) | `PendingExact`, `RepeatsAreApart`, `MetricsAddUp`, `DropsOnlyWhenFull`, `EventTellsPayment`, `OnlyGoodPaymentsAreSkipped`, `ChargesAreTraceable` | holds; about 10 000 states modulo symmetry |
| `failover` (`MCKafkaPipeline`, `KafkaPipeline_failover.cfg`) | `ServiceConsumerIsHeld`, `OneStart`, `CreateNeverRacesDestroy`, `NoStrayReader`, `RecoveryFindsNoReader`, `KafkaIsServed`, `ParkedForGood`, `ReconnectPending`, refinement of `EventRouting`, `ProducerReconnects`, `WatchdogRecovers` | holds; about 240 000 states |
| `stuck` (`KafkaPipeline_stuck.cfg`) | `SwitchesBack`, the comment at `logging-mode.service.ts:7` | violated |
| `leak` (`MCMqConsumerService`, `MqConsumerService_leak.cfg`) | `DestroyedWhenKafkaFails`, the comment at `kafka-consumer.client.ts:17` | violated |
| `crash` (`MqConsumerService_crash.cfg`) | `CrashedConsumerIsReplaced`, the comment at `mq-consumer.service.ts:277` | violated |
| `batches` (`MCEmbeddingPipeline`, `EmbeddingPipeline_batches.cfg`) | `NothingSkipped`, `RepeatsHaveACause`, `WatermarkAdvances` | holds; about 460 000 states modulo symmetry |
| `omissions` (`EmbeddingPipeline_omissions.cfg`) | `NoOmissions`, the phase 3 journal (`journals/en/phase3-journal.md:31`) | violated |
| `ask` (`MCSearch`, `Search_ask.cfg`) | `CachedTurnsWereSaved`, `CacheIsDatabase`, `RepeatsNeedOverlap`, `SourcesFit`, `ContextIsStored`, `FailuresAreNoAnswers`, refinement of `SessionCache` | holds; about 2.3 million states modulo symmetry |
| `rate` (`MCSearch`, `Search_rate.cfg`) | `ErrorRateIsRatio`, the description at `metric-templates-constants.ts:153` | violated |

What the violations show, in short:

* **destroy**: a flush by size or timer is in flight, more events arrive,
  `onModuleDestroy` calls `flush()`, which returns because of `isFlushing`. The
  timer is cleared, so those events are lost unless another `log()` fills a batch.
* **stuck**: a publish fails while the consumer is healthy. The mode becomes
  DIRECT and the consumer is destroyed, but only `handleConsumerFailure` arms
  the watchdog that leads back to KAFKA. The producer's own watchdog reconnects
  it and does not touch the mode.
* **leak**: the client stores the instance before it awaits `connect()`, the
  service only when that has resolved. When `connect()` rejects, `destroyConsumer`
  finds nothing in the service and returns, the client keeps the instance, and
  every later start fails with "Consumer already exists".
* **crash**: `restartOnFailure` returns false and nobody listens to the crash.
* **omissions**: a log takes the timestamp of its request's start and is stored
  after the request and a buffered write. One that is stored while a later one is
  already in a page has an earlier place than the watermark this page ends with.
  `NothingSkipped` says that this is the only way to miss a log.
* **rate**: the filter of the aggregation templates tests `hasError` whenever it
  is defined, and the metadata always defines it. So the template that divides
  errors by requests sees the errors alone, or none.

Bounds, and why they are enough:

* `sink`: two messages and two deliveries over two batches of two give a full
  batch, a remainder, a buffer filled behind a write, flushes that overlap, and a
  message delivered again after a crash before its commit. One call of the
  fallback is the third event: with it the sink's buffer is filled and a remainder
  is left that only the timer takes. Restarts are not bounded (each delivery is
  logged once). Either delivery may be of a message without an event, so a batch
  rejects at its first message, with a good one behind it, or at its last.
* `path`: two events, and a topic of two messages, of which one or both may be
  foreign. A batch of two is filled or waits for its timer, and each of the five
  causes that `LossesHaveACause` names does occur: without any one of them TLC finds
  a loss. A message that is no JSON lets an offset be committed before the first delivery,
  so a second start goes back over a message and two deliveries are enough for
  both causes of `RepeatsHaveACause`.
* `gates`: five requests, three ids, a map of two, two slots: an id can return
  before and after its eviction, and the limit is reached with a call to spare.
  Every payment is possible, with two gateway errors, of which one is the timeout
  that the controller answers with status 500, and a delay on either side of
  the slow threshold. The critical route is configured as `README.md:276` has it.
* `ask`, `rate`: two operations of one session, with or without an earlier turn;
  one turn kept uncompressed, so that a history of two is compressed; a factor above
  one, so that the adapter cuts it; two logs in
  different hours, one of them embedded later; metadata that selects a range, an
  error of a service without errors, or all; limits of two, one and one, so that
  a limit cuts. `MaxTroubles` allows one disturbance: each property names the
  disturbances it excepts, and each kind occurs.
* `failover`, `stuck`: two events, so that one publish is in flight while the
  other `log()` switches the mode; two consumers and two slots. One start at a
  time is proved (`OneStart`); two destroys overlap when a mode change meets a
  slow one. A start takes an instance nothing refers to any more: with the client
  holding none, a destroy that still waits for one is the only other holder, so two
  instances are enough for one start beside one destroy. What is left out, a start
  beside two destroys of different instances, is covered by the proofs, which are
  for any number. The success count is the code's own 3.
* `batches`: four logs and limits of three and of none give pages of two chunks
  with a log left behind and a place to store one late; two batches overlap at
  every await. Restarts and repeated calls are not bounded.
* `gates`, `ask` and `rate` end when every request or question has
  ended, so they do not check deadlock.

Fairness, and why the code justifies it: interval timers fire and their probes
have a one-second timeout (`timeout: 1000`); KafkaJS calls and `insertMany`
answer within the timeouts of their drivers; Nest calls the hooks; after the
hooks the process ends. No fairness is assumed for requests, mode changes by the
logger, the broker, disconnections or crashes. The broker may come and go for
ever; the liveness properties say what happens if it finally stays up
(`<>[]brokerUp`).

## 4. Proofs

| Module | Theorems | Argument |
|---|---|---|
| `MongoLoggerProofs` | `TypeCorrect`, `ConservationHolds`, `SingleFlightHolds`, `GrowsPastBatchHolds`, `DestroyDrainsHolds`, `Refinement` | The inductive invariant adds to these three that events are accepted without repetition and that what is persisted was settled. Each step then maps to `Accept`, `Settle` or a stutter of `EventLog`. For `DestroyDrains`, `Draining` says that the flush the hook awaits carries all that was accepted before it. |
| `LoggingServiceProofs` | `TypeCorrect`, `PendingExactHolds`, `DropsOnlyWhenFullHolds`, `MetricsAddUpHolds`, `CacheIsRecentHolds`, `RepeatsAreApartHolds` | Counting lemmas say how moving one request between stages changes a cardinality. For `RepeatsAreApart` the map is the tail of the finalization order (`CacheIsRecent`), so an id outside it is far back. |
| `KafkaPipelineProofs` | of the worker: `TypeCorrect`, `OneStartHolds`, `CreateNeverRacesDestroyHolds`, `ServiceConsumerIsHeldHolds`, `NoStrayReaderHolds`, `WatchdogOnlyInDirectHolds`, `RecoveryFindsNoReaderHolds`, `KafkaIsServedHolds`, `ParkedForGoodHolds`; of the pipeline: `PipelineImplementsWorker`, `WorkerIsSafe`, `WorkerNeverLeavesParking`, `PipelineTypeCorrect`, `ReconnectPendingHolds`, `EveryEventIsRoutedHolds`, `PipelineImplementsRouting` | Every step of the pipeline is a step of the worker or leaves it alone, so what is proved of the worker (below) carries over. The types of the producer and its two properties are inductive. For the promise of `log()`, `RoutedApart` keeps the sets of events apart that tell how far a call has come, so that each step moves one event along its route. |
| `EmbeddingPipelineProofs` | `TypeCorrect`, `NothingSkippedHolds`, `RepeatsHaveACauseHolds`, `WatermarkAdvancesHolds` | What `NothingSkipped` says of the watermark is carried by every mark a batch has read (`MarksSkipNothing`) and every page (`PagesSkipNothing`), since a page and a chunk are prefixes of what is stored; the chunk is embedded before its watermark is written (`ChunkEmbedded`). For repeats, an undisturbed system has one batch, whose mark is the watermark and whose page lies ahead of it (`Orderly`). |
| `ConsumerBatchProofs` | `BatchTypeCorrect`, `BatchImplementsLogger`, `SinkIsSafe`, `DeliveriesAreAccountedForHolds`, `DropsFollowABrokenMessageHolds`, `BatchIsTimedHolds` | Each step is one of `MongoLogger` or leaves it alone, so its theorems carry over. `Accounted` follows one delivery at a time through batch, calls and sink; the event whose write is awaited is with both its call and the sink, which is why the property speaks of `Waiting`. For the drops, a batch and what is left of it are runs of consecutive deliveries no longer than `MqBatchSize` (`Runs`), and what is given up is the end of such a run from a broken delivery on. `Timed` adds that a destroy has one flush of its own and what is in the batch after it came late. |
| `LogPathProofs` | `PathTypeCorrect`, `PathImplementsBatch`, `PathImplementsRouting`, `LossesHaveACauseHolds`, `RepeatsHaveACauseHolds` | see below |
| `RequestPipelineProofs` | `PipelineImplementsService`, `ServiceIsSafe`, `EventTellsPaymentHolds`, `ChargesAreTraceableHolds`, `OnlyGoodPaymentsAreSkippedHolds` | Each step is one of `LoggingService`. `LastIsTold` says that `last` is what the code computes of some payment; case analysis over the payments, with the least time each step takes, gives the three properties. |
| `SearchProofs` | `SessionTypeCorrect`, `CachedTurnsWereSavedHolds`, `CacheIsDatabaseHolds`, `RepeatsNeedOverlapHolds`, `SearchImplementsSession`, `SessionIsSafe`, `ContextIsStoredHolds`, `SourcesFitHolds`, `FailuresAreNoAnswersHolds` | see below |

The assumptions are those the modules name: a positive batch, chunk and cache
size, finitely many requests and logs, places that are positive numbers, that
`None` is not a consumer, that an earlier turn is not a question under way, that
the gateway's errors are not the order's (`ErrorsAssumption`), and the types of
what the models may return (`SearchAssumption`). `OnlyGoodPaymentsAreSkipped`
needs a slow threshold of at most 2000 ms, the default: a slow order takes 2000 ms
and the balance check 10 more, so a higher threshold would skip slow payments.

Why the consumer lifecycle needs a strengthened invariant: the code tests
`this.consumer` before an await and assigns it after, which alone would let two
starts overlap. What saves it is that `startConsumer` is called in two places:
`onModuleInit`, once, and the watchdog's switch to KAFKA. So the invariant says
that while the watchdog runs the mode is DIRECT and nothing is being started
(`WatchdogAlone`), and that a probe in flight belongs to a running watchdog. For
destroys it distinguishes the *parked* state (DIRECT, no watchdog, nothing
starting, out of which no step leads): outside it at most one destroy is under
way and the service keeps its consumer until that has ended (`DestroyAlone`), so
that a return to KAFKA mode in the meantime finds the consumer and creates none.
In KAFKA mode nothing is started beside a destroy (`DestroyInKafka`), and what is
being disconnected is what the client holds (`DisconnectsHeld`).

`RecoveryFindsNoReader` and `KafkaIsServed` need to know who still reads: an
instance that runs is the client's, and is the service's, or is being started or
destroyed; and in KAFKA mode a start was made by a service without a consumer
(`StartedIsServed`, `StartedInKafka`). `ParkedForGood` is an action property: every
step of the worker that starts in the parked state ends in it, and
`WorkerNeverLeavesParking` says the same of the pipeline, where it is the logger
that leads there. It is the safety half of the `stuck` divergence, for any number
of consumers.

The log path is proved in two refinements and one invariant. Each step of
`LogPath` is one of `ConsumerBatch` (a start finds at most `Messages` in the topic,
which needs the types), so that `DeliveriesAreAccountedFor` and what is proved of
`MongoLogger` hold on it; and each step is one of `EventRouting`, whose steps keep
`Routed`: of the events the topic has those that were published, once each
(`OncePerEvent`), whatever else is written to it; what is sent is in the topic; the fallback has the events that went directly or
failed over. `ReadOn` is about the consumer: each place before the position was
delivered or skipped or is no JSON, and a delivery that lies ahead of the position, or shares
its place with another, is of a place some start went back over. The losses then
follow by cases. An event the fallback was given has a fate in `MongoLogger`; one in
the topic is ahead of the position, was skipped, or has a delivery, and
`DeliveriesAreAccountedFor` says where that is; if it was dropped,
`DropsFollowABrokenMessage` gives the broken delivery before it, and deliveries are
broken exactly when their message is a `NoEvent`. Two stored copies are the fallback's
and a delivery, so the publish failed, or two deliveries of one place.

Of the session cache, three things are proved that take three invariants.
`TurnsAreKept`: every history that any operation holds consists of kept turns.
`Synced`, while nothing has gone wrong: between updates the cache and every
history about to be cached are the database's; between its save and its set, an
update is alone (`Apart`), the database is the cache and its turn, and then what
it is about to cache. `Once`, while no update overlapped, whatever failed or
expired: a history that is cached or will be repeats no turn and has no turn of
an operation that has yet to cache it. `SearchImplementsSession` carries them over
to `ask()`. The search adds, for `SourcesFit`, that each entry of the semantic cache
holds logs of the hours of its key and that the fallback of the vector search, the
cache, the reranking and the filter keep the range. For `ContextIsStored`, `Told`
says of every operation that is still at its question that what it holds, and what it
has kept of it, is of a conversation stored at one moment since the question came in:
a load establishes it (from the cache because of `Synced`), a push extends the shared
arrays to the next such conversation, and the database only grows. For
`FailuresAreNoAnswers`, the verdicts keep a confidence of 0 at 0, and a
turn in the database is of an operation past its save, which only a failed set can
turn into an error.

Only model-checked: all liveness (`EventuallySettled`, `ProducerReconnects`,
`WatchdogRecovers`), which TLAPS cannot prove under fairness. Every other property
of a passing run is proved.

Proved and not run: what follows from or supports a property that is run. The type
invariants of `LoggingService`, `EmbeddingPipeline` and `LogPath`; `SingleFlight` (with
`Conservation`), `CacheIsRecent` (with `RepeatsAreApart`), `WatchdogOnlyInDirect` (with
`RecoveryFindsNoReader`), `EveryEventIsRouted` (with the refinement of
`EventRouting`), and that refinement on the log path.

## 5. Not modelled, and what is next

Abstracted: the contents of events, logging, the topic's partitions (one here, so the
order is that of the whole topic), well-formed events of other producers (`LogPath` has their malformed messages), a broker that loses what it wrote. Times of day
are times of logs only, never of the process: expiry and timers may come at any
moment. `MQ_ENABLED=false` (the fallback alone) and `KafkaLogger` without a
fallback, which `LoggingModule` never wires, are left out.

Left out, with the reason:

* Text: prompts, query preprocessing, the enrichment of summaries, language
  detection, the wording of answers and of event summaries, the redaction and
  sanitizing of logged values. No state depends on their content, and what the
  models make of them is a choice in any case. The chunks that are computed of a
  summary are not used.
* One call without state: `FileLogger`, `MongoConnectionClient`, `RedisClient`.
* Called by nobody: `isHealthy`, `getStats`, `getBufferStats`, `invalidateSession`,
  `invalidateCache`, `clearCache`, `connect` and `disconnect` of `KafkaProducer`, the
  setters of `LoggingService`.
* The shutdown hooks of `MqConsumerService`, which destroys its consumer as a mode
  change does and stops the watchdog, and of the two Kafka clients: the process ends
  after them. (In `ConsumerBatch` a destroy may come at any time, also then.)
* `fromEnv` of the sampling policy and the probabilities of `PaymentStatusVO`: any
  rate and any outcome is allowed.

Noticed while modelling, without a run:

* Errors and slow requests are not "always recorded", as `logging.service.ts:172`
  has it: the backpressure gate (line 189) stands before the sampling policy, so
  with `maxPendingFinalizes` logger calls in flight they are dropped like any other
  request. `DropsOnlyWhenFull` says that a request is dropped there only with so many
  calls really in flight. (A request with a remembered id is suppressed before that,
  at line 183.)
* A critical route is compared with the method and the path, so the values of
  `README.md:276` and `backend/.env.template:47` match no request. The `gates` run
  has this configuration; the properties hold without the critical rule.
* `@LogSamplingHint("critical")` of the payments controller is read by nobody.
* The percentages in the comments of `determineGatewayOutcome` and
  `determineOrderOutcome` are not those of the code.
* `parseFloat(...) || default` turns a configured rate of 0 into the default.
* A message of somebody else that is JSON without an event (`{}`) makes the
  catch of `processBatch` throw (`mq-consumer.service.ts:329`). The good events behind
  it in its batch are lost although their offsets are committed; when it is the timer
  that flushes the batch, the rejection is unhandled, which ends a Node process
  unless it is told otherwise, and nothing in the repository does.
  `DropsFollowABrokenMessage` bounds what is lost, `LossesHaveACause` names the cause.
* The error text of a failed synthesis, and the text that replaces a rejected answer,
  are saved as turns of the session like answers and come back as history.
  `FailuresAreNoAnswers` says what sets them apart: their confidence is 0.
* The confidence that the model states is not bounded (`gemini.adapter.ts:228-232`
  reads any number), so an answer may claim more than 1.
* `journals/en/phase3-journal.md:30` promises that duplicate embeddings are prevented.
  `RepeatsHaveACause` states less, since the code allows them: overlapping batches, a
  failed read of the watermark, or a failure between the two writes embed a log again.
* A statistical question caches five results under a key a semantic question of
  up to ten shares.
* Two behaviours of the consumer that nothing in the repository excludes: one
  that connects after the mode turned DIRECT reads on, and a return to KAFKA
  mode during a destroy starts none. `KafkaIsServed` says that the second comes
  about in this way only.
* With `fromBeginning: false`, what is published before the first commit of the
  group, while no consumer runs, is never read (`LossesHaveACause` names it).

Next: an event followed from `finalize()` on, and from the collection to the
embedded logs; the modes of `KafkaPipeline` under the log path, so that a start that
skips messages can be told from one that does not; two sessions over one semantic cache.
