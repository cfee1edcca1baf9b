# TLA+ models of the Email SDK

Specifications, model-checking runs and machine-checked proofs for the delivery
path of the Email SDK (`src/src`). Everything here is translated from the
TypeScript source; documentation is only quoted where it says something the
code does not do.

## 1. Inventory

The SDK runs in one Node.js process. Nothing is preempted: code runs from one
`await` to the next. All the hard behaviour comes from what other callbacks do
*between* the awaits of a delivery, from time, and from exceptions that surface
in code that did not expect them.

| Part | State it keeps | Operations | What makes it correct |
|---|---|---|---|
| `core/EmailSDK` | the worker, the template cache, `bulkConcurrency` | `send`, `send(awaitResult)`, `sendBulk`, `registerTemplate(Typed)`, `getStats`, `shutdown` | a caller is told the outcome of its email, once; a bulk call that resolves has sent everything |
| `queue/EmailQueue` | `jobs`, a mutex | `enqueue`, `dequeue` | bounded; a ready job is never stuck behind one that is not; priority, then FIFO |
| `queue/QueueWorker` | `running`, `loops`, `inFlight` | `start`, `stop`, `workerLoop` | an email is with one loop at a time, is never lost, and ends sent or dead |
| `queue/DLQHandler` | `failedJobs`, a file | `add`, `list`, `remove`, `clear`, load and flush | the dead letters survive a restart |
| `delivery/DeliveryEngine`, `FallbackChain` | per call: the providers left, `sawRetryableFailure` | `deliver` | healthy providers are tried in order; the retry decision is right |
| `delivery/CircuitBreaker` (one per provider name) | `state`, `failureCount`, `openedAt`, `halfOpenProbeInFlight` | `isOpen`, `canRequest`, `recordSuccess`, `recordFailure` | opens for cause, recovers, one probe, no leaked probe slot |
| `delivery/RateLimiter` (one per provider name) | `tokens`, `lastRefillTs` | `acquire` | rate and burst bounded; a waiter ends |
| `delivery/RetryPolicy` | none | `shouldRetry`, `getDelay` | `maxAttempts`; permanent errors not retried |
| `providers/*` | `MockProvider.failRemaining`; the API key of the SendGrid module | `send`, `healthCheck` | the same email whichever provider takes it; errors classified as retryable or permanent |
| `events/*` | listeners | `emitQueued/Sent/Failed/Retrying` | observers do not disturb deliveries |
| `analytics/MetricsCollector` | `points`, `totalQueued` | event handlers, `getStats`, `compact` | the window holds exactly the recent points |
| `analytics/HealthChecker` | none | `check` | - |
| `templates/*` | LRU cache of compiled templates | `get`, `set`, `compile`, `compileTyped`, `render` | least recently used goes first; an email is rendered by the template registered last |
| `core/SDKBuilder`, `ProviderRegistry`, `EmailProviderFactory` | the configuration's objects, the array of providers | `add...Provider`, `with...`, `build` | an SDK has the values it was built with, and a breaker and limiter for each name among its providers |

**How the parts interact.** `send()` puts a job in `EmailQueue`; the loops of
`QueueWorker` take jobs out (`dequeue`), hand them to `DeliveryEngine.deliver`,
and act on its decision: *sent* resolves the caller's promise, *retry* puts the
job back with a `nextRetryAt`, *failed* puts it in the dead letter queue and
rejects the promise. `deliver` asks `FallbackChain` for the providers whose
breaker is not OPEN and, for each in turn, asks the breaker, waits for the rate
limiter, waits for the provider, and reports the outcome to the breaker. Events
are emitted synchronously at each of these points, so listeners (metrics,
loggers, the application's own) run *inside* the worker loop, `send` and
`deliver`.

**What is hard.**
- *Stale answers.* `canRequest()` is answered before two awaits; the list of
  available providers is computed before any. An outcome may reach a breaker
  that has changed state since the request was granted.
- *Order under time.* The queue is sorted only when a job is added, but
  readiness changes with the clock.
- *Limits.* New jobs and retries compete for the last place in the queue.
- *Exceptions.* A listener that throws lands in the worker loop's `catch`, in
  `send`, or kills the loop; a `QueueFullError` on a retry takes the same way;
  with `awaitResult` the promise of `enqueue` is discarded.
- *Shutdown* at any moment of all that.
- *Shared state.* The senders of a `sendBulk` share an index across their awaits;
  builders and the SDKs they built share configuration objects, the array of
  providers and the providers themselves; all SendGrid providers share one key.
- *Long sequences of legal calls*: which templates are cached, and which points
  the metrics still hold, depends on everything called before.

## 2. Plan

Done, in this order: (1) the circuit breaker, (2) the order of the queue,
(3) the delivery engine on top of the breakers, (4) the pipeline from `send` to
the end of an email, with its abstract promise, (5) the mutex that makes the
queue's operations atomic, (6) the token bucket, (7) the dead letter file,
(8) throwing listeners in the pipeline, (9) `sendBulk` and the metrics window
over the abstract promise, (10) the template cache and the engines, (11) the
builder, the SDKs it builds and what the providers make of an email. Proofs
accompany all of them.

Left: a second `start()` of `QueueWorker` while a `stop()` is pending; starvation
by priority under an endless stream of emails. Every safety property of the
passing runs is also a theorem.

## 3. Modules

| Module | Models | Composed with |
|---|---|---|
| `CircuitBreakerOps` | the methods of `CircuitBreaker.ts` as operators on a record (`state`, `failureCount`, `probe`, `age`) | used by the next three |
| `CircuitBreaker` | one breaker and the calls that were granted and have not reported | |
| `CircuitBreakerHistory` | the same with histories of what the breaker forgets | extends `CircuitBreaker` |
| `RetryPolicy` | `shouldRetry`, `extractCode`, `normalizeError` as operators on errors | used by `DeliveryEngine` |
| `DeliveryEngine`, `MCDeliveryEngine` | `deliver()`, concurrently, with `FallbackChain` and one breaker per provider | implements `CircuitBreaker` at each provider |
| `EmailQueueOps` | the comparator of `sortUnsafe` and the stable sort | used by the next |
| `EmailQueue` | `enqueue`, `dequeue`, the clock, and retries with delays | |
| `AsyncMutex`, `FifoLock` | the mutex of the queue; the lock it is to be | `AsyncMutex` implements `FifoLock` |
| `EmailPipeline` | `send`, the worker loops, `shutdown`, throwing listeners | implements `EmailDelivery` |
| `EmailDelivery` | the promise about one email: accepted, then sent or dead, once, and told so | |
| `RateLimiter`, `TokenBucket` | `acquire`/`refill`; the bucket it is to be | `RateLimiter` implements `TokenBucket` |
| `DeadLetters` | `DLQHandler.ts` in memory and on disk | |
| `EmailSDK` | `sendBulk` and `getStats`, among other callers of `send` | over `EmailDelivery`, which `EmailPipeline` implements; extends the next |
| `MetricsCollector` | the retention window, as operators on the array of points | |
| `Templates` | `registerTemplate(Typed)` and the rendering in `send`, with either engine | extends the next |
| `TemplateCache` | `TemplateCache.ts`, as operators on a sequence of entries | |
| `SDKBuilder`, `MCSDKBuilder` | `SDKBuilder.ts`, the registry, and several SDKs built from one builder | extends the next |
| `Providers` | the factory, the constructors and `doSend` of the four classes | |
| `WaitingProofs` | the theorems about `AsyncMutex` and `RateLimiter` | extends both |
| `SetupProofs` | the theorems about `Templates` and `SDKBuilder` | extends both |
| the other `*Proofs` | the theorems about the module of that name | |

An action is the code between two awaits of one call, with every synchronous
call it makes. `PROJECT.json` maps each definition to its lines.

**How state corresponds.** `breaker.age` is `Date.now() - openedAt`, which counts
only while OPEN and only up to `RecoveryTime` (beyond it nothing in the code
tells times apart); `call[c]` is a request in flight, with how `canRequest()`
granted it. In `DeliveryEngine` `todo` is the set of places of the chain that are
left of the `for` loop and `saw` is `sawRetryableFailure`; a provider that refuses is passed over in the
same turn (`Proceed`), as in the code, where `continue` does not await.
In `EmailPipeline`, `place` says where a job is: with the call of `enqueue`
that has not had its effect, in the queue (waiting for its retry time, or ready),
with a loop, or out; `answer` is the caller's promise, of which the first
settlement counts. In `RateLimiter` a token is `TokenUnits` units, so that a
tick may bring in a fraction. In `DeadLetters` a flush is three steps
(serialise and open, which truncates; write; done), each of which may fail, and
the process may crash between any two; `returned` is a history of what the last
call to return left in memory, `cut` of a crash between truncation and write. In
`EmailSDK`, `at[s]` is the payload that
the sender `s` of a `sendBulk` awaits, and a payload stands for its result in the
array; `returning` are the emails the queue has taken in whose `send()`, without
`awaitResult`, has not resumed and so not emitted `email.queued`; `stopped` says
that `shutdown()` has been called; `log` is a history of every point the collector ever recorded. In
`Templates` a compiled template is its kind, what its source is like and the
number of its registration. In `SDKBuilder`, `objects[s]` are the objects ever
made for a section of the configuration; an SDK refers to one by its place, or
has been given its value. `guards` of an SDK stands for its Maps of breakers and
limiters: for each name, the place of the provider for which they were made.

**Abstractions to know of.**
- The pipeline leaves out the order of the queue. It relies on `dequeue()` to
  return a ready job whenever there is one, which is `ReadyNeverBlocked`.
- The pipeline takes from `DeliveryEngine` that `deliver()` settles and asks for
  a retry only with attempts left (`DeliveryEnds`, `RetryDecisionRight`).
- `EmailSDK` takes from the pipeline what `KeepsPromise` and `EveryEmailEnds` say,
  with listeners that do not throw, and so with loops that do not die. Like
  `EveryEmailEnds` it assumes nothing of emails once `shutdown()` has been called.
- `EmailQueue` takes the bodies of `enqueue` and `dequeue` to be atomic, which
  is `ImplementsFifoLock`, proved.
- `DeliveryEngine` takes from the limiter that `acquire()` returns or throws,
  which is `EveryWaiterEnds`.
- The clock is monotone; `Date.now()` may be set back in reality, and the SDK
  does not handle that.
- An unhandled rejection is assumed not to end the process (Node's default would
  end it; an application that installs a handler goes on, and that is the harder
  case for the model).
- In `DeliveryEngine` provider names are distinct. Providers of one name share a
  breaker and a limiter, as `SDKBuilder` shows of the maps.
- What the template libraries and mail services do is external: Handlebars and
  Mustache render or throw, a service delivers to the recipients it is given.
- `job.status`, `inFlight` (its loop awaits every promise in
  it, so `stop()`, having waited for the loops, finds them settled) and the
  empty callbacks `onProcessed` and `onError` are left out.
- Rounding of token fractions is left out; payloads are abstracted to what JSON
  makes of them.

## 4. Runs

| Run | Distinct states | What it shows | Bounds, and why they are enough |
|---|---|---|---|
| `breaker` | 3,746 | The probe slot is never leaked; late failures are bounded; only consecutive failures open; changes of state have their cause; an OPEN breaker becomes HALF_OPEN while somebody keeps asking | Threshold 3, recovery 3, four callers: more callers than the threshold, so that calls are still in flight after it opened |
| `queue` | 1,585,369 | The queue is whole and bounded; a ready job is never blocked; first attempts in priority and submission order | Four emails, two priorities, one retry each with delay 1 or 2, a queue of three, clock to 2: refusals, ripening between sorts, and equal timestamps all occur |
| `mutex` | 976 | The mutex is a FIFO lock, and everybody gets through | Five callers, bodies that may throw |
| `engine` | 214,533 | Healthy providers are tried; the retry decision is right for every error; breakers are used as they assume, and so stay sound on every path; deliveries end | Two deliveries, two providers, threshold 2, two attempts, statuses none, 404, 429, 503, each normalised or not |
| `limiter` | 21,579 | Rate and burst; lazy is the same as continuous; waiters end | Three callers, 2 units per tick and 3 to the token, capacity 7: neither divides the other; both modes |
| `pipeline` | 249,762 | Nothing lost or held twice, with listeners that throw anywhere and loops that die of it; `EmailDelivery` is implemented for the emails whose own events make nobody throw; every queued email ends unless the SDK is shut down or every loop is dead; `shutdown()` returns | Three emails (two awaited; the events of one awaited and of the other one may throw), two loops, a queue of one, two attempts: new jobs and retries compete for the one place, and one loop or both may die |
| `dead_letters` | 1,083,606 | What the last call to return left is what a restart brings back, for a crash at any moment, unless the disk failed, a job cannot be represented, or the crash fell between truncation and write; letters are not multiplied; an unserialisable job costs none of those on disk | Three jobs, four calls of `add`, every body, every failure |
| `bulk` | 246,172 | A `sendBulk` that resolves has sent each payload once, results in order; it answers unless its unfinished senders all wait for emails that were refused or left behind by `shutdown()`; a rejected call goes on sending; `getStats()` counts exactly the window, and the queued events emitted so far | Three payloads for two senders, another caller's email, a named provider and the catch block's "unknown", `shutdown()` at any moment, retention 1, clock to 2: a payload is left when both senders have one, either may fail first, and points are stale, kept and of the limit's age |
| `templates` | 533,822 | The cache is LRU; an email is rendered by the template last registered, unless it has been evicted, or is refused for a fault of its own | A cache of two, the empty id and three others, four registrations of every kind, any number of sends, both engines: evictions, replacements, and the empty id as the oldest |
| `builder` | 1,036,571 | An SDK keeps the configuration it was built with; every provider it was built with has a breaker and a limiter, shared just with those of its name; every provider sends the same email but for the exceptions named; mocks fail as often as told | A section passed by reference and one by value, two fields, a setting; five offers of all four types, two of one name and two of SendGrid; two providers, two `with...()` calls, two builds, two sends at a time; all payloads for two people |

Every run is complete within its bounds. The clock of `breaker` and `limiter` is
not bounded but saturates where nothing tells times apart any more. The
properties are ones that a plausible slip in the code breaks: for each there is
a mutant of a definition ("Mutant:" in the modules), with which TLC finds it
violated.

`CHECK_DEADLOCK FALSE` in `EmailQueue`, `EmailPipeline*`, `EmailSDK` and
`SDKBuilder`: there the system may come to rest, when all emails are done,
`shutdown()` has resolved, or nobody calls again (within the bounds).

Two runs end in a violation, and are kept as such:

| Run | What the code does |
|---|---|
| `breaker_single_probe` | In HALF_OPEN the failure of a call granted while CLOSED re-opens the breaker and frees the slot of a probe still in flight; the next probe runs beside it |
| `pipeline_refused` | With `awaitResult` and a full queue, the caller's promise never settles |

Seen while modelling, without a run of their own:

- *Delivery.* A delivery whose providers all refuse `canRequest()`, having been
  available at its start, ends in the dead letter queue untried, with attempts
  left (`DeliveryEngine.ts:88`). A success of a call granted earlier closes an
  OPEN breaker. An email may be sent while the circuit is OPEN, because it waited
  for its limiter after `canRequest()`. The provider is blamed for a
  `RateLimitError`.
- *Queue and worker.* Low-priority jobs may starve. A retry that finds the queue
  full goes to the dead letter queue with attempts left. `shutdown()` leaves
  queued emails and their awaiting callers behind. `stop()` rejects on the first
  dead loop while others run. A concurrency of 0 starts no loop.
- *Listeners.* One of `email.sent` that throws puts the email that was sent into
  the dead letter queue and rejects its caller (`QueueWorker.ts:108`). An email
  whose `email.failed` listener throws is in the dead letter queue twice, and
  `remove()` takes out one of the entries.
- *Dead letters.* The `Buffer` of an attachment comes back from the file as a
  plain object; a single job that JSON cannot represent (a BigInt in
  `templateData`) keeps all later letters off the disk; a write that the disk
  cuts short, or a crash between the truncation of the file and its being written,
  costs all letters on disk, not only the new one, although the file is there for
  "persisting failed jobs across restarts" (`DLQHandler.ts:7`).
- *Bulk.* A refused email, whose awaited promise never settles, hangs
  `sendBulk()`, and so does a `shutdown()` that leaves its emails in the queue; a rejected call goes on sending, and the results of what it sends
  are lost.
- *Metrics.* With `awaitResult` an email is counted in `totalQueued` before the
  queue has taken it in, and stays counted when the queue refuses it, so that
  "Total emails queued" (`SDKStats.ts:22`) is more than were; without it
  `totalQueued` lags behind, by turns.
- *Templates.* A typed template never renders with Mustache: every send of it is a
  `TemplateError`. An empty Mustache template, and an evicted template, are
  silently not rendered. The template with the empty id is never evicted, nor
  anything younger while it is the oldest, so that the cache outgrows its size.
- *Providers.* Amazon SES is given a raw message when there are attachments, with
  a list of destinations that leaves out cc and bcc (`AwsSesProvider.ts:50`). The
  key of the SendGrid provider constructed last is used by all. Two providers of
  one name, which no `add...Provider()` refuses, share one breaker and one limiter,
  where `USER.md:193-194` says "per provider". A provider added
  to a builder after `build()` is in the chain of the SDKs built before, without
  a breaker or a limiter, or with those of an earlier provider of its name.

## 5. Fairness

Node runs every callback that is due, so a step that follows an `await` on a
promise that has settled, or a timer, has weak fairness (`AsyncMutex`: resumption
and bodies; `RateLimiter`: `Look`, with time passing; `EmailPipeline`: effects
of `enqueue` and `dequeue`, wake-ups, retry times, the return of `stop()`).
That `provider.send()` settles is an assumption (`Answer` in `DeliveryEngine`,
and `Deliver` in `EmailPipeline`): the code has no timeout there. In `EmailSDK`
the answer of `enqueue` (acceptance or refusal) is fair, and so is the resumption
of `send()` after it (`Queued`); the end of each accepted
email is fair until `shutdown()` is called, which is `EveryEmailEnds` of the
pipeline below, and not after; senders go on
when their promise has settled, and `sendBulk` returns. No fairness is given to calls from outside: `send`, `shutdown`, `acquire`, `runExclusive`.
`EventuallyRecovers` needs somebody to look at the breaker, as recovery is
computed on demand: `Observe` is fair, which the engine justifies while emails
arrive, as `orderedAvailable()` looks at every breaker of the chain.

## 6. Proofs

TLAPS proves, for all values of the constants (under the named assumptions of
each module):

- `CircuitBreakerProofs`: type correctness, `ProbeSlotHeld`,
  `LateFailuresBounded`, and over the histories `CountsConsecutiveFailures` and
  `OpensForCause`. The invariant `IInv` adds `CountInv`, the range of
  `failureCount` in CLOSED and HALF_OPEN: without it nothing is known of the
  count at the moment the breaker opens, from where the failures of the calls in
  flight are added; each of those needs a call that then ends, which the
  cardinality of the calls in flight accounts for.
- `EmailQueueProofs`: type correctness, `QueueHoldsTheWaiting`,
  `ReadyNeverBlocked`, `FirstAttemptsInOrder`. Strengthening: the array is sorted by the comparator of
  the time of the last sort. A job that has become ready since was not ready
  then, so the jobs before it were ready then or have an earlier retry time, and
  are ready now. For the order of first attempts `SubmissionInv` says that emails
  are numbered in the order of their times; where times are equal it is the
  stability of each sort that keeps the order (`SortKeepsOrder`).
- `WaitingProofs`, about the two parts a caller waits for. `AsyncMutex`:
  `OneHolder`, and that it implements `FifoLock`, for any number of callers. The
  invariant says exactly who is in `waiters`, so that the first of them is
  neither the holder nor called twice. `RateLimiter`: `RateBounded`, and that it
  implements `TokenBucket`. The invariant is `burst + Refilled <= Capacity`: what
  was granted beyond the flow in the worst stretch of time is missing from the
  bucket. The capacity bounds both at once, which makes it hold however long
  the limiter was idle.
- `DeliveryEngineProofs`: type correctness, `HealthyProvidersTried` and
  `RetryDecisionRight` for any chain, any number of deliveries and attempts, and
  that the calls of all deliveries at one provider together are a behaviour of
  `CircuitBreaker` (`UsesBreakersCorrectly`), so that what is proved of one
  breaker holds of every breaker in the engine. `SteadyInv` says which places of
  the chain a delivery may have left behind, `SawInv` that
  `sawRetryableFailure` is what the failures so far make it. Every argument about
  the next provider rests on a set of places having a least one.
  `BreakersStaySound` is proved by `Sound`, which says of a breaker and of the
  calls at its provider what the invariant of `CircuitBreakerProofs` says: each
  operator of `CircuitBreakerOps` keeps it, and `StepMaps` says that a step of the
  engine is such an operator at each provider. So the limiter's exception has to
  be reported as a failure, although the provider is not to blame: a `catch` that
  passes over it (`RateLimitedUnblamed`) loses the probe slot for good.
- `EmailPipelineProofs`: type correctness, `HeldByOneLoop`, `NothingLost`,
  `AttemptsLeft`, `ShutdownClean`, `QueueBounded`, with or without throwing
  listeners, and that the pipeline implements `EmailDelivery` (`KeepsPromise`).
  `PInv` adds that a busy loop holds a job and that a job outside has no
  attempts: that an email is not lost rests on its being in one place, and that
  on one loop holding it. For the refinement `StepEffects` says what any step
  does to one email, and `AnswersDue` what its caller has been told so far.
- `EmailSDKProofs`: `BulkResultsTrue` and `StatsCountEvents`, for any number of
  payloads, senders and other callers. For the first the invariant adds that, as long as no sender has died, what has
  been taken is done or awaited by a sender (`NoneDropped`), and that a living
  sender rests only when everything has been taken (`AllTakenAtEnd`). For the
  second, `WindowInv` says that the points held are the log from some place on,
  before which everything is too old: as the log is in the order of time,
  dropping the points before the first that is not too old drops just the stale
  ones. `QueuedInv` adds that nothing has happened to payloads not yet taken, so
  that handing them over counts each of them once, and that what is `returning`
  was accepted and awaits no result, so that each `Queued` adds one email to those
  announced.
- `DeadLettersProofs`: type correctness, `CrashSafe` (inductive once the type
  invariant says that the file holds only what JSON gives back unchanged, and that
  between calls `returned` is what is in memory),
  `UnserialisableLeavesFile` and `NoneMultiplied` (by counting the entries of a
  job through `Append` and `RemoveAt`).
- `SetupProofs`, about what an application sets up. `Templates`: type correctness,
  `CacheIsLRU` and `RenderedAsRegistered`, for a cache of any size. `WellKept` says
  that the ids in the cache, in its order, are the last of `recent`: that is what
  makes the first entry the least recently used one, whether it is at hand by
  `get`, replaced by `set` or found too old. That the cache outgrows its size only
  with the empty id in use is part of the invariant. `SDKBuilder`: type
  correctness, `ConfiguredAsSaid`, `GuardedByName`, `SameEmailByAll` and
  `MocksFailFirst`, for any configuration, offers, people and bounds.
  `ConfiguredAsSaid` alone is not inductive: `NewestSaid` adds that the builder's
  newest objects hold what was said last, so that a new SDK starts right, and
  `RefersWithin` that an SDK refers to objects there are, so that an object that
  is made later is none of its own. What a further call changes about the last
  one to speak of a field (`LastOfAppended`) rests on a set of positions having a
  greatest one (`LastPlace`). So does `GuardsMade`, that of the providers of a name
  the last one's breaker is in the Map; `GuardsBelong` says that each was made for
  a provider of its name. `MocksCountDown` ties `failRemaining` to what was
  answered. That each class passes an email on (`EachPassesOn`) is a case analysis of
  `doSend` over all emails. `OffersAssumption` says that offers are of the types the
  factory knows and that `failFirst` is a natural number.

Only model-checked: everything about liveness (`EventuallyRecovers`,
`EveryCallerServed`, `EveryWaiterEnds`, `DeliveryEnds`, `EveryEmailEnds`,
`ShutdownReturns`, `BulkAnswers`, `PayloadsTaken`), which is out of this prover's
reach, as a temporal argument from fairness needs `ENABLED` or induction over
time. The type invariants of the breaker, the queue, the mutex, the limiter, the
dead letters, the engine, the templates and the builder are proved and not listed in
their runs.

## 7. Not modelled

- `HealthChecker` and the `healthCheck()` of the providers: they keep no state, and
  nothing in the SDK reads what they return.
- The libraries and services behind the providers and template engines; how
  attachments are encoded; a `failureRate` of `MockProvider` other than zero.
- The average latencies in `getStats()`.
- A `start()` of `QueueWorker` while a `stop()` is pending: nothing in the SDK calls
  `start()` a second time.
- Endless streams of emails, and so starvation.
- Formatting in the loggers (that they may throw is modelled), types and errors
  (declarations; the models use the distinctions they make), the examples.
