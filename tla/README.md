# A formal model of go-rest-api

TLA+ modules for the stateful parts of the service, TLC configurations that
check them on small instances, and TLAPS proofs about the background-job pool in
memory and on Redis, the PostgreSQL outbox, the life of the process with the
in-memory outbox, the idempotency middleware, the rate limiters, sessions over
the cached user store, password reset over the user store, and account creation.
`PROJECT.json` lists the components, the runs, the mutants, the source lines of
every definition, the findings, the hazards and the theorems.

## 1. The system and its parts

The service is one Go process (`cmd/api/main.go`) that serves HTTP and runs two
kinds of goroutines in the background: the workers of the job pool and the
dispatcher of the event outbox. Without configuration all state is in memory;
`DATABASE_URL` moves users and the outbox to PostgreSQL, and `REDIS_URL` moves
jobs, idempotency records, blacklist, reset tokens, cache and limiters to Redis.

| Part | Source | State | Who acts on it |
|---|---|---|---|
| job pool | `internal/jobs` | queue or stream, dead letters, `Attempts`, `RunAfter` | handlers enqueue, workers run and retry, main stops |
| event outbox | `internal/events` | queue or `events_outbox` table | handlers enqueue, one dispatcher per process publishes |
| idempotency | `internal/idempotency`, `internal/server/idempotency_middleware.go` | one record per key with a TTL | concurrent POST requests |
| tokens | `internal/auth`, `internal/handler/auth.go`, `internal/server/auth_middleware.go` | signed tokens, jti blacklist | concurrent login, refresh, logout, access |
| password reset | `internal/handler/auth.go`, `reset_tokens*.go` | reset tokens with a TTL | concurrent forgot and reset requests |
| user store | `internal/store` | slice or table with a unique e-mail | the user and auth handlers |
| user cache | `internal/store/cached_user_store.go`, `internal/cache` | entries with a TTL | concurrent readers and writers |
| rate limiters | `internal/ratelimit` | one bucket per key | every request |
| process | `cmd/api/main.go` | what was built on what, contexts, deferred closers | main, requests, workers, dispatcher |

The parts meet in the account handlers: creating a user goes through the
idempotency middleware, the user store, and the outbox (`CreateUser`) or the job
queue (`Register`). A worker and the dispatcher then pick up what was written.
They meet again in `main`, which builds them one after the other, each on Redis
or PostgreSQL or in memory, and stops them in an order of its own; and in the
session handlers, which look users up through the cache.

## 2. Modules

| Module | Models | Built on |
|---|---|---|
| `JobQueue` | in-memory queue, registry, workers, dead letters, pool shutdown | refines `JobLifecycle` |
| `JobLifecycle` | abstract: what a queue promises about one job | |
| `JobQueueProofs` | theorems about `JobQueue` | `JobQueue` |
| `RedisJobs` | the same pool on a Redis stream, with faults and crashes | |
| `RedisJobsProofs` | theorems about `RedisJobs` | `RedisJobs` |
| `MemoryOutbox` | in-memory outbox and dispatcher (no `Next` of its own) | |
| `Process` | composition: start of the components and their fallbacks, requests, workers, dispatcher, shutdown, deferred closers | `MemoryOutbox` |
| `ProcessProofs` | theorems about `Process` and `MemoryOutbox` | `Process` |
| `DBOutbox` | PostgreSQL outbox, one dispatcher per replica, broker | refines `EventChannel` |
| `EventChannel` | abstract: an at-least-once channel with competing consumers | |
| `DBOutboxProofs` | theorems about `DBOutbox` | `DBOutbox` |
| `Idempotency` | middleware and both record stores, for one key | |
| `AuthSession` | composition: token life cycle of one user, both blacklists, `Me`, over the cached store, in which other requests update and delete the user | `CachedUserStore` |
| `AuthSessionProofs` | theorems about `AuthSession` and `CachedUserStore` | `AuthSession` |
| `UserStore` | `MemoryUserStore` (no `Next` of its own) | |
| `PasswordReset` | composition: forgot and reset over both token stores and the user store, which other requests write to | `UserStore` |
| `PasswordResetProofs` | theorems about `PasswordReset` and `UserStore` | `PasswordReset` |
| `CachedUserStore` | read-through cache of one user | |
| `RateLimiter` | both limiters for one client key, both implementations | |
| `MiddlewareProofs` | theorems about `Idempotency` and `RateLimiter`, which share no state | `Idempotency`, `RateLimiter` |
| `Accounts` | composition: account handlers over PostgreSQL, idempotency records, outbox and job queue | |
| `AccountsProofs` | theorems about `Accounts` | `Accounts` |

Each `MC<module>` instantiates its module for TLC (symmetry sets, function-valued
constants). `MCMiddleware` instantiates `Idempotency` and `RateLimiter`, and
`MCUserStores` instantiates `PasswordReset` and `CachedUserStore`: the two share no
state, and a variable `part` says which of them moves in a behaviour, so every
state of each is reached as it would be alone. `CachedUserStore` and `RateLimiter` give their specifications names
of their own (`CacheSpec`, `LimiterSpec`), because the modules that extend them
extend another specification as well. Definitions marked "Mutant" are plausible
bugs; each property of a passing run is violated when one of them replaces the
definition it precedes.

### How state and actions correspond to the code

* **Atomicity.** A critical section of a mutex, a Redis command or script and an
  SQL statement is one action. Between two of them anything else may happen, so
  `Lookup`, handler and `Save` of a request, or `IsRevoked` and `Revoke`, are
  separate actions, and so are the XACK and the XADD of a Redis `Nack`. A control
  state `pc[...]` (in the cached store
  `call[...]`) says where a goroutine is.
* **`sync.Cond`.** Waiting is a control state; `Signal` sends one waiter and
  `Broadcast` every waiter back to the head of the loop.
* **Time.** A clock in seconds (`JobQueue`) or in ticks. In `JobQueue` it moves
  only while a job or a timer lies in the future; elsewhere `MaxTime` bounds it
  (`MaxTicks` in `RateLimiter`). In `CachedUserStore` an entry carries the ticks
  it has left.
* **Failures.** `Faults` names the calls that may fail, `StoreFaults` those of the
  cached store. A failing call that may have taken effect (a lost GETDEL reply,
  a limiter script, a broker reply, the reply to an INSERT) is modelled both ways. An XADD whose reply is lost has appended its entry and
  reports a failure, or is sent again by the client and appends a second one.
* **Crashes.** `RedisJobs`, `DBOutbox` and `Accounts` may crash at any step;
  what is in Redis or PostgreSQL stays, what goroutines hold is gone.
  PostgreSQL drops the locks of a connection that is lost.
* **In memory or on Redis.** Where one module covers both implementations of an
  interface (`Idempotency`, `AuthSession`, `PasswordReset`, `RateLimiter`) the
  variable `redis`, in `RateLimiter` `onRedis`, is main's choice: it has either
  value initially and no step changes it, so every run covers both. Only calls of
  Redis fail. Each builder pings Redis for itself and its answer holds for the
  life of the process, so in `RateLimiter` every limiter has its own choice, in
  `RedisJobs` the dead-letter list has, and `Process` lets Redis come or go
  between two builders.
* **The process.** `Process` keeps of the job queue how many jobs it holds, of a
  request whether it is being handled, and of the PostgreSQL outbox the control
  of its dispatcher; the details are in the modules of those parts. A deferred
  closer is the name of its component on the stack `defers`. `os.Exit(1)` and a
  signal before `signal.NotifyContext` skip the closers.
* **Requests.** A request is served once; a client's retry is another request
  with the same key. "disconnect" ends the request's context; the middleware's
  own 5-second timeout has the same effect on what follows.
* **Data.** Names, payloads, validation and JSON are left out. Bodies, e-mails
  and tokens are model values; an e-mail in `Accounts` has a lower-case and a
  mixed spelling, because `Register` lowers it and `CreateUser` does not. A row
  of the outbox is its `occurred_at` rank. A token-bucket token is `Cost` units,
  so that fractions of a token are whole numbers.
* **History variables** (marked in the modules) record what happened and never
  appear in a guard of the code's actions.

## 3. Runs

| Run | States | Shows |
|---|---|---|
| `job_pool` | 148,253 | conservation, no duplication, retry budget, backoff, no lost wake-up, refinement of `JobLifecycle`; accepted jobs end and shutdown gets past `wg.Wait` |
| `redis_jobs` | 557,408 | conservation (what is lost is lost by a named failure, or by a crash between the XACK and the XADD of a `Nack`), no duplication but by a resent XADD, and the retry budget, with failing and unanswered Redis calls and a crash; no job is forgotten while a worker is left; cancelling ends the workers |
| `process` | 618,266 | nothing is used after its Close, a clean exit cuts only the dispatcher short, a signal ends the process; events are published in order and once, no sleeping over work |
| `db_outbox` | 73,590 | refinement of `EventChannel`; no inserted event is lost, duplicates have one of four causes, events reach the broker while a dispatcher runs |
| `middleware` | 739,985 | idempotency: replays and conflicts are justified; a retry of an answered request does not execute. Limiters: budget of every window kept, refusals justified, a sufficient `RetryAfter` |
| `sessions` | 5,547,540 | tokens given up stay rejected unless Redis failed; a deleted user's tokens run out after one cache entry and one lifetime even then, and even if the invalidation failed |
| `user_stores` | 237,860 | resets: a token pays for one change, of the user it was issued for; ids ordered and never reused. Cache: an outdated user is served only by a known race or a failed invalidation; the TTL repairs the cache in the end |
| `accounts` | 5,295,307 | one row per idempotency key; served requests are announced; a retry is told 409 for its own user only if nothing was recorded of the first request or a third overlapped with it |

Every module states its type invariant. `job_pool` checks it, because the proofs
about the pool prove it; elsewhere it documents the state.

Four runs end in a violation of a sentence of the documentation (quoted in
`PROJECT.json`, "findings"):

| Run | The code |
|---|---|
| `redis_jobs_timeout` | re-adds a job with the context whose deadline has passed: the job is dropped |
| `redis_jobs_retries` | counts an attempt in `runJob` and again in `Nack`: a job is dead-lettered after one retry instead of two |
| `user_store_emails` | asks only the users in front of the updated one whether they have its new e-mail: an update can make a duplicate |
| `db_outbox_delivery` | ends the dispatcher at the first empty table: later events are not delivered |

### Divergences from the documentation met while modelling

The models follow the code; the passing properties say what holds instead.

| The documentation | The code | What holds |
|---|---|---|
| retried "up to `MaxRetries` times (default 2)" (`docs/REFERENCE.md:389`) | `jobs/redis.go:162` counts an attempt that `runJob` has counted: two runs instead of three (run `redis_jobs_retries`) | `RetryBudget`: never more than three |
| "owns a worker pool" (`docs/REFERENCE.md:388`) | `jobs/registry.go:88`: a Redis worker ends at the first empty two-second poll | `JobsFinishWhilePoolLives` |
| "the dispatcher flushes at-least-once" (`docs/REFERENCE.md:425`) | `events/outbox.go:165`: in memory an event whose publish fails is dropped, as `docs/adr/0003` admits | `FlushedInOrder` |
| "concurrent dispatchers cannot claim the same row" (`docs/adr/0003:27`) | `events/outbox.go:297` unlocks the row before publishing | `NoDuplicates` |
| "The handler does not run a second time" (`docs/REFERENCE.md:358`) | `idempotency/memory.go:152`: two concurrent requests both miss and both run it | `RetriesDoNotExecute` |
| "remembers the first response" (`idempotency/memory.go:2`) | `idempotency/memory.go:117`: a later save replaces it | `AnswersAreJustified` |
| "if it errors, the request proceeds" (`docs/adr/0003:23`) | `server/idempotency_middleware.go:77` passes on a request whose body is consumed: 400 | action `Fallback` |
| "a successful ... response is replayed" (`docs/OPERATIONS.md:256`) | `server/idempotency_middleware.go:64`: failures are recorded and replayed too | `AnswersAreJustified` |
| "cannot grow without bound" (`idempotency/redis.go:15`) | `idempotency/redis.go:93`: a failed EXPIRE leaves a record without TTL | `Never` in `redisExpiry` |
| refresh token "single-use" (`docs/REFERENCE.md:191`) | `handler/auth.go:314`: two concurrent refreshes of one token both succeed | `GivenUpTokensAreRejected` |
| "an update uses another user's email ... `409 Conflict`" (`docs/REFERENCE.md:283`) | `store/user_store.go:104` asks only the users in front (run `user_store_emails`) | in memory nothing; the table has a unique index, `OneRowPerKey` |
| "a unique bucket per limiter" (`cmd/api/main.go:385`) | `ratelimit/limiter.go:199`: on Redis both limiters use one bucket | `WithinBudget`, `DenialsAreJustified` |
| "the same Allow / RetryAfter contract" (`ratelimit/limiter.go:10`) | `ratelimit/limiter.go:192`: an idle Redis bucket comes back full after 60 s | `WithinBudget`, with the refill `Speed`: faster than the rate where a burst takes more than 60 s to refill |
| "a `Retry-After` header in seconds" with every 429 (`docs/REFERENCE.md:312-314`) | `server/ratelimit_middleware.go:32` writes `retry.String()`, a Go duration such as `201ms`, and no header if it is 0 | `RetryAfterSuffices`, about the duration that `RetryAfter` answers; the header's text is not modelled |
| "expected positive RetryAfter when denied" (`ratelimit/redis_test.go:53`) | `ratelimit/limiter.go:225`: 0 when the HMGET fails or a field cannot be parsed | `RetryAfterSuffices` says nothing of a 0 on Redis |
| "The supplied context is honoured by go-mail through a DialContextFunc" (`email/smtp.go:105`) | `email/smtp.go:141` discards the context and `:163` calls `DialAndSend`, which takes none: only go-mail's own timeout ends a send, also at shutdown | `ProcessEnds`, with that timeout as fairness |
| "prevents two dispatchers from picking the same row" (`cmd/api/main.go:313`) | `events/outbox.go:297`, as above | `ImplementsChannel` |
| a retry "replays the original response" (`docs/adr/0003:37`) | nothing is recorded for a client that has disconnected (`server/idempotency_middleware.go:47`), when the HSET fails (`idempotency/redis.go:83`, the error dropped at `:123`) or when the process crashes before it; the retry gets 409 | `RetriesReplay` |

### Bounds and why they are enough

* `JobQueue`, `RedisJobs`: two workers and two jobs, since every race of the
  queue is between two goroutines over one job, or over a ready and a delayed
  one. `MaxRetries` is the code's 2, so first try, retry and exhaustion occur.
  In `RedisJobs` one job may have an unanswered XADD (`MaxUnsure` 1) and one crash
  happens, between the two commands of a `Nack` too. A failing XACK is not among
  the faults of the run; XACKs still fail there with every context that is over.
  With `"ack"` among the faults the same properties hold, on 1,875,844 states.
* `DBOutbox`: three events, so that a row can be inserted before, between and
  after claimed ones; two replicas; two restarts. `copies` stops counting at 2,
  "more than once".
* `Process`: two events, one in the dispatcher's hands and one queued; the two
  workers main starts, with one job, so that one is busy and one idle; one
  request; Redis comes or goes once while main starts (`MaxFlips` 1). The proofs
  of section 4 have none of these bounds.
* `Idempotency`: three requests: one answered, one still running, one retry;
  two bodies; the clock passes one lifetime (`TTL` 2, `MaxTime` 3).
* `AuthSession`: three requests and a pair that is already issued, enough for two
  competing refreshes or logouts of one token and a later use, or for a reader
  that puts a deleted user back into the cache and a refresh that finds it. The
  user is updated or deleted once (`MaxWrites` 1); the failing cache calls of the
  run are the fill and the invalidation. The clock (`MaxTime` 3) passes the
  lifetimes of an access token (1), of a refresh token (2) and of a cache entry
  (2). The proofs of section 4 have none of these bounds.
* `PasswordReset`: two competing requests and two tokens; the clock passes a
  lifetime; three users over two e-mails, so that one can be deleted and its
  e-mail given to another.
* `CachedUserStore`: two readers, two writers and three writes, one more than
  the race of a stale fill needs.
* `RateLimiter`: rates and bursts that leave fractions of a token (`Cost` 2,
  refill 3 and 1, bursts 6 and 4); the clock runs long enough to empty, refill
  and cap a bucket and to drop an idle one. `Idle` is 3 ticks, one less than the
  burst of the slower limiter takes to refill, so that a bucket comes back full
  too early. With the defaults (40 at 20 per second and 10 at 5 per second, against
  60 seconds) it does not, but `config.go` accepts values with which it does.
* `Accounts`: three requests (two that overlap and a retry) over one address in
  two spellings, and two ids, one of which other requests may delete or give
  another e-mail (`MaxMoved` 1). Crashes and disconnects are not bounded.

`CHECK_DEADLOCK FALSE` is set where the system comes to rest: all requests
served, all events inserted and the dispatcher gone, or time at its bound. In
`JobQueue`, whose end is a stuttering `Stopped`, deadlock is checked.

### Fairness

* `JobQueue`: weak fairness of each worker, of `Start`, of the clock and of
  main's shutdown once begun. Go schedules runnable goroutines, and handlers
  have a 30-second timeout. Nobody has to submit a job or to shut down.
* `RedisJobs`: weak fairness of each worker; a blocked read returns after two
  seconds.
* `Process`: weak fairness of the dispatcher, of each worker and of a shutdown
  once begun: Go schedules runnable goroutines, `Send` ends by its timeout and
  `srv.Shutdown` by `ShutdownTimeout`. A request may hang; nobody has to signal.
* `DBOutbox`: weak fairness of each dispatcher; strong fairness of a successful
  publish and of a successful DELETE, that is, neither fails for ever. Restarts
  are not assumed.
* `CachedUserStore`: time passes, and a read that has begun goes on. A writer
  need not reach its invalidation.

## 4. Proofs

`JobQueueProofs` proves, for any sets of jobs and workers and any `MaxRetries`:

* `TypeCorrectness`: `Spec => []TypeOK`;
* `Conservation`: `Spec => []NoJobVanishes`;
* `NoDuplication`: `Spec => []NoJobTwice`;
* `RetryBudgetKept`: `Spec => []RetryBudget`;
* `NoWakeupLost`: `Spec => []NoLostWakeup`;
* `RetriesSpaced`: `Spec => []RetriesAreSpaced`;
* `PoolImplementsLifecycle`: `Spec => ImplementsLifecycle`, the refinement of
  `JobLifecycle`;
* all from `JobInvariance`: `Spec => []JobInv`.

The only assumption is `JobQueueAssumption`: `MaxRetries` is a natural number,
the empty job `NoJob` is no job record, and the pool is finite, as the count that
main passes to `Start` makes it.

None of the first three safety invariants is inductive. That a job popped by a worker
is counted once needs that a worker inside `runJob` holds a job record whose
`attempts` fit its position (`HeldJobs`); that a submitted job starts its budget
at zero needs that jobs never accepted were never tried (`FreshJobs`); that
`Start` disturbs no worker needs that all are idle before (`IdleUntilStart`).
And the invariants need each other: conservation says where a job can be,
`NoJobTwice` that a hand-over empties the place it came from, and the budget
that `attempts` in that place equals the history. `JobInv` is their conjunction.

The proof has one lemma per action that moves a job (`InvEnqueue`,
`InvDequeue`, `InvRunJob`, ...), and one lemma, `QuietStep`, for all actions
that only move control. Two lemmas about sequences, `AppendRecord` and
`PopRecord`, say what appending and popping do to the set of queued jobs and to
their distinctness. The refinement has a lemma per kind of step
(`EnqueueImplements`, `HandlerImplements`, ...) that says which job changes its
status and that every other job keeps it; it rests on the invariant that a job is
in one worker's hands at most, so that the status of a job is well defined.

`NoLostWakeup` compares the number of queued jobs with the number of workers on
the way to the queue. It is inductive with `ClosedByMain` (only main closes the
queue, after cancelling); the proof counts what a step adds to or takes from
each side: an `Enqueue` signals a waiter, a worker that leaves the queue takes a
job along, and one that goes to wait has found it empty. `RetriesAreSpaced`
needs `Ripe`: a queued job carries a `runAfter` no earlier than the sum of the
backoffs of its attempts, and that sum has passed for a job in a worker's hands.
The sum is written in closed form, doubling up to the cap of 60 seconds; a lemma
shows that each step of it is the backoff that the code computes.

`DBOutboxProofs` proves, for any events, replicas, number of restarts and faults:

* `NothingLost`: `Spec => []NoEventLost`;
* `OutboxImplementsChannel`: `Spec => ImplementsChannel`, the refinement of
  `EventChannel`;
* both from `OutboxInvariance`: `Spec => []IInv`;
* `DuplicatesAreExplained`: `Spec => []NoDuplicates`.

`MarkPublished` deletes a row without asking the broker, so neither is inductive:
`Hands` adds that a dispatcher about to delete has published the event it holds,
and that one between two events holds none. Every step then is a step of the
channel (`Enqueue` sends, `SelectRow` takes on, `Publish` hands over,
`MarkPublished` settles, every failure forgets) or leaves it unchanged.
`NoDuplicates` needs `Once`, which follows an event without a doubt through its
life: held by one dispatcher at most, no copy at the broker before that one has
published, and while the row of a published event is still there, the dispatcher
that published it about to delete it. `Known` adds that nothing is held or
published that was not inserted, so that an `Enqueue` starts from nothing. The
assumption `DBOutboxAssumption` says that events are numbers other than 0, the
mark of a dispatcher without a row.

`ProcessProofs` proves, for any number of requests, workers, jobs and events:

* `NothingUsedAfterClose`: `Spec => []NoUseAfterClose`;
* `CleanExit`: `Spec => []CleanExitCutsNothing`;
* both from `ProcessInvariance`: `Spec => []IInv`;
* `InOrder`: `Spec => []FlushedInOrder`;
* `NoWakeupLost`: `Spec => []NoLostWakeup`, both about the in-memory outbox as
  main and the requests use it.

The invariant says that what is built is a beginning of main's order, all of it
once main is past `building` (`BuiltInOrder`, by counting: `Build` takes the
component after the number built so far); that main's place tells who may be at
work and what may be closed (`Phases`); and that every open client has its closer
on the stack (`Pledged`), so that an empty stack means closed clients.
`FlushedInOrder` is a statement about one sequence, what was published followed
by what is in hand and what is queued: taking an event from the queue does not
change it, publishing does not either, a refusal takes one element out and an
`Enqueue` adds one. `Dispatching` adds what these steps rely on: the dispatcher
has an event in hand only while it publishes, and no event is accepted twice.

`MiddlewareProofs` proves about `Idempotency`, for any requests, bodies, lifetime
and failing calls:

* `JustifiedAnswers`: `Spec => []AnswersAreJustified`;
* `NoSecondRun`: `Spec => []RetriesDoNotExecute`;
* both from `IdempotencyInvariance`: `Spec => []IInv`.

A record is replaced by requests that overlapped with its maker, so "the record
of `s` is in the store" is no invariant. `Covered` is: while `s`'s record must
count, some record is there that lives at least as long. `Decided` states
`RetriesDoNotExecute` from the lookup on, because the handler runs later than the
decision, and `RecordIsARun` ties the record to the run that made it.
`IdempotencyAssumption` says that the lifetime is positive and that `None` is no
record.

It proves about `RateLimiter`, for any limiters, rates, bursts, idle time, failing
calls and length of time:

* `RefusalsAreJustified`: `LimiterSpec => []DenialsAreJustified`;
* `WaitingSuffices`: `LimiterSpec => []RetryAfterSuffices`;
* both from `LimiterInvariance`: `LimiterSpec => []LimiterInv`;
* `BudgetIsKept`: `LimiterSpec => []WithinBudget`, from the same invariant and
  `Charged`.

What was allowed in a window is a history variable, `used[k][s]`: how many
requests the bucket `k` has allowed from tick `s` on. `Filled` says of every
bucket that what it lacks was spent since some tick (the tick at which it was last
full), and `Refused` that a refusal has just left less than a token in it.
`Charged` is the other direction, for every window: what was allowed from `s` to
the last fill and what is left fit a burst, the refill of the window and a token
for each failed call; windows that begin later have only seen calls that failed.
Limiters with different rates and bursts may share a bucket, so the bounds name
one limiter for the burst and one for the rate, and refilling at another
limiter's rate needs the lemmas `Grows` and `Lags`: over two stretches of time the
faster, or the slower, of two rates bounds the sum. `FindsAhead` and `FindsBehind`
carry both invariants from the last fill to the moment of a call.
A bucket that Redis drops comes back full although its rate may not have filled
it, and nothing in the code relates a burst to the idle time. So the budget
counts what comes back with `Speed`, which is the rate, or where that is too slow
a burst per idle time; `SpeedFacts` says that it is never less than the rate and
makes up a burst by the time a bucket is dropped. With the plain rate instead TLC
finds the bound exceeded on the instance of the run. `RateLimiterAssumption` says
that rates are positive and that a burst is at least one token.

`PasswordResetProofs` proves, for any users, tokens, requests and faults:

* `SingleUse`: `Spec => []TokenChangesOnce`;
* `RightUser`: `Spec => []ResetsReachTheirUser`;
* `FreshIds`: `Spec => []IdsAreNeverReused`;
* all from `ResetInvariance`: `Spec => []IInv`.

`HandedOut` bounds every id, present or deleted, by `nextID`, so that a created
user has an id no token was made for. `Tickets` says that a token that `Consume`
accepted is out of the store for good, that no two requests had the same one, and
that store, request and history agree whose it is. The writes of other requests
are handled once, on `UserStore` alone (`CreateInv`, `UpdateInv`, `DeleteInv`).

`AccountsProofs` proves, for any requests, addresses, number of ids and faults:

* `OneRow`: `Spec => []OneRowPerKey`;
* `ServedIsAnnounced`: `Spec => []AnnouncedUnlessCut`;
* `RetriesExplained`: `Spec => []RetriesReplay`;
* all from `AccountsInvariance`: `Spec => []IInv`.

`Rows` says that ids and e-mails are unique in the table and that the row of a
request is there unless it was deleted or moved: two rows of one key would be two
rows of one e-mail. `Overlaps` carries the argument about retries. A request is
settled when it is served and its answer was recorded, or came from a record; the
others are `unsaved`, by a disconnect, a failed HSET or a crash. A request that
has found no record came before every settled one of its key, so a recorded
"conflict" is the answer of a request that overlapped with the row's maker.

`RedisJobsProofs` proves, for any jobs, workers, crashes, failing calls and
unanswered XADDs:

* `NoDuplication`: `Spec => []NoJobTwice`;
* `BudgetKept`: `Spec => []RetryBudget`;
* `Conservation`: `Spec => []NoJobVanishes`, if `MaxRetries` is even;
* all from `RedisInvariance`: `Spec => []RedisInv`.

The invariant follows the entries that may still be run, in the stream or in a
worker's hands (`Tokens`). `Handed` says that what a worker holds is pending on
Redis until `Nack` acknowledges it: between the XACK and the XADD only the worker
has the job, and a crash loses it. `Claimable`, that a job that was given up, or dead-lettered in memory
only, has a pending entry which no such token stands for, so that no
acknowledgement takes it away. The budget is an argument about the counter in an
entry: `runJob` and `Nack` each add one, so it is even in the stream and at
least twice the number of runs that this entry had. A job with an unanswered XADD has two
entries and two counters, so `Tried` splits its runs into two numbers, one for
each, and only their sum is compared with the history. `Conservation` has the
hypothesis because `Nack` gives up without a trace when its own increment passes
the budget. With an even `MaxRetries` it never does, since `runJob` has
dead-lettered the job before; with an odd one it would. `Registry.Enqueue` sets
2 for every job (`jobs/registry.go:45`).

`AuthSessionProofs` proves, for any requests, writers, changes of the user,
lifetimes and failing calls:

* `GivenUpRejected`: `Spec => []GivenUpTokensAreRejected`;
* `SessionEnds`: `Spec => []DeletedUserRunsOut`;
* `StoreUsed`: `Spec => CacheSpec`: the handlers, composed, implement the
  specification of the cached store;
* `StaleByRace`: `CacheSpec => []StaleOnlyByRace`, so the property of the run
  `user_stores` holds for any readers and writers, and by `StoreUsed` also under
  the session handlers (`SessionsStaleByRace`);
* the first two from `SessionInvariance`: `Spec => []SessionInv`.

`GivenUpTokensAreRejected` speaks of the requests that have passed the blacklist.
What makes it hold is that a token revoked once stays blocked (`Blocked`): it has
expired, or it is listed until the very instant at which it expires (`Exact`).
`Kept` says so of every token that a request has revoked, answered or not, and of
every token given up before some request arrived. `DeletedUserRunsOut` is an
argument about dates (`Dated`): after the deletion a cache entry ends within
`CacheTTL` of the last use of an older read, so a refresh that finds the entry
signs before that, and what it signs lives one lifetime. A pair that `Refresh` has
signed and not yet returned counts from the time it was signed.

The inductive invariants of `Idempotency`, `RateLimiter`, `PasswordReset`,
`Accounts`, `RedisJobs` and `AuthSession` were model-checked, before they were
proved, on the instances of section 3.

Every safety invariant, action property and refinement that a passing run checks
is proved, one of them under a hypothesis on the constants (`NoJobVanishes` of
`RedisJobs`). Only model-checked are the liveness properties (`JobsFinish`,
`ShutdownEnds`, `JobsFinishWhilePoolLives`, `EventsPublished`, `ProcessEnds`,
`PublishedWhileDispatching` and `EventuallyFresh`): they depend on fairness, which
is out of the prover's reach.

## 5. Hazards

`PROJECT.json` lists them at the line where they bite. The main ones: a check
and an act in two steps (idempotency, refresh, cache fill), a context that is
already over when the recovery needs it, an empty poll that looks like a closed
queue, counters incremented in two layers, expiry at the exact instant, a wake-up
spent on the wrong goroutine, two writes that are no transaction (row and event,
acknowledgement and retry), an order of
closing that must fit every combination of backends, and a fallback chosen once
for the life of the process.

## 6. Plan

Done: the modules above and their runs, the compositions of the process and of
the sessions with the cached store, the abstract channel, and the proofs of
section 4. What would come next: login with the spelling of the e-mail that
`CreateUser` stored, in a composition of `AuthSession` with `Accounts`.

## 7. Not modelled

* Configuration, routing, CORS, headers, logging, recovery, body limit, request
  ids, metrics, health: stateless, or state that nothing else reads.
* E-mail and Kafka transport: I/O; success and failure are choices. Whether the
  e-mail sender is SMTP or the log is not told apart.
* The reading of the environment (`config.go`, `SMTP_*`): the values are the
  modules' constants, a rejected configuration is an outcome of `Configure`.
  Bursts below one token, which `config.go` accepts, are excluded by
  `RateLimiterAssumption`.
* bcrypt and JWT signatures: a token is what its issuer signed.
* `jobs/manager.go`, `ListUsers`, health checks: no state change.
* `docs/docs.go`: generated.
* Stream entries and outbox rows that cannot be decoded: the code in this
  repository never writes one.
* Growth of in-memory maps (reset tokens never redeemed, idle buckets, expired
  idempotency records): the repository states no bound for them.
* The text form of the number that `RedisLimiter`'s script stores: whether
  `RetryAfter` can parse it depends on Redis, so both outcomes are modelled.
