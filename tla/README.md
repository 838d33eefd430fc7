# Verification of the dizen backend

TLA+ models of the parts of this backend where correctness depends on order,
failure and concurrency, with TLC runs on small instances and TLAPS proofs for
every instance. The source is the reference: each definition translates the
lines `PROJECT.json` maps it to, and code outside `src/` (RabbitMQ, the amqp091
client, the operating system) is modelled from how the source uses it.

## The system

Five services (`identity`, `tours`, `booking`, `admin`, `mail-dispatcher`) are
built from one template over the shared packages of `pkg/`. Each runs as
several replicas over one PostgreSQL database, one RabbitMQ and one Redis.

| Part | State | Operations | What makes it hard |
|---|---|---|---|
| outbox (`pkg/outbox`, `internal/repository/outbox*.go`, `outbox.sql`) | the outbox table; one worker loop per replica | insert in the business transaction, claim, publish, mark, reschedule, prune | two replicas on one table, crashes between publish and mark, stale attempts |
| publisher (`pkg/amqp/publisher.go`) | a channel in confirm mode and one confirmation channel | publish, wait for a confirmation | a timeout leaves its confirmation behind; the connection drops |
| consumer (`pkg/amqp/consumer.go`, `outcome.go`, `retry.go`, `topology.go`) | queue, retry queue, dead-letter queue, deliveries in hand | deliver, handle, retry, dead-letter, ack | neither the publication of the successor nor the ack waits for an answer |
| consumer shutdown (`consumer.go`: stop, cancel, drain, keepDrained, Close) | a mutex, two draining goroutines, one reading goroutine | cancel, close | the reader stops at a delivery nobody takes, with the awaited reply behind it |
| service process (`cmd/server/main.go` of the five services, `pkg/bootstrap`, `pkg/observability/sentry`) | the steps of `run` and `serve`; one goroutine per component; the group's context; the event an error leaves | boot, start, fail, signal, stop in reverse order, wait, flush | failures at any step of start-up, while running and during shutdown |
| backoff (`backoffFor` twice, `nextBackoff`) | none | the wait before a retry | overflow, the attempt at which the cap is met |
| transactions (`pkg/database/tx.go`) | an open transaction | WithTx | commit and rollback around the insertion of an event |
| migrations and start-up (`pkg/database/migrate.go`, `postgres.go`, `run` and `serve` of `main.go`) | version, dirty flag, advisory lock; where each replica is | migrate, connect with retries, serve | replicas of two releases starting at once; a process dying half way; dependencies that come later |
| cache (`pkg/cache`) | keys with a TTL, shared by replicas of several releases | Get, Set, Delete, DeleteByPrefix | an entry that does not decode; a stale delete; a scan beside concurrent writes |
| JWT (`pkg/jwt`) | the key set, the active key | load, issue, verify, serve the JWKS | rotation across replicas, clocks that differ |
| health and pool (`pkg/health`, `pkg/database/postgres.go`) | registered checks; connections in use | probe concurrently, decide, close the pool | a probe that needs what it reports on; outages that come and go; a pool that will not drain |
| gRPC and HTTP (`pkg/grpcserver`, `pkg/httpserver`, `pkg/errors`) | servers; calls in the interceptor chain; the metrics they share | serve, forward, shut down, translate errors | panics, errors crossing the chain, a gateway that depends on the other server |

The parts interact in five places. The outbox worker publishes through the
AMQP publisher, and the queues it fills are what consumers read. The runner
starts the worker and the servers, and closes the broker and the pool under
them, once start-up has migrated the schema and opened its dependencies. The
readiness check takes its connection from the pool the worker uses. The gateway's
requests end in the gRPC server of the same process. All waits between attempts
come from the same doubling.

## Modules

| Module | Models | Correspondence |
|---|---|---|
| `Outbox` | the table and `Worker.Run`, `ProcessBatch`, `publishOne`, `reschedule` | `row`, `attempts`, `due` are the columns; `pc`, `batch`, `event`, `progress` are where the goroutine is; `seen` is the `Attempts` the claim returned; each outcome of a statement is an action |
| `AtLeastOnce` | the promise of the outbox: recorded events are delivered at least once, and only forgotten after delivery | abstract specification |
| `OutboxSystem` | the workers over the publisher as its interface documents it | adds what the broker took, and copies still on the wire after a failed call |
| `Publisher` | `Publisher.publishTo`, `waitForConfirm` and the broker's answers | `confirms` is the notification channel; delivery tags are carried although the code ignores them |
| `OutboxAMQP` | one process: `Outbox` over `Publisher`, restarting with a new connection | `Send`, `Confirmed`, `Unconfirmed` join a step of each |
| `Consumer` | delivery, handling, retry and dead-letter policy with competing replicas | `wire` holds the frames (publications, acks, nacks) the channel has sent and the broker has not handled |
| `ConsumerShutdown` | `Consume`, `stop`, `cancel`, `drain`, `keepDrained`, `Close` | `mutex` is `c.rpc`; `inbox` is what the library's reading goroutine has yet to dispatch; a reply goes to any caller that waits for one |
| `Runner` | `Run` and `shutdown` over any sequence of components: dependencies, workers and transports | `components` is what `Add` was called with; `group`, `failed` are the errgroup; `next` is the index of the loop in `shutdown` |
| `Services` | the five `main.go`: the steps of `run` and `serve`, the components, the RPCs and the routes of each | constants; one definition per function of each entry point |
| `Service` | the process of a service: `Runner` over the components of `Services`, the boot before and the reporter after it, the pool, `Registry.Check` and the requests of the two servers | `boot` is what `serve` has still to do; `event` is what Sentry knows; `holders` are the connections in use; `probe` are the goroutines of a check; `seen` is a history variable |
| `Cache` | `RedisCache` and `Namespace`, by replicas of two releases | a key is a sequence of letters, put together as the code does; `client` says where a caller is; `doomed` is a history variable |
| `Startup` | `Migrate`, `Connect` and `serve` up to the runner, by replicas of two releases | `session` and `lock` are the migrator's connection and its advisory lock; `schema` is `schema_migrations`; `applied` what was really committed |
| `Backoff` | the waits, on signed integers of `Width` bits; part of `Startup` | `backoffFor` and `nextBackoff` as functions; `TwoTo` is the power of two in a form a proof can unfold |
| `Requests` | calls in the interceptor chain, `ToStatus`, the request metrics | `at` and `heading` say where a call is and which way it goes; `chain` is the order `buildUnaryChain` and `buildStreamChain` give; its specification is `ChainSpec` |
| `KeyRotation` | `LoadKeySet`, `Issue`, `Verify`, `JWKS` in several replicas while keys are rotated | `keys` and `active` are a `KeySet`; `env` is what the replica read when it last started, `config` what its next start will read; `told` in a token is a history of who had been given its key |
| `OutboxSystemProofs`, `OutboxAMQPProofs`, `CacheProofs`, `ServiceProofs`, `KeyRotationProofs` | theorems about the module of that name, and about those it is composed of | |
| `ConsumerProofs`, `ConsumerCountingProofs` | theorems about `Consumer`: what becomes of a message, and how often its handler runs | |
| `LifecycleProofs` | theorems about `Startup` with its waits, and about `Requests` | |
| `MC*` | instances for TLC | |

A claim deserves a word. The worker runs `ClaimPending` on the pool and not in a
transaction, so the row locks of `FOR UPDATE SKIP LOCKED` end with the
statement. `ClaimPending` is therefore a read that may skip rows a concurrent
statement holds at that moment, and reserves nothing.

## Runs

Passing runs:

| Run | Shows |
|---|---|
| `outbox_two_workers` | two replicas: `NoEventLost`, `NoPhantomEvent`, `BackoffNeverAhead`, and `ImplementsAtLeastOnce` (refinement), through failures, crashes and restarts |
| `outbox_one_worker` | one replica: `DuplicatesAreExplained`, `BackoffFollowsAttempts`; a committed event is marked in the end or taken up for ever, whatever keeps failing (`NoEventIsForgotten`), and a canceled worker returns (`CancellationStopsTheWorker`) |
| `outbox_over_amqp` | the real publisher under the worker: `ConfirmationsLag` says exactly which confirmation a call takes, and `KeepsThePromiseUntilAbandoned` that the promise holds on a connection where no call gave up waiting |
| `consumer` | two replicas: nothing is lost (`NoMessageLost`), dead letters are exhausted or refused, a recovered message stays out of the dead-letter queue, `RunsAreBounded`, and `EveryMessageEnds` |
| `shutdown` | `Consume` returns once its context is done (`ConsumeReturns`); `Close` returns beside it, even while a handler hangs, unless it was called before there was anything to drain or met the wait for the subscription (`CloseReturns`); the draining goroutine ends even with a broker that never answers a cancellation (`DrainEnds`) |
| `startup` | two replicas of a release and one of the release before start against one database: every migration runs once and in order (`MigrationsRunOnce`), a replica past `Migrate` has its schema (`SchemaIsReady`), the newest release serves in the end (`NewestServes`), and the waits are capped powers of two, the same in three packages (`DoublesUpToTheCap`) |
| `requests` | two calls of any kind: access log, metrics and client agree on the code, which is that of the error unless nobody declared it (`CodesAgree`), every call leaves one line (`OneLinePerCall`) and is answered (`EveryCallIsAnswered`), and the in-flight gauge counts the calls in flight until one panics (`GaugeIsExact`) |
| `key_rotation` | an issuer and a verifier, restarted at any time, while the operator publishes, activates and retires keys in any order and parts of the key list may not be readable: a replica that was told of the key of a token accepts it until it expires (`FreshTokensVerify`), and a cached JWKS stays good (`StaleJWKSIsCorrect`) |
| `service` | each of the five services, from `config.Load` to the exit: transports close before what their requests need, gRPC after the gateway (`RequestsKeepTheirDependencies`); nothing is left running; `/readyz` is answered whatever the pool does (`ChecksAreAnswered`) and is right about it (`ReadinessIsHonest`); an event is left exactly when something failed, a migration aside (`FailuresAreReported`); a signal or a dead component ends the process unless the broker never answers `Connection.Close` (`TheProcessEnds`) |
| `cache` | two replicas, of two releases: a hit is what was asked for and readable (`HitsAreGood`); a prefix delete takes what was there and is not stored again, and nothing of the item whose id begins alike (`SweepsAreExact`); it ends beside concurrent writers (`SweepsEnd`) |

Every module of a component states the types of its variables; they are part of the
invariants proved.

Runs that end in a counterexample, each a disagreement between the code and what
a comment of the repository says of it:

| Run | Disagreement |
|---|---|
| `outbox_stale_confirm` | after a call that gave up waiting, the next call returns nil on the confirmation of the message before: its event is marked published although the broker does not have it |
| `publisher_mandatory` | an unroutable message is returned, confirmed, and reported as published, since nobody listens for returns |

### Bounds

- Outbox: two events and, with one worker, a batch of two are enough for one event to
  overtake another and for a round with a mixed outcome; two workers, with a batch of one,
  for stale claims. `AttemptCap = 2` is where the doubling has met its maximum, so further
  attempts look alike; a worker that claimed at 0 may reschedule when the column is at 1
  and when it is at 2. `CopyCap = 2` tells "none", "one" and "several" apart.
- `OutboxAMQP`: three publications per connection and two calls that give up
  allow a shift of two confirmations. A behaviour that reaches `MaxPublish`
  can go on by restarting. Crashes and restarts are not bounded.
- Consumer: one message with two attempts, two consumers, two interruptions and
  seven copies: two deliveries put back, each with its whole series of retries,
  handled by two replicas at once. `MaxCopies` is never the limit for these
  values, since `RunsAreBounded` gives at most six runs.
- Shutdown: three deliveries, so that one is being handled, one is in the way of
  the reply and one arrives after the drain has started.
- Service: all five services, each a choice of `Init`. One client request at a time,
  and with it the gateway's call to gRPC; a pool of one connection, so that the worker
  and the probe compete for it; one outage, at boot or later; one dependency whose
  `Stop` fails. A server that gives up on its requests is not bounded.
- Cache: two clients of different releases, two items of which the id of one is the
  beginning of the other's, two versions of one of them, one key per `SCAN`, so that
  a sweep takes several batches, some of them empty; a ttl of zero, a positive one, the
  one go-redis takes for "keep" and another negative one. `Itoa` gives a version its digits.
- Startup: two replicas compete for two migrations and a third, of the release
  before, knows only the first; two troubles (a death, an outage, a failed
  migration) allow one during a migration and one during its repair. Waits: every
  pair of positive durations of five bits below a quarter of the range, in either order,
  for five attempts.
- Requests: two calls share the gauge; each is of any kind and has any outcome.
- KeyRotation: two keys, an issuer and a verifier, clocks up to one tick apart, a
  lifetime of one tick, three ticks: enough for a token to outlive a rotation and the
  rotation back, and to expire everywhere so that its key is retired. The properties are
  about one token and one replica at a time; the proofs have no bound on either.

### Fairness

Goroutines are scheduled (weak fairness of a goroutine's next step, whatever its
outcome). The supervisor restarts a process, the TTL of a message and the delay of
a row elapse. In `OutboxSystem` the claim is strongly fair, as the pool dials a database that
was away again. Nothing is asked of the broker, whose connection is not reopened, or of
the statement that marks: `NoEventIsForgotten` says that the worker tries again for ever,
not that it succeeds, and excepts a process that is stopped or killed over and over. Nothing obliges a transaction to commit, a signal to come, a component
to fail or a connection to drop. `Service` needs no fairness of requests, since a
`Stop` that waits for them gives up at its timeout; the probes of a check end by
theirs, and a statement of the worker by its context. Only the `Stop` of the broker has
no limit, and is not fair. No outage has to end. In
`Cache` a client goes on with what it began. In `ConsumerShutdown` the
loop notices a context that is done although deliveries keep coming (strong
fairness of `stop`): Go's `select` chooses among ready cases at random. A handler
need not return, in `ConsumerShutdown` as in `Requests`. In `Startup` an exited
process is started again, a dependency comes back, and somebody repairs a dirty
schema; troubles are finitely many.

Runs say `CHECK_DEADLOCK FALSE` where the system really may stop: a service that
has shut down, a queue that is empty, calls that are all answered, a bound on
publications or on time.

## Proofs

TLAPS proves, for every number of workers and events, every batch size and every
bound (from the `ASSUME`s that these are natural numbers, positive where the
code requires it):

- `TypeCorrect`, `NothingIsLost`, `NothingIsPhantom`, `StaleClaimsRetrySooner`:
  the invariants of `outbox_two_workers`. None is inductive alone. `Inv` adds
  that the event in hand is one of the batch (`EventInHand`), that what is in
  a batch committed (`BatchCommitted`), that a worker about to mark has had its
  event taken (`MarkFollowsTake`, `HeldIsTaken`), and that a claimed attempts
  value is never ahead of the column (`SeenNeverAhead`). `BatchCommitted` is
  what survives a second worker publishing and pruning the row meanwhile, and
  `HeldIsTaken` is where the publisher's promise enters.
- `RefinesAtLeastOnce`: every step maps to a step of `AtLeastOnce` or to a stutter.
- `RetriesBackOffInStep` and `DuplicatesHaveACause`, for one replica
  (`SoleWorker`): claimed attempts are current as long as nobody else updates the
  row, and an event nobody disturbed has at most the copy of the call in course.

For the publisher, over every number of messages, of publications on a connection and of
calls that give up:

- `CallsTakeInOrder` for the publisher by itself, and `WorkerTakesInOrder` under the
  worker, with crashes and restarts: `ConfirmationsLag`. `InSequence` makes it inductive:
  the confirmations nobody took, and behind them what is on the wire, carry consecutive
  tags up to the last one sent, and giving up does not move where they begin. Once the
  connection is lost only the confirmations already read count.
- `PromiseHoldsUntilAbandoned`: `KeepsThePromiseUntilAbandoned`, assuming that some queue
  is bound for every event (`Routable = Messages`; without it an ack says nothing, which
  is what `publisher_mandatory` shows). `Tied` joins the two components: the call in
  progress is for the event in hand (`CallInHand`), the last tag is that call's
  (`CallHasLastTag`), what is on the wire committed, and an event about to be marked is in
  a queue unless a call gave up (`MarkIsTrue`).

For the consumer, over every number of replicas, messages, attempts, prefetched deliveries
and interruptions:

- `NothingIsLost` and `OnlyTheExhaustedAreDead`: `NoMessageLost` and
  `DeadLettersAreExhausted`. `ConsumerInv` follows a copy to where it is acknowledged: a
  consumer whose channel is open acknowledges it only if its message is handled, a copy with
  a higher count exists, or the frame that publishes one is ahead of the ack on the same wire
  (`Promised`). So a copy that is gone is handled or has a successor (`Succeeded`), and the
  copy with the most attempts is not gone: it is the one that is not lost. The rest of the
  invariant says that a copy in a buffer, in a hand or on a wire has attempts left
  (`InPlay`), and that its outcome is the one its count calls for (`Counted`).
- `TheRecoveredStayOut` and `TheRunsAreBounded`: `RecoveredStaysOut` and `RunsAreBounded`.
  Both count. `Pending(m)` are the places where something may still become of the message: a
  queue, a buffer, a hand, a frame that publishes or rejects it, but not an ack. A copy put
  back while a consumer still works on it counts twice. `Future` are the handler runs those
  still have, each at most `MaxAttempts` less what its header says. `TokenInv` bounds both by
  what was put back: a step moves an element of `Pending(m)` to another, with no more runs before it, or drops
  it; a handler that succeeds takes one away, a run takes one run away, and only `Requeue`
  adds, one element and `MaxAttempts` runs for each delivery it counts in `returned`. The
  moves are injections (`Injected`, `Shifted`), from which the cardinalities follow.

For start-up, over every number of replicas and releases:

- `EachMigrationRunsOnce` and `NobodyMeetsAHalfMigratedSchema`: `MigrationsRunOnce` and
  `SchemaIsReady`. `StartupInv` adds who may hold
  the advisory lock, and that what was left half way has no holder (`LockInv`), how far the
  version is from what was applied at each step under the lock (`VersionInv`), and
  `SchemaIsReady` from the moment `Up` has returned (`ReadyInv`).
- `WaitsDoubleUpToTheCap`: `DoublesUpToTheCap`, for durations of any width, any first wait and
  any cap that can be doubled, in either order, and any attempt but the first where the
  first wait is above the cap. The waits are recursive functions, so
  the proof first shows that each exists (`IterationExists`, with the definition iterated as a
  function on the waits in range) and then follows it by an induction over a set of attempts
  (`Induction`): doubling a wait below the cap does not overflow (`WrapFits`), so a capped power
  of two becomes the next one (`CappedDoubles`), and a first wait above the cap the cap, for `nextBackoff` (`ConnectDoubles`) as for the
  loop of `backoffFor` that leaves early (`LoopDoubles`).

For the interceptors, over every finite set of concurrent calls:

- `OneCodeForAll`, `EveryCallLeavesOneLine` and `TheGaugeIsExact`: `CodesAgree`,
  `OneLinePerCall` and `GaugeIsExact`. Where a call is in the chain, and which way it goes,
  decides what has been written about it (`CallInv`): an error past the link that maps
  errors carries the declared code (`Mapped`), and each link left on the way out has written
  that code. The gauge is the size of a set of calls, `Counting`.

For the cache, over every number of replicas, items and versions, every size of batch and
every order in which `SCAN` walks the keyspace:

- `ReadersGetWhatTheyAskedFor` and `SweepsTakeTheirItem`: `HitsAreGood` and `SweepsAreExact`.
  The lemmas about the texts carry them. A segment ends at the first separator, so two keys
  are the same only when all their segments are (`KeySplits`, `VersionedIsInjective`), and a
  key begins with the prefix of an item exactly when it is a key of that item
  (`PrefixIsExact`); so the pattern of a sweep takes one item's keys however the ids begin.
  Both rest on `TextAssumption`: no segment has a `:`, or a character that means something in a
  Redis pattern (`*`, `?`, `[`, `\`), in it. `Key` and `DeleteByPrefix` join what they are given
  and escape nothing, so their callers owe them that. `CacheInv` says what is under a key
  (`StoreInv`: that item, at that version or a later one), what a reader holds (`ReaderInv`),
  and that the keys a sweep has yet to delete are ahead of its cursor or in its batch
  (`SweepInv`). A concurrent `Set` takes its key off the list, a `DropPoisoned` or an expiry
  only makes it shorter.

For the runner, over every sequence of components:

- `RunnerStopsEverything` and `RunnerDrainsInOrder`. The loop of `shutdown` is at one
  component, so `RunnerInv` says what that means for the rest (`Progress`): those after it
  were stopped, those before it not yet; and that a server that was asked to stop takes no
  request any more, so that one it did not give up on is drained for good (`Drained`).

For the process of a service, over every pool and every number of outages and failures:

- `ServiceIsARunner`: `Service` implements `Runner`. Every step of the boot, of the
  requests, of the probes and of the worker is a step of the runner or leaves it alone.
- `ServiceStopsEverything` and `ServiceKeepsDependencies` follow from the runner's
  theorems and from the wiring: the five `main.go` register two sequences of components
  between them, and in both everything a transport needs comes before it.
- `ExactlyTheFailuresAreReported`: `FailuresAreReported`. `Verdict` says what the result of
  `Run` is made of, and `ReportInv` what Sentry knows in each phase of the process, and that
  the boot takes the steps of its `main.go` in order, so that the reporter is up before
  anything that can fail unreported.
- `ReadyzIsHonest`: `ReadinessIsHonest`. A check is a request in flight, so
  `ServiceKeepsDependencies` keeps what it probes open; `CheckInv` says that each dependency
  was seen during the check as it is now and as its probe found it.

For the rotation, over every number of keys, replicas and tokens:

- `NobodyIsSignedOut`, `StaleCopiesAreGood`, `IssuersKeepTheirKey`: `FreshTokensVerify`,
  `StaleJWKSIsCorrect` and `IssuersCanSign`. The invariant behind them says that issuers, and
  only they, are deployed with a private key (`Deployed`), what `LoadKeySet` leaves in a replica
  that started (`Loaded`), that a replica told of the key of a token keeps it, in what it runs
  with and in what it will start with, until the token has expired on every clock (`Kept`), and
  how far the stamp of a token may be off (`Stamped`). What the operator owes is in the actions:
  the previous public key stays when a new one is activated, and a key is retired only after
  its tokens.

Every invariant and every refinement the runs check is proved. What is only model-checked is
liveness, which rests on fairness and `ENABLED` and so is beyond the prover:
`NoEventIsForgotten`, `CancellationStopsTheWorker`, `EveryMessageEnds`, `ConsumeReturns`,
`CloseReturns`, `DrainEnds`, `NewestServes`, `EveryCallIsAnswered`, `TheProcessEnds`,
`ChecksAreAnswered` and `SweepsEnd`.

## Known limits of the code the models make visible

Where a comment of the repository says more than the code does, and no run above ends in that
counterexample, the property is stated so that it claims only what the code keeps, and the
comment is quoted here.

- *Claims.* `outbox.go:68` says that a claim locks its events against other workers.
  The locks end with the statement, and two workers may hold the same event; the
  cost is duplicates, which `ImplementsAtLeastOnce` allows.
- *Reconnection.* `config.go:53` of `pkg/amqp` describes `ReconnectDelay`, which is read
  nowhere. A lost connection is never reopened by a running process: `Disconnect` is
  final until `ProcessStart`. The outbox goes on trying (`NoEventIsForgotten`) and nothing
  more is promised. The process is out of rotation from then on, as `/readyz`
  fails, while `/livez` answers and nothing restarts it.
- *Replicas starting at once.* `Migrate` reads the version and the dirty flag
  (`migrate.go:34`) outside the lock that `Up` takes. A replica that starts while another
  one applies a migration may be told that the schema "needs manual repair", and exits,
  although `migrate.go:24` says that "several replicas starting at once is safe: one
  applies the migrations and the rest wait". The supervisor starts it again (`NewestServes`).
  So a dirty flag does not mean what `migrate.go:39` takes it for, "a previous migration
  died half applied": it may be on while one is going well.
- *Unreported failures.* `main.go:130` of identity says that an error is logged before it is
  returned so that the reporter sees it, "a migration that will not apply" included. The
  error of `Migrate` is returned further up without being logged, and leaves no event:
  `FailuresAreReported` excludes that step.
- *Redis at boot.* The comment of `NewRedis` says that Redis must not keep a service from
  booting, and its check is not critical; but `serve` returns the error of `NewRedis`.
- *No expiry.* `cache.go:29` says that a ttl of zero means that an entry does not expire;
  `Set` takes it for the default, which `redis.go:35` gives the reason for: a key with no
  expiry is a memory leak. A ttl of -1 passes the check for zero and reaches go-redis as
  "keep the ttl", which on a new key is no expiry. `Set` of `Cache` has both; no property
  says that an entry goes away.
- *Patterns.* `DeleteByPrefix` puts its prefix into a `SCAN` pattern as it is. With a `*`,
  `?` or `[` in a segment it would take keys of other items; `TextAssumption` excludes them.
- *Closing the connection.* The `Stop` of the broker component is `Connection.Close`, which
  does not look at the context it is stopped with and waits for the broker without a limit:
  the exception of `TheProcessEnds`.
- *Closing the pool.* The `Stop` of the database has no use for the context it is given and
  waits for the connections in use. `TheProcessEnds` holds because the statements of
  the worker end with the group's context and a probe with its timeout.
- *Shutdown with a silent broker.* `consumer.go:172` says that `drainTimeout` bounds the
  wait for a broker that never confirms. `stop` waits in `cancel`, without a
  timeout, before it waits for the drain, so `ConsumeReturns` and `CloseReturns`
  exclude such a broker (`silent`).
- *In-flight gauge.* `metrics.go:98` says that the interceptor defers the function
  `RequestStarted` returns. It is called after the handler, so a panic skips it: the gauge
  stays one too high for ever, and the call is not counted. `GaugeIsExact`
  ends with the first panic. A call that panics has a panic line and no access line.
- *Errors above the mapping.* `api_version` and `validate` are outside `errors`, so what
  they return does not pass `ToStatus`; it carries a code already, which is why
  `CodesAgree` holds.
- *First start.* `Migrate` comes before `Connect` and makes one attempt. With
  `RunMigrations` on, the retries of `Connect` do not spare a service the crash loop they
  are meant to avoid (`postgres.go:33`), and neither do Redis and RabbitMQ, which get one
  attempt each. The supervisor restarts the process, which is what `NewestServes` uses.
- *Rolling back.* A binary that embeds fewer migrations than the schema has does not start.
- *Rotation.* `jwks.go:71` gives the whole procedure: deploy the new private key while
  keeping the previous public one. A replica that was not given the new public key before
  that rejects the tokens signed with it, so `FreshTokensVerify` is about the replicas that
  were told. `Activate` has no guard for it.
- *How long a token is good.* `issuer.go:14` says that the window between a revocation and
  the expiry of the last valid token "is exactly" the lifetime. `Verify` adds the leeway `ClockSkew`, and the clocks of issuer and verifier may
  differ besides.
- *Garbled key lists.* What `pem.Decode` makes nothing of is passed over, so a list of which
  a part is damaged loads without that part and without an error, and only a set that is
  empty at the end is one. `FreshTokensVerify` excludes a replica that lost the key that way.
  No service builds an issuer or a verifier yet: they load the keys, and identity serves
  the JWKS.
- *Order.* A failed event waits out its backoff while later ones overtake it. A
  comment of `repository_it_test.go` expects insertion order; the claim orders a
  batch, nothing orders batches.
- *Attempts.* The attempts header counts failures the consumer recorded. A delivery
  put back by a crash or a lost channel is handled again uncounted, so
  `MaxAttempts` is exceeded; `RunsAreBounded` is the bound that does hold.
- *Subscription.* `consumer.go:129` says that canceling as it does "keeps every reply-waiting
  call on this channel under one mutex". `channel.Consume` waits for its reply outside it. A `Close` called at that
  moment waits beside it, and each may be handed the other's reply: the premise `OneWaiter`
  of `CloseReturns`. A `Close` that comes just after the subscription, before
  `c.deliveries` is set, has nothing to drain: with a handler that hangs and a second
  delivery behind it, it does not return.
- *Errors while closing.* `group.Wait` returns the first error of the group. If that is
  the canceled context, an error another component returned while closing is dropped.
  No component of the services returns the context's error today.
- *First wait.* `backoffFor` returns the initial wait for the first attempt without
  comparing it with the maximum, and no configuration check orders the two, while
  `retry.go:45` of `pkg/amqp` says that waits are capped at the maximum.

## Not modelled

The variables of the configuration, their defaults and rules, log levels and formats,
spans, and the scrubbing of events have no state the other parts read. Interceptors that
no service installs (rate limit, authentication, authorization) are left out, and so are
`MigrateDown` and `SetActive`, which nothing in a service calls. Transactions inside
transactions do not occur. The outbox repositories of the other services are copies of
identity's and have no module of their own. Command line tools (`apicheck`,
`commitcheck`) and the containers of the integration tests run at development time.
Generated protobuf code, cryptography and encodings are taken as they are. The retry
queue is modelled without its order: RabbitMQ expires messages only at its head, so a
wait may be longer than the model's, never shorter than the code's. In `Service` a client
has one request in flight at a time, and a pool serves the worker and the probe only,
as nothing else uses it yet.
