# A verification of the ShortLink URL shortener

TLA+ models of the parts of ShortLink in which several actors share state: the
life of a short link in PostgreSQL and Redis, the click pipeline through RabbitMQ,
the rate limiter in front of URL creation, accounts and tokens, the analytics reports,
and the migration runner. Three abstract specifications, a link store, a ledger of clicks
and a history of the schema, say what the URL service, the click pipeline and the
migrations promise, and the detailed models are shown to implement them. TLC checks the
models on small instances; TLAPS proves their safety properties, and the three
refinements, for every instance.

`PROJECT.json` maps every definition to the source lines it models, and lists the
runs, the mutants that show each property can fail, the findings, the hazards and
the theorems. Paths below are relative to `src/backend/`.

    tlc -workers 2 -config UrlService_safety.cfg MCUrlService     # one run
    tlapm UrlServiceProofs.tla                                    # one set of proofs

## 1. The system

| Component | State | Operations | Interacts with |
|---|---|---|---|
| URL service (`app/services/url_service.py`) | none of its own; locals of each handler | `create_short_url`, `resolve`, `delete` | repository, cache |
| URL repository (`app/repositories/postgres_url_repository.py`, `migrations/001`, `003`) | table `urls`: unique code, soft-delete flag, owner, expiry | `insert`, `exists`, `get`, `delete` | PostgreSQL |
| Cache (`app/core/cache.py`) | Redis keys `url:<code>` with a TTL | `get`, `set`, `delete`, all fail-open | Redis |
| Click publisher (`app/services/click_event_service.py`, `app/core/message_queue.py`) | background tasks of the process | `record_click`, `publish` | RabbitMQ queue `click_events` |
| Worker (`app/workers/worker.py`, `event_processor.py`) | connection, current delivery, attempt, health flag | connect loop, `handle_delivery`, `process` | RabbitMQ, `click_events` table |
| Click repository (`app/repositories/click_event_repository.py`, `migrations/004`, `005`) | table `click_events`, unique `event_id` | `insert_idempotent`, reads | PostgreSQL |
| Rate limiter (`app/core/rate_limiter.py`) | one Redis sorted set per identity | `is_allowed` | Redis, API dependency |
| Authentication (`app/services/auth_service.py`, `app/core/security.py`, ...) | table `users`; tokens carry their own expiry | register, login, refresh, two dependencies | API |
| Analytics API (`app/api/analytics.py`) | none | ownership check, two reads | both repositories |
| Migration runner (`app/core/migrate.py`) | table `schema_migrations` | apply each file once | PostgreSQL |
| API (`app/api/urls.py`, `dependencies.py`, `app/main.py`) | none | endpoints, status codes, order of routes | everything above |

Handlers are synchronous functions in FastAPI's thread pool, on any number of backend
instances: between two round trips to PostgreSQL or Redis, any step of any other
request can happen. That is where the difficulty lies:

* **Concurrency.** Cache-aside reading against deletion; check-then-act on aliases, on
  owners and on the rate limit; two workers with the same delivery; a report put together
  from three statements while clicks are committed; an account deactivated between the
  check of a token and the answer.
* **Failure.** Redis failing silently, by design; a PostgreSQL commit whose answer is
  lost; a process killed between two steps; a broker that requeues what a worker is
  still processing.
* **Time.** Expiry checked at one clock reading, turned into a TTL at a second and
  counted by Redis from a third; sliding windows with scores read before a delay; tokens
  that expire while they are used; clicks that become visible in another order than that
  of their timestamps.

The correctness of each component: a code denotes one link for ever, whatever is
cached; an expired or deleted link is not served (within what the cache design
promises); only owners delete; an event the broker accepted is counted exactly once
or dead-lettered; workers recover; limits hold up to a known overrun and nobody is
denied without cause; every session ends, deactivation ends it at once, and an email has
one account; reports never take back what they said. The hazards in `PROJECT.json` give the line where each of these
can go wrong.

## 2. Modules

| Module | Models | Extended by |
|---|---|---|
| `LinkStore` | nothing of the code: what a link store promises | instantiated by `UrlService` |
| `UrlService` | URL service, repository, cache, URL endpoints | `MCUrlService`, `UrlServiceProofs`, `UrlServiceRefinement` |
| `ClickLedger` | nothing of the code: what is promised of a click | instantiated by `ClickPipeline` |
| `ClickPipeline` | redirect task, publisher, broker, workers, `click_events` | `MCClickPipeline`, `ClickPipelineProofs`, `ClickPipelineRefinement` |
| `RateLimiter` | `is_allowed` and the identity dependency | `MCRateLimiter`, `RateLimiterProofs` |
| `AuthService` | accounts, passwords, tokens, the two bearer-token dependencies | `MCAuthService`, `AuthServiceProofs` |
| `Analytics` | the analytics endpoint over `click_events` | `MCAnalytics`, `AnalyticsProofs` |
| `SchemaHistory` | nothing of the code: what migrations promise | instantiated by `Migrations` |
| `Migrations` | `run_migrations`, run by every starting container | `MCMigrations`, `MigrationsProofs` |

The `MC` modules only add what TLC needs: symmetry sets and the constants that are
functions (limits, which image a runner has, the url of an event and the owner of a url).
The `Proofs` and `Refinement` modules only add lemmas and theorems.

The modules meet at their inputs. `UrlService` and `Analytics` take the user that
`AuthService` authenticated as an arbitrary input, `UrlService` a request that the limiter
let pass, `RateLimiter` the identity; `Analytics` lets every event reach the database any
number of times, which is more than `ClickPipeline` delivers. Each module therefore
allows whatever its neighbour may do. One assumption goes the other way: `ClickPipeline`
lets PostgreSQL reject only events of other producers (`Unstorable`), never a click made by
a redirect. `UrlService` justifies it with a theorem, `ClicksStorableHolds`: the id in such
a click is that of a row, for ever, so the foreign key of `click_events` holds.

### UrlService

`urls` is the table as a set of rows, `next_id` its BIGSERIAL, `cache` the live Redis
keys, `now` the clock in ticks (`TicksPerSecond` to the second, so that Redis's whole
seconds and `int()` truncation show). A request handler `r` is `pc[r]` (the next round
trip, or the status it answered), `arg[r]`, and the Python locals `got[r]` (the record),
`attempts[r]` and `ttl[r]`. A handler that has answered can take a new request.

| Source | Actions |
|---|---|
| `create_short_url` | `CreateShortUrl` (validation, dispatch), `AliasExists`, `InsertAlias`, `InsertGenerated` (one turn of the loop) |
| `resolve` | `Resolve`, `CacheGet`, `CheckHit`, `GetRecord`, `CheckRow`, `ComputeTtl`, `CacheSet` |
| `delete` | `Delete`, `GetOwner`, `DeleteRow`, `Invalidate` |
| failures and time | `DbError`, `LostCommit`, `Crash`, `RedisRestart`, `Tick` |

One statement is one action because each repository method runs one statement in a
transaction of its own. The three clock readings of `resolve` are separate steps. A
failing Redis command is the branch of `CacheGet`, `CacheSet` or `Invalidate` that
leaves the cache alone (`cache.py` swallows the error); a command that took effect
although an error was reported is the ordinary branch. `created_at`, the text of URLs
and the JSON of the entry are left out: the cached entry is the record with the fields
`_serialize` keeps, without `owner_id` and `is_active`. The metadata endpoint calls
`resolve` exactly like the redirect, so its 200 is not distinguished from the 302.

### LinkStore and the refinement

`LinkStore` has no table, cache or handlers. A code is free, then live, then lingering (the
link was deleted and copies of it are about), then gone, and never goes back; a request
asks for a code and may be answered with the link of that code, live or lingering, if it
was in date when the request came. `UrlService` defines the mapping: `Links` are the rows
without owner and flag, `Fate` follows from the row and from `Held`, which says that a copy
is in Redis or in the hands of a `resolve` that has read it; `Asked` and `Served` follow from
the step of a handler. So the many steps of `resolve` are one `Serve`, taken when the
handler answers, and a link lingers exactly as long as somebody can still answer with it.

### ClickPipeline

The broker's state (`queue`, `unacked`, `dlq`, `link`, ...) and each worker's state
(`step`, `received`, `holding`, `attempt`, ...) are separate, because they disagree
after a lost connection: the broker has requeued what the worker still works on.
Messages are of four classes, which is all `process()` can tell apart: clicks made by
`build_click_event_message`, well-formed messages PostgreSQL rejects (`Unstorable`: an
unknown `url_id`), `Malformed` ones, and `Scalars`, JSON values for which the test for
required fields itself raises `TypeError`. The last three come from other producers of
the queue (`ForeignPublish`). `clicks[m]` counts the rows with the `event_id` of `m`.

`ProcessClick` has the three outcomes of the insert: committed and answered; not
committed; committed with the answer lost, which the code treats like a failure.
`SettleOnLostLink` is an acknowledgement on a broken connection: pika raises at once or
the thread learns of it later. `Unwind` is an exception nobody catches, with the two
ways the `finally` block can end it. `ConnectFails` is an attempt to connect that raises: an
`AMQPConnectionError` leads to the next attempt, while a broker name that does not resolve
is a `socket.gaierror` in pika, which nobody catches. It ends the thread; its step is then
`unresolved`, to tell it from a thread that a message ended (`dead`). RabbitMQ and pika are not in the repository; their
actions follow the documented behaviour the worker relies on (manual acknowledgement,
prefetch, requeue on connection loss, dead-lettering to a queue that must exist) and are
marked external in the map. Both queues are durable and messages persistent, and
RabbitMQ has a volume, so a broker restart is a lost connection.

### ClickLedger and the refinement

`ClickLedger` has no broker, connections or workers. A message is unmade, scheduled (a
redirect was answered and owes its click), pending (accepted by the broker), and then done
or dead; a scheduled one may be lost instead. It may be counted once while it is pending or
dead, and is done only when it is counted. `ClickPipeline` defines where a message is
(`Stage`) from the sets `unsent`, `tasks`, `accepted`, `dlq`, `queue` and `unacked`, and the
count is `clicks`. Deliveries, lost connections, requeueing, retries, crashes of workers and
restarts leave the ledger as it is; `Publish` is an `Accept`, a committed insert a `Count`,
an ack that reaches the broker a `Settle`, a nack a `Bury`, and the death of the backend a
`Lose` of all it owed. That a dead message may still be counted is no slack of the
abstraction: a worker that lost its connection goes on writing the event that another one
dead-letters.

### RateLimiter

`zset[i]` is the sorted set of an identity and `dies[i]` its EXPIRE; a request is made
once, so its name is its uuid4 marker and `t[r]`, the clock as it read it, the score.
`Check` is the first MULTI/EXEC pipeline (trim, count), `Add` the second (ZADD, EXPIRE).
`FailOpen` is a `RedisError` in either, whether or not it took effect. A restart empties
Redis; the history variable `since` keeps the first tick after the last one, because nothing
can be said of a window in which the counts were lost. All instances are assumed to read
one clock.

### AuthService

`users[u]` is the row with id `u`; `tokens` are those delivered to clients, since a token
nobody has cannot be presented. A request is made once; `req[r]` is what it asks, `user[r]`
the row it read and `minted[r]` the first of the two clock readings of a login.

| Source | Actions |
|---|---|
| `register` | `Register` (the checks), `InsertUser` (with the commit whose answer is lost) |
| `login` | `Login`, `GetByEmail`, `Verify` (and the access token), `MintRefresh` |
| `refresh` | `Refresh` (decoding), `GetById`, `MintAccess` |
| `get_current_user`, `get_current_user_optional` | `Authenticate` (decoding), `GetById` |
| failures, operator, time | `Fail`, `Deactivate` (external), `Tick` |

A token is its payload and cannot be made outside the service (`Garbage` is any other
string); it decodes as long as `exp` is later than the clock, PyJWT's rule. `is_active` is read by
every query and written by no code, so `Deactivate` is an action of an operator. The model
has one comment of the code to correct: `app/core/security.py:46` says that access tokens are
"verified statelessly (no DB lookup needed)", yet both dependencies look the user up, and
`DeactivationEnds` rests on that lookup. `asked`, `at` and `gone` are history.

### Analytics

`rows[e]` is the `clicked_at` of the committed click `e`; it is the start of the inserting
transaction (`now()` in PostgreSQL), so `BeginInsert` fixes it and `CommitInsert` makes it
visible, perhaps after clicks that are younger. `GetUrl`, `GetCount` and `GetRecent` are the
three statements of `get_url_analytics`, in the order of `Then`. `ORDER BY clicked_at DESC
LIMIT` leaves the order of equal timestamps open, so `Newest` is a set of possible answers.
`earlier` and `gone` are history: what had been answered and deleted when a request came.

### Migrations

Files are numbered in the order of their names, and `Version[r]` is how many of them the
image of runner `r` has. `recorded` is `schema_migrations`, `executed[f]` how often the
SQL of `f` was committed; a runner has its loop `position` and the set `applied` it read
once. The SQL of a file and its record are one transaction: `Execute` runs the SQL,
`Record` inserts and commits, and in between a runner that would create the same object
waits (`LockedByOther`). None of the repository's files can be executed twice;
`Rerunnable` allows for one that could, for which the primary key is the only protection.
`Killed` includes a commit whose answer is lost; `MaxFaults` bounds it and `StatementFails`
together. That concurrent `CREATE TABLE IF NOT
EXISTS` can itself raise in PostgreSQL is a case of `StatementFails`.

### SchemaHistory and the refinement

`SchemaHistory` is one schema that goes from version `n - 1` to version `n`, and backends
that may start to serve when it has all the files of their image. `Migrations` maps
`executed` to `runs` and the runners that ended well to `serving`. A `Record` that commits,
or a `Killed` that committed before it died, is an `Upgrade`; `Finish` is a `Serve`, `Start`
a `Stop` of what the container served before; everything else, including a file whose SQL
two runners execute at once, is invisible.

## 3. Runs

| Run | Instance | Distinct states | Shows |
|---|---|---|---|
| `url_safety` | 2 handlers, 1 code, 1 user and anonymous, 1 expiry, 4 ticks, all failures | 664 thousand | `TypeOK`, `IndInv`, `OneDestination`, `NeverServedExpired`, `OwnerOnlyDeletes`, `RowsOnlyRetire`, `DeletedStaysGone`, `ImplementsLinkStore` |
| `url_live` | the same without failures, 2 ticks | 148 thousand | `RequestsAnswered`, `StepsRunOut`, `StalenessBounded` |
| `url_stale` | 2 handlers, no failures | violation | `NoStaleEntry` |
| `url_alias` | 2 handlers, no failures | violation | `AliasConflictIs409` |
| `click_safety` | 2 clicks, 1 malformed, 1 scalar, 2 workers, 2 faults, 1 crash | 948 thousand | `IndInv`, `CountedOnce`, `NothingLost`, `OneCopy`, `DeadLetterJustified`, `ImplementsLedger` |
| `click_live` | 1 click, 1 unstorable, 1 malformed, 2 workers, 2 faults (lost connections, failed attempts, failed look-ups), 1 crash | 330 thousand | `AcceptedSettles`, `RedirectSettles`, `WorkerRecovers` |
| `click_poison` | 1 click, 1 scalar, 2 workers, no faults | violation | `AcceptedSettles` |
| `rate_window` | 5 requests of 1 identity, limit 1, window 2 ticks, 2 concurrent, 4 ticks, failures and restarts | 1.33 million | `OverrunBounded`, `DenialJustified`, `IndInv`, `MarkersKept` |
| `rate_limit` | 3 requests, 1 identity, limit 2, 2 concurrent, no failures | violation | `LimitHolds` |
| `auth_safety` | 4 requests, 2 ids, 1 email, a long and a short password, access tokens 1 tick, refresh tokens 2, 2 concurrent, 2 ticks | 2.03 million | `SessionsEnd`, `BearerIsFresh`, `DeactivationEnds`, `AnonymousOnlyIfGone`, `RegistrationExclusive`, `IndInv` |
| `analytics_reports` | 2 reports, 2 workers, 4 events, a url with an owner and one without, 2 recent clicks, 1 tick | 2.94 million | `RecentCoversTotal`, `ReportsAgree`, `ReportsAuthorised`, `IndInv` |
| `migrate_safety` | 2 runners with 3 files, 1 with 2, one file rerunnable, 2 faults | 103 thousand | `IndInv`, `ExactlyOnce`, `InOrder`, `ServesMigrated`, `SchemaCompleted`, `ImplementsHistory` |

**Bounds.** One code is the worst case of the URL properties: they relate requests for
the same code, and handlers for different codes touch disjoint rows and keys; the
generator can draw it, so codes collide, and one taken code exhausts `MaxAttempts = 2`.
The clock passes the expiry (3) and a TTL of one second (2 ticks) from an odd tick, so
entries both outlive the expiry and are cut short by truncation. Handlers are reused
without limit. In `url_live` a deleted link comes back through the race of `NoStaleEntry`,
and the two ticks are just the TTL after which `StalenessBounded` forbids it; there the
failures are left to the theorem. In the pipeline two workers and two faults let an event be processed by
both workers at once and be redelivered twice; `MaxRetries = 2` has one retry and one
exhaustion; `Prefetch = 2` lets a worker hold a requeued delivery behind another. Five
requests of one identity with limit 1 and concurrency 2 are one more than the overrun bound of 4 allows in
a window, so the bound could be broken; that identities do not disturb each other is left to
the theorems. Four requests register, log in, refresh and use the
new token; both tokens expire before the clock ends, and a second registration races with
the first or follows a deactivation. One email is enough to show an account taken twice;
that accounts do not mix is left to the theorems, since a second email makes the run too
long. Three events of one url and a limit of two make a listed click give way, and one tick
tells an older click from a younger one and leaves ties. Three runners and three files let
a runner fail on a file while two others go on, and the old image end before the new one.
The theorems remove these bounds for the safety properties.

**Deadlock** is checked for `UrlService`, where clients can always send another request,
and for `Migrations`, where containers can always start again.
The pipeline's messages and the requests of the limiter, of `AuthService` and of `Analytics`
are finite, so these models may come to rest (`CHECK_DEADLOCK FALSE`).

**Fairness.** `UrlService`: weak fairness of each handler's next step. A handler runs in
its own thread, and its calls return or raise; nothing is assumed of clients, time or
failures. `ClickPipeline`: weak fairness of each background task that was added to a
response (FastAPI runs it after sending the answer, and `publish` returns or raises), of
each consumer thread and of delivery to a subscribed consumer; a task still dies with its
process. That connections eventually succeed is the bound `MaxFaults`; a killed worker, or
one whose thread ended, need not be started again (the compose file has no restart policy).
In `click_live` two faults and a crash can stop one of the two workers or both; a message is
excused only while both are stopped, and the promise is due again when one is started. `RateLimiter`, `AuthService` and `Analytics` have no liveness property, hence
no fairness. `Migrations`: weak fairness of a started run, whose statements return; starting
one is never assumed, `SchemaCompleted` is about runners that are started again and again.

**Mutants.** Each property of a passing run has a definition marked "Mutant" next to the
one it replaces: a partial unique index, a hard delete, a query without `is_active`, a
cache hit trusted for its TTL, a loop that forgets to count or stops one attempt late or
early, a plain insert, a missing dead-letter queue, `requeue=True`, a consumer without its
outer loop, an off-by-one in the trim, the limit or the EXPIRE, an unsorted list of files, a missing
primary key, a swallowed exception, either type of token accepted everywhere, an unchecked
expiry, a password not compared, a missing `is_active` filter, an invalid token treated as
none, two statements of a report swapped, a redelivery that replaces its row, an `ORDER BY`
without `DESC`, a cache hit that renews its TTL, deliveries kept in memory over a
reconnection, and deliveries acknowledged by the broker as it sends them.

## 4. What the checks show

What holds:

* A code is never reused (the UNIQUE constraint covers soft-deleted rows), so every copy
  of a link, however stale, is of the only link its code ever had (`OneDestination`), and
  the two-statement delete cannot hit somebody else's link (`OwnerOnlyDeletes`). With a
  partial unique index, a natural change to let aliases be reused, both fail.
* The TTL does not keep an entry from outliving `expires_at`, because it is computed
  before it is counted; the re-check of a hit, called a "defensive double-check" in the
  code, is what `NeverServedExpired` rests on.
* Whatever fails in a delete, the entry that is left is never renewed once overlapping
  readers are done (`DeletedStaysGone`). For a client: no request that arrives
  `redis_cache_ttl_seconds` later is answered with the link (`StalenessBounded`). This is
  what remains of the guarantee that `NoStaleEntry` refutes, and it needs that a hit does
  not renew the entry.
* Two answers for one code are the same link, however far apart (`AnswersAgree`), and the
  id a click carries is always that of this link's row (`ClicksStorable`).
* All of this together is the abstract store: whatever fails, cache-aside over PostgreSQL
  behaves as one store in which deleted links linger for a while (`ImplementsLinkStore`).
* The broker has at most one copy of a message, and no thread settles a delivery that is
  not, or no longer, its own (`OneCopy`): what a thread had in memory goes with its
  connection. So the whole pipeline is the ledger (`ImplementsLedger`), in which nothing
  accepted is done before it is counted.
* Accepted clicks are counted once or dead-lettered with cause; workers reconnect. The
  click of an answered redirect ends in one of those ways or is dropped before the broker
  accepted it, by a failing `publish` or with its process; nothing else loses it, and no
  task stays pending (`RedirectSettles`). All this needs a worker that is left: see below
  for how their threads can end.
* The limiter overruns by less than twice the number of concurrent requests, half of
  that because requests count before others add, half because a delayed request works
  with an old clock reading. That holds for every window since Redis last lost its data,
  and requests that fail open do not widen it. Nobody is denied without cause, even by a
  failing Redis.
* Refresh tokens are not rotated and no token can be revoked, yet every session ends: no
  chain of refreshes reaches past the lifetime of the first refresh token (`SessionsEnd`).
  It rests on the `type` claim; if `/refresh` took access tokens, a session could renew
  itself. A deactivated account gets nothing from any request that comes afterwards.
* "An invalid token should never be silently treated as 'no token'" (`dependencies.py:114`)
  holds with one exception, which `AnonymousOnlyIfGone` states: a token that decodes but
  whose account was deactivated makes `get_current_user_optional` return `None`. Such a
  client goes on creating links, anonymously. As the code calls only tokens that do not
  decode invalid, this is recorded as behaviour and not as a finding.
* A deactivated account keeps its email: nobody can register it again.
* The two reads of a report can disagree in one direction only. Because the count comes
  first, a report may list clicks it does not count and never the reverse
  (`RecentCoversTotal`); from one report to the next nothing is taken back.
* Without taking any lock, the migration runner applies each file exactly once and in
  order, because a file and its record commit together; no backend serves on an
  incomplete schema. Runners can make each other fail: a container that starts together
  with another can find a file applied since it looked (`Execute` ends in `Raised`), and
  then its backend does not start until the container is started again. That cannot go on
  for ever: one that is started again each time completes (`SchemaCompleted`). Together
  the runs make one history of one schema (`ImplementsHistory`).

What does not (each is a run that ends in a violation, and a finding in `PROJECT.json`):

* `NoStaleEntry`: `resolve` misses, reads the row; `delete` deactivates it and
  invalidates the key; `resolve` then stores the row it read. The invalidation the code
  calls mandatory is undone, for up to one TTL.
* `AliasConflictIs409`: an alias of a deleted link, or one inserted between the pre-check
  and the insert, is answered with 500 instead of 409.
* `AcceptedSettles` with a JSON number or null on the queue: the `TypeError` ends the
  consumer thread, the broker requeues the message, and the next worker follows.
* `LimitHolds`: two concurrent requests both pass the count; no failure is needed.

One more disagreement has no run of its own, because the runs of the pipeline contain it as
an excuse. `run_consumer_forever` promises to try again "indefinitely" on any disconnect
(`app/workers/worker.py:148-156`), but `worker.py:96` and `:163` catch only AMQP errors. When
the container of the broker is down, the name `rabbitmq` (`docker-compose.yml:84`) does not
resolve, and a worker that tries to connect ends its thread for good (`ConnectFails`); the
health endpoint then answers 503 for ever. So `AcceptedSettles`, `RedirectSettles` and
`WorkerRecovers` hold with this exception, which each of them states (`Stopped`,
`Stranded`): as long as one worker is left, it takes over the messages of the others, and
no other failure of a connection ends a thread. With no worker left, accepted messages stay
in the broker (`NothingLost`) until a worker process is started again.

## 5. Proofs

| Module | Theorems | From |
|---|---|---|
| `UrlServiceProofs` | `Invariance`, `TypeCorrect`, `OneDestinationHolds`, `NeverServedExpiredHolds`, `OwnerOnlyDeletesHolds`, `RowsOnlyRetireHolds`, `DeletedStaysGoneHolds`, `StalenessBoundedHolds`, `AnswersAgreeHolds`, `ClicksStorableHolds`, `StepsRunOutHolds` | `CodesAssumption`, `TimeAssumption` |
| `UrlServiceRefinement` | `Refinement` | `CodesAssumption`, `TimeAssumption` |
| `ClickPipelineProofs` | `Invariance`, `TypeCorrect`, `CountedOnceHolds`, `NothingLostHolds`, `OneCopyHolds`, `DeadLetterJustifiedHolds` | `MessagesAssumption`, `BoundsAssumption` |
| `ClickPipelineRefinement` | `LedgerRefinement` | `MessagesAssumption`, `BoundsAssumption` |
| `RateLimiterProofs` | `Invariance`, `OverrunBoundedHolds`, `DenialJustifiedHolds`, `MarkersKeptHolds` | `LimitAssumption` |
| `AuthServiceProofs` | `Invariance`, `SessionsEndHolds`, `BearerIsFreshHolds`, `DeactivationEndsHolds`, `AnonymousOnlyIfGoneHolds`, `RegistrationExclusiveHolds` | `AuthAssumption`, `NoneAssumption` |
| `AnalyticsProofs` | `Invariance`, `RecentCoversTotalHolds`, `ReportsAgreeHolds`, `ReportsAuthorisedHolds` | `AnalyticsAssumption`, `RequestAssumption` |
| `MigrationsProofs` | `Invariance`, `ExactlyOnceHolds`, `InOrderHolds`, `ServesMigratedHolds`, `HistoryRefinement` | `FilesAssumption` |

Each proof goes through an inductive invariant `IndInv`, defined in the component's
module and checked by TLC as an invariant of a run.

* **UrlService.** `OneDestination` alone is not inductive: a row in a handler's hand is
  cached later, and a hit is answered later. `IndInv` adds that locals fit the step
  reached (`LocalsFitStep`), one row per code (`OneRowPerCode`), that every copy, cached
  or in hand, is of a row that exists (`CopiesAreOfRows`), that an accepted copy was in
  date when the request arrived (`AcceptedInDate`), and that between the ownership check
  and the UPDATE the row still has an owner the request may act for
  (`DeleterMayDelete`). The lemma `LinksPersist` (links never vanish from the table)
  carries copies across the steps of others; `CopyOrigin` and `CacheOrigin` say where a
  new copy comes from. The action properties follow from `IndInv` and the shape of the
  table's changes (`TableStep`).
* **Staleness and answers.** `StalenessBounded` is safety but not an invariant: it speaks of
  a moment and of all later ones. The proof fixes the code and the moment `t` and shows that
  what holds then is kept by every step: the code is gone, its entry dies at the latest at
  `t` + TTL (`EntriesDieInTime` of `IndInv`, and `DeletedStaysGone`), and so every copy still
  in hand is of a request that arrived before. `AnswersAgree` and `ClicksStorable` rest in
  the same way on rows that persist and on `OneRowPerCode` and `OneRowPerId`.
* **StepsRunOut** is the part of `RequestsAnswered` that can be proved: `StepsLeft` is a
  variant function, and each step of a handler lowers it (`ForwardStep`). With weak fairness
  of the handler an answer follows; that last inference is left to TLC.
* **LinkStore.** Every step maps to a step of `LinkStore` or changes nothing of it. The heart
  is `HeldStep`: a link that is neither live nor held does not become held again, because
  `get` filters on `is_active`. From it follows `Fading` for every step that leaves the table
  alone; `InsertRefines` and `RetireRefines` are the two changes of the table, `ServeRefines`
  the answer, which uses `CopiesAreOfRows` and `AcceptedInDate` of `IndInv`.
* **ClickPipeline.** `NothingLost` needs to know that an ack is sent only after the commit
  (`AckAfterCommit`) and that whoever can nack has seen the dead-letter queue declared
  (`DlqBeforeConsuming`); `DeadLetterJustified` needs `NackAfterRetries`; all need the
  link between a thread's step and the message in its hands (`HoldsInCallback`). `OneCopy`
  needs to know that a message has only one life (`LifeInOrder`) and what a thread and the
  broker know of each other's deliveries, on an open and on a broken connection
  (`DeliveriesMatch`).
* **ClickLedger.** `SameStage` and `OneMove` turn each action into no move or the move of
  one message. The moves that need the invariant are `AckRefines` (an ack that arrives is of
  a counted message, by `AckAfterCommit`, and the queue has no second copy that would leave
  it pending, by `OneCopy`), `NackRefines` (the dead-letter queue exists) and `InsertRefines`
  (the message of a disconnected thread may be pending or dead, but it is not done without
  being counted).
* **RateLimiter.** The bound is split at the end of the window. Until then every granted
  request of the window has its marker (`WindowStored`), and markers plus requests
  between their two pipelines are at most Limit + MaxConcurrent - 1 (`MarkersBounded`).
  Afterwards only requests already in flight can still join, at most MaxConcurrent
  (`ClaimsBounded`). `MarkersAccurate` ties markers to requests and to the key's EXPIRE. A
  restart moves `since`, so that no window the bound speaks of has lost a marker.
* **AuthService.** Rows, tokens and logins only grow, and a row changes only by becoming
  inactive (`GrowsStep`), so what a request knows stays true while others run (`SoundKept`);
  `ActorSound` is the request's own step. `SessionsEnd` needs `TokensSound`: a refresh token
  carries the clock of its login, so a refresh accepted before `exp` was asked for within the
  lifetime counted from that login.
* **Analytics.** Stored clicks only grow and an answer is final (`GrowsStep`). A count is at
  most what is stored now and at least what every earlier report counted or listed
  (`RequestSound`), hence the reports agree (`CoversStep`).
* **Migrations.** `InOrder` needs to know that everything a running loop has passed is
  recorded (`PassedIsRecorded`), which for skipped files needs that the set it read is
  still true (`AppliedIsRecorded`); `CommitStep` is the heart of it, shared by the
  ordinary commit and the one whose answer is lost.
* **SchemaHistory.** `VersionBefore` finds the version the schema has before a commit, and
  `UpgradeStep` makes of a commit the `Upgrade` of its file.

Only model-checked: the liveness properties (`RequestsAnswered`, `AcceptedSettles`,
`RedirectSettles`, `WorkerRecovers`, `SchemaCompleted`); fairness is out of the prover's reach.
Only proved, and not the property of a run: `AnswersAgree` and `ClicksStorable`, of which
`OneDestination` is the part that concerns one state. The type invariants other than that of
`UrlService` are checked as the first conjunct of `IndInv`.

## 6. Not modelled

* **Base62** (`app/core/base62.py`) is called by nothing in the running system; a generated
  code is an arbitrary member of `GeneratedCodes`.
* The **user-agent parser** and **URL validation** are text classification without state.
* The **in-memory repository** is a double for tests; `insert` of the click repository is
  called by tests only.
* **Configuration** supplies constants; the **web page** only calls the API. The order of
  routes (`app/main.py:40`: an alias named like a fixed path can be created and never
  resolves) is a table fixed at start-up, with no step a model could interleave.
* **One module of all dependencies** of an endpoint. Authentication, limiter and service
  share no state, so a composition adds states and no interaction; each module takes the
  decision before it as an arbitrary input instead.
* No code deletes a user, so the `ON DELETE SET NULL` of `urls.owner_id` never fires and
  owners never change.
* A Redis that is killed and reloads an older snapshot (the image keeps one by default, the
  compose file calls the data disposable): `RedisRestart` empties it. A snapshot could bring
  back the entry of a deleted link, against `DeletedStaysGone`, but not past the moment its
  TTL ends, which Redis stores as an absolute time.
* An `Authorization` header of another scheme than Bearer: FastAPI's `HTTPBearer` treats it
  like none, and so does the model, where it is a request without a token.
* Clock skew between instances, evictions by Redis under memory pressure
  (indistinguishable from a miss for the cache) and exhaustion of the PostgreSQL pool other
  than as an error.

## 7. Plan

Done, in this order: the link (`UrlService`), clicks, limiter, migrations and the proofs of
their safety; then `LinkStore` and its refinement, `AuthService`, `Analytics` and their
proofs, the limiter under failures with `DenialJustified`, the liveness of the redirect's
background task and of restarted migrations; then the staleness bound, the variant function
of the handlers, `ClickLedger` and `SchemaHistory` with the proofs of their refinements.

Left: an abstract specification of sessions for `AuthService`, and variant functions for the
worker and the migration runner like `StepsLeft`; skew between the clocks of instances, for the limiter and for tokens; evictions by
Redis for the limiter's sets; connections of the PostgreSQL pool as a resource.
