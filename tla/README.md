# Verification of the session API

TLA+ models, TLC runs and TLAPS proofs of the Express API in `src/src`: password
login, JWT access tokens, rotating refresh tokens in Redis, users in PostgreSQL.
Paths are written as in the repository; line numbers are those of this commit.

1. [The system and its parts](#1-the-system-and-its-parts)
2. [The modules and the code](#2-the-modules-and-the-code)
3. [The runs](#3-the-runs)
4. [The proofs](#4-the-proofs)
5. [Divergences between documentation and code](#5-divergences)
6. [What is not modelled](#6-what-is-not-modelled)
7. [Plan](#7-plan)

## 1. The system and its parts

Several replicas of one Node process share one Redis and one PostgreSQL. A process
is single-threaded, so code between two `await`s is atomic with respect to other
requests of the same process; between replicas only a Redis script, a `MULTI` or a
PostgreSQL statement is atomic. The interesting interleavings are therefore those of
awaits and of server-side commands, and that is the grain of the models.

| Part | State | Operations | Talks to |
|---|---|---|---|
| **SessionRepository** | `session:{id}` hash-with-TTL, `user_sessions:{userId}` set-with-TTL | `create` (MULTI), `get`, `rotate` (Lua), `delete` (MULTI), `deleteAllForUser` (Lua) | Redis |
| **AuthService** | none of its own; the locals of each request | `login`, `refresh`, `logout`, `logoutAll` | UserRepository, SessionRepository, TokenService, LoginThrottle, CacheRepository |
| **TokenService** | signing keys | sign, verify, draw and split refresh tokens | jsonwebtoken, crypto |
| **Authentication middleware** | `req.user` | verify the access token, then read the session | TokenService, SessionRepository |
| **LoginThrottle** | `login:failures:{username}`, `login:lock:{username}` | `assertNotThrottled`, `recordFailure` (Lua), `reset` | Redis |
| **UserService / UserRepository** | the `users` table and its two unique indexes | `createUser`, `getProfile`, `listUsers`, finds | PostgreSQL, CacheRepository |
| **CacheRepository** | `user-{id}` with TTL | `get`, `set` | Redis |
| **Server** | listening socket, connections, the pool's clients, one watchdog for each signal | `createApp`, `/health`, `/ready`, `shutdown` | both pools |
| **Rate limiter** | `rl:*` counters of rate-limit-redis, each with its window | fixed-window count per address or session | Redis |
| **Routes** | where a request stands in the chain of its route | limiters, authentication, role check, metrics guard, handler | the two above |
| **Trust proxy, validation, errors, logger, OpenAPI** | none | pure functions of a request or of the environment | – |

What makes each hard, and what makes it correct:

- **Sessions.** Two refreshes present one token; a refresh is under way while a logout
  runs; a deadline computed from Node's clock is enforced by Redis's; the reverse index
  has a lifetime of its own; one command of a `MULTI` fails; ioredis sends a command
  again when its reply is lost. Correct means: at most one token of a session is valid,
  a token that was traded is never valid again, an ended session never comes back, no
  amount of rotation outlives the absolute lifetime, and logout-all reaches every
  session.
- **Requests.** A request reads the user's row and signs a token several awaits later.
  Correct means: a role that was taken away is accepted for a bounded time, and a
  revocation is final whatever was under way.
- **Throttle.** Read lock, compare password, write counter are three steps, and many
  attempts stand between them. Correct means: a lock is earned, waited for and bounded.
- **Signup.** Two checks, a quarter of a second of bcrypt and an `INSERT` which may wait
  inside PostgreSQL. Correct means: as good as one atomic step, and always answered.
- **Listing.** A page and its total come from two snapshots, a walk from many. Correct
  means: nobody who is there all the time is passed over, and nobody is seen twice, as long
  as no row appears in front of what was read and none goes.
- **Profile cache.** Nothing invalidates an entry and the row is written an await after
  it was read. Correct means: an entry disagrees with PostgreSQL for a bounded time.
- **Server.** Shutdown waits for connections and pools, a watchdog bounds the wait, signals
  may repeat; a readiness check that was given up goes on and keeps its pool client.
  Correct means: no request in flight is dropped and nobody connected is cut off, the
  process ends, with a code that says how, and a probe that has reached its handler is
  answered whatever the dependencies do (the limiter in front of it waits for Redis).
- **Limiters and routes.** A fixed window forgets at its end; the script may be sent twice
  or fail; the address that is counted depends on headers, on the proxies that are there and
  on how many TRUST_PROXY names; the limiter reads the session out of a refresh token by
  another rule than the service, which takes a JSON list for a token too.
  Correct means: no handler runs for a request that was not counted for the right key
  and did not meet every check of its route, and a window's excess is bounded.

`PROJECT.json` lists these parts as components and, under "hazards", each difficulty with
the line where it bites and the properties that watch it.

## 2. The modules and the code

```
SessionContract <--implemented by-- SessionStore <--EXTENDS-- AuthService
                                    SessionStoreProofs        AuthServiceProofs
                                    MCSessionStore MCGrace    MCAuthService MCDemotion
Registry <--implemented by-- Users <--EXTENDS-- UserListing     MCUserListing
                             UsersProofs
LoginThrottle     MCLoginThrottle   LoginThrottleProofs
ProfileCache      MCProfileCache    ProfileCacheProofs
GracefulStop <--implemented by-- Server       Server.cfg
                                 ServerProofs
RateLimiter <--EXTENDS, implemented by-- Gateway      MCGateway
RateLimiterProofs  <--EXTENDS--          GatewayProofs
```

### SessionContract
What a client may rely on, with no Redis in it: a session is issued once, holds one
current token, every renewal spends the token it was bought with, a closed session stays
closed. No session may ever be reopened and no spent token may become current again,
because no action allows it.

### SessionStore — `SessionRepository.ts`
`session`, `sessionExpiry`, `userSessions`, `indexExpiry` are the two keyspaces and their
deadlines. One action per outcome of a script or a `MULTI`:

| Action | Code |
|---|---|
| `Create` | `create()`: SET, SADD, EXPIRE in one MULTI; `failed` says which queued commands Redis refused; `ExecSucceeded` is `execOrThrow` |
| `Acknowledge` | the caller of `create()` gets its answer and the tokens leave the server |
| `RotateSwap`, `RotatePastAbsolute`, `RotateReuse`, `RotateRefused` | the ways out of `ROTATE_SCRIPT` |
| `Delete`, `DeleteAll` | `delete()`, `DELETE_ALL_SCRIPT` |
| `Tick` | Redis's clock, and expiry of keys |

- A caller's `Date.now()` is not Redis's clock. `CallerClock` is every reading that the
  command may carry: at most `MaxLag` behind (latency, or a slow clock) and at most
  `MaxLead` ahead. The TTL is a relative number of seconds that Redis adds to its *own*
  clock; this is why rounding and lag both lengthen a session.
- `Second` is the grain of `EX`: `CeilToSecond` is the script's `math.ceil`.
- `birth`, `creation`, `installed`, `traded` are history; no action but `Create`'s and
  `Acknowledge`'s protocol guard reads them, except `UnusedHash`, which says that a
  random validator is new.
- `createdAt` is left out of the record because nothing reads it.

### AuthService — `AuthService.ts`, `middleware/auth.ts`, `TokenService.ts`
EXTENDS SessionStore with the `users` table and with requests. A request is a process: `at[q]`
is the await it stands before, `target`, `row` and `draft` its locals, and one action runs
from one await to the next. `LoginFind`, `LoginPrepare`, `LoginCreate`, `LoginReply` are
`login`; `RefreshGet` … `RefreshReply` are `refresh`; `AuthVerify` and `AuthGet` are the
middleware, `Logout` and `LogoutAll` the handlers behind it. `SentAgain` is the choice that
ioredis repeats a command whose reply was lost: the store's step happens and the request
stays where it is. `Abort` is a crash of the process or a rejection at any await.
`ChangeRole` and `DeleteUser` are an operator's SQL. `access` and `refresh` hold every token
that was ever handed out; `ended` holds the sessions that a revocation ended after their
login had answered.

JWT claims are a record; signature, issuer and the splitting of refresh tokens are
abstracted to "a token somebody was given" (`access`, `refresh`) or "a hash that nobody
was given" (`FreshHash`).

### LoginThrottle — `LoginThrottle.ts` and its call sites in `login`
One account. `Admit` is `assertNotThrottled`, `Compare` is bcrypt, `RecordFailure` is
`RECORD_FAILURE_SCRIPT`, `Reset` the `DEL`. `Second` is the number of ticks of a second, so
that `Ttl` rounds to the nearest second as Redis's `TTL` does. Refused attempts leave no
trace and are not a step. `answered` is history: which failures of this life of the counter
were answered, when, and as which count; a repeated command counts and answers nobody.

### Registry, Users, UserListing — `UserService.ts`, `UserRepository.ts`, the `users` table
`Registry` is the promise: nobody is refused but for what an account holds at that moment, nobody
is told "created" without the account, no two accounts share a name or an email.
`Users` is the code, one await after the other, and PostgreSQL below it: the row enters
`users_email_key` first (the older index) and `users_username_lower_key` second, each entry
waits for a transaction that holds the same key, and a unique violation becomes a 409
for the right field. `Lose` is a broken connection or a dead process: the client knows
nothing and the statement goes on. `Rollback` is PostgreSQL giving up. `DeleteRow` is
an operator. `clock` moves or not when an INSERT begins, so two rows may share their `created_at`.

`UserListing` adds an admin who walks the pages; the page and the total are
two actions in any order, because `listPaginated` sends them to two connections. Nothing
is sorted: `Position` is the number of rows that come before a row in `ORDER BY
created_at, id`, `RowAt` the row at a position, and `Page` the rows from the offset on.
`atStart` (the rows when the walk began) and `appended` (no row has gone since, and those
that came are younger than all the others) are history.

### ProfileCache — `UserService.getProfile`, `CacheRepository.ts`, the cache write of `login`
`Authenticate`, `CacheHit`/`CacheMiss`, `FindUser`, `Store` are the awaits of
`GET /v1/users/me`; `LoginFind` is a login, which also writes the cache. Cache failures are
swallowed and become a miss; the session read in authentication is not.

### GracefulStop
What stopping promises to those connected (`docs/observability.md:44`), without pools,
callbacks or signals: no new connection once the stop has begun, a client whose request is
being answered stays connected until it leaves of itself, the pools are released after the
last connection, success is said only after that. `Server!Phase` is the refinement
mapping: how far the shutdowns of all signals together have got.

### Server — `server.ts`, the pool of `postgres.ts`
One process. A connection is open or not (`open`), its request in a handler or not
(`handling`): a client may leave while its handler goes on, and a kept-alive connection may
bring another request after the signal. A handler `awaits` calls; `pending` are the
calls that are not over, which for a readiness check outlive the wait (`TimeOut` is
`withTimeout`); `borrowed` are the clients that `pool.query` took.

| Action | Code |
|---|---|
| `Shutdown` | the watchdog and `server.close`, which closes the idle connections, except those that never sent a request, and errs without a handle |
| `Closed` | `'close'` is emitted: the callback of every signal so far calls `pool.end` and `quit` |
| `Quit`, `Exit` | `Promise.allSettled` and `process.exit`; the second `pool.end` is rejected |
| `Watchdog` | `forceExit` |
| `Call`, `Borrow`, `Reply`, `Respond` | a handler at work; `GET /ready` starts both calls at once |

`ServerInit` lets the process run without its port: Express 5 gives the error of
`listen` to the same callback, which only logs.

### RateLimiter — `middleware/rateLimiter.ts`
The counters, one `Bucket` for each limiter and key. `Count` is the script of rate-limit-redis,
`Pass` a hit that goes on, `Waste` one that is refused, or counted for a reply that was
lost. `log` is history: what was let through, when, and as which hit of which window.

### Gateway — `routes.ts`, `createApp`, `rateLimiter.ts`, `auth.ts`, `requireRole.ts`, `metricsGuard.ts`, `trustProxy.ts`, `errorHandler.ts`
EXTENDS RateLimiter with the way of a request through the `Chain` of its route. `Limit`,
`Authenticate`, `RequireAdmin`, `GuardMetrics` and `Handle` are the middleware; `Fail` is a
Redis failure in one of them; `CountAgain` a command sent twice. `Deployment` is the
environment: any of the `Proxies` in front (`docs/deployment.md:12` has CloudFront and a load
balancer) and `parseTrustProxy` of every kind of value, any number of hops included: the code
compares it with nothing, so a deployment may believe fewer hops than there are, as many, or
more. A list of subnets is taken to cover proxies only, from the nearest on; one that
covers clients as well is a hop too many for them. `Ip` is what Express makes of it when
the client forges `X-Forwarded-For`, and `CountedAddresses` says whom that may be in each of
the three cases. A refresh token is its JSON form, where its first dot stands and what is
around it, which is all that `refreshTokenSessionKey` and `splitRefreshToken` look at;
`RefreshAnswers` is what `AuthService.refresh` may answer to it. The two functions disagree
about lists (`["<id>", ".", "x"]` has `indexOf` and `slice`): the service looks the session up, the
limiter counts the address. What `HandlersGuarded` claims is therefore about refreshes that
may renew a session, which a list never does: `hashRefreshValidator` throws on one. Routes with the same chain are
one (`logout` stands for `logout-all` too); `/`, `/health` and `/docs` have no chain.

## 3. The runs

`tlc -config X.cfg M`. Every property of a passing run has a mutant in `PROJECT.json`: a
plausible bug in a definition which that run must catch.

| Run | Question and answer |
|---|---|
| **store** `MCSessionStore.cfg` | Do the scripts keep the contract? Yes, with `AbsoluteCap` (a session key is gone one second plus the caller's lag after its absolute deadline) and `IndexCovers` (inside that deadline the index holds every session a login got). |
| **service_revocation** `MCAuthServiceRevocation.cfg` | Does anything that was under way undo a revocation? No (`RevocationFinal`); are refresh tokens used in the order they were given, none passed over? Yes (`TokensInTurn`); and the service calls the store only as `SessionStore` lets it (`StoreSpec`), which is what carries the store's theorems over. |
| **service_roles** `MCAuthServiceRoles.cfg` | How long is a role accepted that the table no longer holds? Less than the access token's lifetime, plus what a request may take from reading the row to signing, plus the clock differences. |
| **throttle** `MCLoginThrottle.cfg` | With attempts side by side, crashes and repeated commands: locks have deadlines, are earned by failures, and are waited for (`AdmittedAfterDelay`); and what comes of that: where `n` attempts go on side by side, the `n`-th failure after a failure comes no earlier than the delay of that one allows (`FailuresAreSpaced`). |
| **signups** `MCUserListing.cfg` | Is `createUser` atomic to its clients? Yes (`RegistrySpec`); does everyone get an answer? Yes (`EveryoneAnswered`); does a walk through the pages show everybody, once? Yes, as long as rows are only appended (`WalkIsComplete`); run **paging** shows what happens otherwise. |
| **profiles** `MCProfileCache.cfg` | For how long can the cache be wrong? One TTL plus one request's handling, however many readers and writers. |
| **server** `Server.cfg` | Two signals, probes and a request over a pool of one: is anybody cut off (`NobodyCutOff`), does the exit code tell how it went (`ExitIsTrue`), is the stop the one its clients are promised (`StopsGracefully`), does the process stop (`Stops`), is a probe that has reached its handler answered while both dependencies are silent (`ProbeAnswered`)? No, and yes to the others. |
| **gateway** `MCGateway.cfg` | With `TRUST_PROXY` naming fewer hops than there are, as many and one too many, forged headers, refresh tokens of every JSON form, Redis failing and counting twice: does a handler run without its checks, uncounted, or counted for the wrong key? No (`HandlersGuarded`): a refresh that may renew a session is counted for that session, anything else for its client where `TRUST_PROXY` is right, for a proxy where it names too few hops, and for an address the client has picked only where it names too many. And at most `2 max - 1` hits in less than a window (`BurstBounded`). |
| **grace**, **demotion**, **paging**, **redis_outage** | Sentences of the documentation that the code does not keep: section 5. |

### Bounds, and why they are enough

- **store**: two sessions, two users, three hashes, `Second` 2, `IdleTtl` 4, `AbsoluteTtl` 6,
  grace 1, lag and lead 1, clock to 8. Two users and two sessions are what a wrong index key needs,
  three hashes are what a token rotated away twice needs, `Second` 2 makes rounding
  visible, and 8 > 6 + 1 lets the clock pass the absolute deadline of a session with the
  lag that `AbsoluteCap` allows.
- **service_revocation**: two requests interleaved over two sessions of one user; three
  hashes. Clock to 2: revocation needs interleaving rather than time, so keys expire
  only in **store** and in **service_roles**; the theorems have no such bound.
  716,407 states.
  **service_roles**: one session, two roles, two requests, clock to 3 with an access
  token of 1, so that a token signed late expires inside the run. The two questions are two
  runs because time and the second session multiply.
- **throttle**: three attempts, one free; delays 1, 2, 3 seconds of 4 ticks, so that
  half a second exists and the cap of the delay is reached; five failures, because the one
  that `FailuresAreSpaced` speaks of is the third after the second (5,247,800 states); the window
  of 3 seconds ends before the clock does, at 28.
- **signups**: two signups, two names in two spellings, two emails, pages of one row. With
  equal names or emails every wait between the two inserts is reached; with both
  different two rows exist side by side, which a walk of two pages needs. Names,
  spellings and emails are interchangeable, so `MCInit` gives the first signup the first
  of each. 436,144 states.
- **profiles**: one user, two profiles, two requests, TTL 2, handling 1, clock to 5: an
  entry written late, overwritten by an older one and expired all fit.
- **server**: two signals (a third finds what the second did), two probes and one pool client, so
  that the second probe finds the pool taken by a query the first has given up; one
  connection of another kind, whose handler may outlive it. 132,907 states; liveness is
  checked on all of them.
- **gateway**: two requests, two sessions, one client, limits of one hit (two for `meta`), windows of
  2 and a clock to 2: a window begins, fills, is exceeded, ends and begins again. All
  requests of a behaviour are for one route (`MCNext`), which leaves out only the
  `api` counter that routes share. Two proxies and `MaxHops` 3 are what the documented
  deployment and one hop too many for it need; more hops than one too many find the same
  address, since a client claims at most one. To keep the product small, `TRUST_PROXY` is 1
  where refresh tokens vary (with no proxy, one and two), and the claim varies only on the routes
  that one limiter counts by address. `GatewayProofs` has none of these restrictions.
  922,293 states.

Every model clock stops at `MaxTime`, and requests and signups may all be over; where that
leaves nothing to do, the configuration says `CHECK_DEADLOCK FALSE`. Runs that keep deadlock
checking always have a repeatable step. Symmetry is used in runs of safety properties
only; `signups`, which checks liveness, has none.

### Fairness

Two modules state fairness, each for what goes on by itself:

- `UsersFairness`: weak fairness on `Proceed(q)`, the steps that the event loop and PostgreSQL
  take once a request has begun. A signup that waits for another's index entry is
  disabled until the other ends; the order of the two indexes is the same in every
  transaction, which is why weak fairness suffices and no wait is circular.
- `ServerFairness`: timers fire (`Watchdog`, `TimeOut`) and a handler that waits for nothing
  answers (`Respond`). There is none on `Reply`, `Borrow` or `Quit`: PostgreSQL and Redis may be
  silent for ever. None on `Disconnect`: a client may keep its connection.

Nobody has to send a request, nothing has to break, and no operator has to act.

## 4. The proofs

`tlapm M.tla` for `SessionStoreProofs`, `AuthServiceProofs`, `UsersProofs`, `ProfileCacheProofs`,
`LoginThrottleProofs`, `ServerProofs`, `RateLimiterProofs` and `GatewayProofs`. They hold for any sets of
sessions, users, hashes, requests, connections and signups and any durations and limits
that satisfy the named assumptions:

- `DurationAssumption`: durations are natural numbers, the TTLs whole seconds, idle at most
  absolute (`config` refuses other values); `NoneAssumption`: nil is not a record or hash;
- `AuthAssumption`, `ThrottleAssumption`, `ListingAssumption`, `CacheAssumption`, `ServerAssumption`,
  `LimiterAssumption`, `GatewayAssumption`: the same for the constants of each module; the attempts of the throttle, which
  `FailuresAreSpaced` counts, are finitely many.

TLC evaluates all of them in the runs. No arithmetic is assumed: `^` is defined by recursion,
of which the prover knows nothing, but `2 ^ n` is the number of subsets of `1..n`
(`FS_SUBSET`), and a larger set has more of them (`PowersGrow`).

| Theorem | Statement |
|---|---|
| `TypeCorrect`, `AbsoluteCapHolds`, `IndexCoversHolds` | invariants of the store |
| `ImplementsContract` | `SessionStore` implements `SessionContract` |
| `ServiceTypeCorrect`, `ServiceUsesStore` | invariant of the service; `AuthService` implements `StoreSpec` |
| `ServiceKeepsContract` | what `SessionContract` promises holds of the service too |
| `RevocationIsFinal` | `RevocationFinal` |
| `TokensAreUsedInTurn` | `TokensInTurn` |
| `StalenessBounded` | `StaleRoleBounded` |
| `UsersTypeCorrect`, `ImplementsRegistry` | invariant of signups; `Users` implements `Registry` |
| `WalksAreComplete` | `WalkIsComplete` |
| `ListingImplementsRegistry` | signups beside a walk still implement `Registry` |
| `ProfileTypeCorrect`, `CacheStalenessBounded` | invariant of the cache; `StaleProfileBounded` |
| `DeadlinesAreBounded`, `LocksAreEarned`, `AdmissionWaits`, `FailuresSpaced` | the four properties of the throttle |
| `ServerTypeCorrect`, `NobodyIsCutOff`, `ExitCodeIsTrue` | the safety properties of one process |
| `ImplementsGracefulStop` | `Server` implements `GracefulStop` |
| `LimiterTypeCorrect`, `BurstIsBounded` | `BurstBounded` of any fixed windows |
| `GatewayTypeCorrect`, `HandlersAreGuarded` | `HandlersGuarded` of every route |
| `GatewayUsesLimiters`, `GatewayBurstIsBounded` | `GatewaySpec => LimiterSpec`, and so `BurstBounded` behind every route |

The arguments:

- **Store.** `AbsoluteCap` is not inductive: it says nothing of the deadline of the key,
  which is what `Tick` acts on. `DeadlineCapped` adds that a live key's deadline is ahead, and
  less than a lag and a second past the absolute lifetime (`CeilBounds`, `TtlBounds`).
  `IndexCovers` needs `IndexLasts` (the index itself lasts until the absolute lifetime
  is over for the caller furthest ahead) and `IndexBounded` (no index deadline is further
  ahead than a login would set it, so a login never shortens one). The refinement needs
  `HashesOwned` (a hash belongs to one session; until login answers a session holds the
  one it was born with) and `TradedOnce` (what was traded is what a usable session held
  before). `StoreInv` is their conjunction with the types. Each action is then one step of
  the contract or a stutter; `Tick` closes all sessions that expire at once.
- **Service.** `ServiceInv` says what the locals of a request are at each of its awaits
  (`LocalsOK`), that a record names the user its login was for (`OwnersKept`), and that an access token
  is of a session whose login was answered (`TokensKnown`). The reading of `Date.now()` that a
  command carries lies between `readAt - MaxSkew` and `now + MaxLead`, and with
  `MaxSkew + MaxHandling <= MaxLag` that makes it one of the store's `CallerClock`: so
  every step of the service is a step of `StoreNext` or a stutter, and the store's theorems hold of
  the service. `RevocationFinal` needs `EndedStay`, which adds that an ended session was
  acknowledged: `Create` cannot write it again, and rotation writes only what is live. `StaleRoleBounded` needs `RolesInv`:
  the role a request or a token carries is the table's, or the change is recent enough;
  `FloorToSecond` and the grain of `exp` have lemmas of their own.
- **Tokens in turn.** `TokensInTurn` compares what clients were given (`refresh`) with what the
  store remembers, and between the two lies a request with a token in its locals.
  `GivenInv` follows the token there: what a refresh presents was given to somebody or
  is no token at all (`PresentedOK`); what a request is about to hand out was
  installed in its session (`DraftStored`); so was whatever was handed out
  (`GivenStored`); and only what was given has been traded in (`TradedWereGiven`). With the
  store's `TradedOnce`, by which an installed hash is current or traded, that is the
  property. The steps that matter are the rotation, after which the current token is in the
  locals of one request and in nobody's hands, and a crash there, after which it never
  will be.
- **Signups.** `EmailsAlone` and `NamesAlone` say that whoever holds an index entry holds it
  alone, among transactions and rows: this is why a commit that has passed both
  indexes is an `Accept`. `AnswersLast` says that answers do not run ahead of decisions. `UsersInv`
  is their conjunction with the types.
- **Listing.** `Place` maps the rows onto `0 .. n - 1`: it rises along the order (`PlacesRise`), so
  no two rows share a place, and it leaves no gap (`PlacesFilled`), because an injection
  of a finite set into one of the same size is onto. So a page shows exactly the rows whose
  places lie from the offset to before offset plus limit (`PageRows`, `PageShows`), and
  `WalkInv` says that what was seen `Shows` the places before the next offset. A step
  that appends keeps the place of every row (`GrewKeepsPlaces`), which is all that has to
  hold between two pages. `ListInv` adds both to `UsersInv`. No induction is needed: the size of
  the table enters by its cardinality alone.
- **Cache.** `FindingFresh`: what a request is about to write is what the row holds, or the
  row changed after it was read. `EntryFresh`: the same of an entry, whose end was fixed
  when it was written. Together with the types they are `ProfileInv`.

- **Throttle.** `LockIsEarned` is inductive but for the clock; `AdmittedAfterDelay` is about a step,
  and needs `WaitOK`: as long as the counter remembers, the lock is the one that its last
  failure set, or that one is over. It holds because a counter above the free attempts sets the
  lock in the same script, and both keys are deleted together. `DelayGrows` (a later
  failure calls for no shorter delay) carries a lock over to the next count, `CounterOK` bounds
  the counter by the failures since the last success. `FailuresAreSpaced` speaks of failures
  far apart in the log; `ShadowOK` is its inductive form: as long as the delay of a failure
  lasts, those answered after it and the attempts under way are together fewer than all
  attempts. Admission, the only step that adds to them, waits for the delay of the last
  failure (`AdmitWaits`), which ends no sooner than that of any earlier one (`EndTyped`).
- **Server.** `NobodyCutOff` rests on `ShutdownInOrder`: once a shutdown has begun no connection is
  new, and once the pools are closing none is left. The same says that every signal but
  the first finds the server without its handle, which is what `ExitIsTrue` needs of a second
  signal. `RequestsWait`: only probes give their calls up.
  The refinement of `GracefulStop` follows from the same invariant: `Phases` reads the phase
  from the stages of the signals, and what clients and handlers do leaves it alone; a
  second signal is one more `Drain` while the first one waits, and changes nothing once
  the pools are closing, because then nobody is connected.
- **Limiter.** `BurstBounded` speaks of hits far apart in the log; the invariant of pairs: two hits that
  passed are in one window, where the count between them has grown at least as far as
  the log, or in windows that do not meet (`PairOK`); `TailOK` says the same of a hit and the
  counter as it stands, which is what the next hit is compared with. `WindowsApart` then counts:
  of `2 max` hits in a row, the one that comes `max` after the first is in a later window. Either the
  last is in a third, or that one began its window; and then the hit before it lies in the
  window of the first hit, which the first began, or in a window between the two.
- **Gateway.** `RequestOK`: every check behind a request is `Vouched` for, its limiter's key
  with it. `IpBelieved` (which address is found, by comparing the hops that are named with
  those that are there) and `KeyAgrees` (a token that may renew a session is a string whose dot
  limiter and service both find, and only what a string names is counted as a session) are its
  two lemmas about data, for any number of proxies and of hops. Each step of a
  chain is one step of the limiters or leaves them alone, which is the refinement.

**Only model-checked:** the liveness properties `EveryoneAnswered`, `Stops` and `ProbeAnswered`.
Liveness and `ENABLED` are out of the prover's reach, and so are induction over data and
RECURSIVE operators, which these modules do without. The properties of the four runs that
expect a violation are false of the code; what holds in their place is proved:
`StaleRoleBounded` where `LogoutAllDemotes` fails, `WalkIsComplete` where `PagesNeverRepeat` does,
`ContractSpec` where `ReuseIsBeyondGrace` does, and `HandlersGuarded` where a request stops at the
limiter (`RedisOutageTolerated`). Every other property of a run is a theorem.

## 5. Divergences

Found by a run (the violated property quotes the sentence):

| Run | Sentence | Code |
|---|---|---|
| grace | `SessionRepository.ts:38-41`: "reused" is stale beyond the grace period | the record keeps one previous hash: rotate twice within the grace period and the first token deletes the session |
| demotion | `docs/security.md:42`, `docs/design-decisions.md:41`: logout-all makes a demotion instant | a login that has read the old row creates its session after the logout-all |
| redis_outage | `docs/api.md:138`, `UserService.ts:107`: a Redis outage costs the profile latency, not availability | the rate limiter and authentication ask the same Redis first and let the failure through |
| redis_outage | `docs/api.md:175`, `server.ts:21`: `/ready` says 503 and which dependency fails, quickly | the limiter in front of it waits for Redis and answers 500 |
| paging | `docs/api.md:158`, `UserRepository.ts:58`: offset pages never repeat or skip | `created_at` is when the INSERT began, visibility is when it committed |

Smaller ones, visible in how the properties and actions had to be stated:

- the index does not outlive every session in it (`SessionRepository.ts:137`,
  `docs/security.md:46`): a rotation late in the session's life rounds its TTL up past the
  index's deadline, by less than a second and the lag. `IndexCovers` claims the time
  up to the absolute deadline only;
- `docs/security.md:60` speaks of a few hundred guesses a day. The counter's window starts with the
  first failure and is never extended (`LoginThrottle.ts:19`), and the delays 1, 2, 4, …
  have added up to 511 s when the fifteenth failure sets a lock of 512 s: fifteen guesses every
  1,023 s are about 1,270 a day, one at a time;
- `docs/observability.md:44` has a shutdown exit 0; after a second signal the process exits 0 or 1,
  whichever callback is first (`server.ts:149`, `HadError`);
- a process whose port is taken logs that it is running and goes on
  (`server.ts:130`, `ServerInit`);
- the handler of a client that has left may find the pools closed: `NobodyCutOff` is about
  those who are connected;
- `POST /v1/auth/refresh` with no body, or with a token that is a number or an object, is answered
  500 by `RefreshTokenController.ts:9` and `TokenService.ts:77`, where `docs/api.md:87` lists 400;
- a list with a `"."` in it passes for a token (`TokenService.ts:76-87`): `AuthService.ts:127` looks up the
  session it names and the answer is 401, or 500 from `hashRefreshValidator` if there is one. The
  limiter takes only a string to be parseable (`rateLimiter.ts:49-53`) and counts the
  list for its address, so the service's "parseable" is wider than the limiter's; no session
  can be renewed that way (`HandlersGuarded`);
- nothing compares a hop count with the proxies that are there (`trustProxy.ts:23`): it refuses
  `true`, because clients could pick their address, and accepts a number that allows the same
  (`CountedAddresses`, the third case);
- the hard cap of a session is exceeded by the rounding of its last TTL and by lag
  (`SessionRepository.ts:75`): `AbsoluteCap` has `MaxLag + Second`;
- a stale role lives slightly longer than the access token: `StaleRoleBounded`;
- `TTL` rounds to the nearest second, so a lock opens up to half a second early
  (`LoginThrottle.ts:63`): `AdmittedAfterDelay`;
- the number that logout-all answers counts index entries, expired sessions included
  (`AuthService.test.ts:376`);
- a rotation sent again after its reply was lost is answered 401 or 409 although the
  token was current, and the session then holds a token that nobody has
  (`SessionStore!RotateSwap` followed by `SentAgain`).

## 6. What is not modelled

- **Controllers, validation** (partly): they pass the services' answers on; what they decide is in the
  models of the services. A body that is not valid ends its request before any state is
  read; the schemas' wording and bounds are left out.
- **Connections** (partly): the limit of the pool, and commands sent again, are modelled; hosts,
  credentials and reconnection are not.
- **TokenService** (partly): bcrypt, JWT signatures and random ids are ideal; a fresh hash is a new
  one, a token is unforgeable.
- **The counter of rate-limit-redis, Express and proxy-addr**: external, modelled from how
  the code uses them.
- **Sharing of the `api` counter by different routes** is in `Gateway` and its theorems, not in the
  run of `MCGateway`.
- **`/`, `/health`, `/docs`, headers, keep-alive timers**: no state and no check of their own.
- **Logger, metrics, OpenAPI document, migrations, infrastructure, CI, tests**: no state of
  the protocol.

## 7. Plan

Done, in this order: sessions, requests over them, throttle, signup and listing, profile
cache, shutdown and readiness, limiters and routes, each with its theorems.

1. **The gateway over the services**: `Handle` of `Gateway` as the first step of a request of
   `AuthService`, so that a login is both counted for its address and throttled for its account.
2. **Liveness of the gateway**: every request is answered when Redis answers or gives up.
