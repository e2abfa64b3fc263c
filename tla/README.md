# A TLA+ verification of go-rest-boilerplate

The repository is a REST service in Go: registration, activation by e-mailed
code, login with refresh tokens, password change and reset, on Postgres, Redis
and SMTP. Little of it is hard line by line. What is hard is what happens
between the lines: handlers interleave, each call to Redis may be lost or lose
its answer, a cache, a bounded queue, a connection pool and a rate limiter have
limits, and the process may stop anywhere. The models here keep all of that
control and reduce the data (passwords, tokens, codes, mails) to model values or
version numbers.

`tlc -config X.cfg MCX` checks a model, `tlapm XProofs.tla` its proofs.
`PROJECT.json` lists components, runs, mutants, hazards and the source lines of
every definition.

## The system: inventory

| part | state | operations | talks to | what is hard |
|---|---|---|---|---|
| users usecase | users table, ristretto cache, singleflight group | GetByEmail, Store, UpdatePassword, Activate | Postgres | late fills, asynchronous cache writes, lost invalidation |
| sessions | refresh jtis, attempt counter (Redis); row versions | Login, Refresh, Logout, ChangePassword | users, Redis, jwt | rotation in several calls, whole-second times, partial failure |
| access tokens | tokens with iat and exp, the cutoff and its TTL (Redis) | sign, parse, the auth middleware, publishing a password change | Redis, clock | expiry and cutoff checked one after the other, a cutoff that lapses, changes that overlap |
| password reset | token, reverse index, counter, cutoff (Redis) | ForgotPassword, ResetPassword | users, Redis, mailer | check and delete apart, overlapping requests, decoys |
| activation | code and counter (Redis); account row | Register, SendOTP, VerifyOTP | users, Redis, mailer | counter reset among attempts, mail before store |
| configuration | `config.AppConfig` | InitializeAppConfig, AllowedOriginsList | .env file | what is accepted and what the parts do with it |
| server life cycle | stage of start or shutdown, listener, deadline, span buffer | main's init, NewApp, Run | everything | one deadline for requests, mails and spans; the order of the closes |
| async mailer | job channel, workers | enqueue, worker, deliver, Shutdown | SMTP | send on a closed channel, a full queue, retries at shutdown |
| connection pool | who holds how many connections | queries, request end, hang-up, /ready | Postgres | rows nobody closes, two connections for one request |
| rate limiter | limiters and last-seen times by address | getLimiter, Allow, 429, cleanup, Stop | clock | a limiter used after its eviction, rounding |
| migrations | schema, schema_migrations, advisory lock | Up, Down | Postgres | failures between files, lock bound to a pooled session |
| handlers, middlewares, audit | request counter; encoder, two mutexes, lines | ten routes, Recovery, metrics, Record, SetOutput | usecases | order of the middlewares, mutual exclusion, sticky encoder error |
| validators, smtp mailer, logging, headers, seeder, docs | none that lasts | – | – | not modelled, see below |

## The modules

| module | models | extends |
|---|---|---|
| `UserStore` | users usecase, its repository calls, ristretto, singleflight | |
| `UserStoreProofs` | proofs about `UserStore` | `UserStore` |
| `Redis` | `caches.RedisCache`: Set, Del, Incr, Expire, each of which may be lost before or after taking effect; key expiry | |
| `Sessions`, `PasswordReset`, `Activation` | the three flows of the auth usecase, one step for each external call | `Redis` |
| `RefreshTokens` | abstract specification: the life of each refresh token; implemented by `Sessions` | |
| `SessionsProofs`, `PasswordResetProofs`, `ActivationProofs` | proofs about the flows | the flow |
| `AccessTokens` | access tokens, the cutoff with its TTL, the auth middleware, in measured time | |
| `Config` | package `config`: defaults, checks, origins, as operators | |
| `Mailer` | `AsyncOTPMailer` and its workers | |
| `ConnPool` | `sql.DB` with `SetMaxOpenConns` | |
| `Server` | `main`, `NewApp`, `App.Run`, and the requests that couple mailer, pool and probe | `Config`, `Mailer`, `ConnPool` |
| `ServerProofs` | proofs about `Server` | `Server` |
| `Rate` | the constants of the rate limiter | |
| `TokenBucket` | abstract specification: one bucket for each client | `Rate` |
| `RateLimiter` | `middlewares.RateLimiter`; implements `TokenBucket` | `Rate` |
| `RateLimiterProofs` | proofs about `RateLimiter` and `TokenBucket`, and of the refinement | `RateLimiter` |
| `Migration` | `migration.Runner` and the five migrations | |
| `MigrationProofs` | proofs about `Migration` | `Migration` |
| `Audit` | package `audit` | |
| `Handlers` | the ten routes of `/api/v1` with their middlewares, and the request counter | `Audit` |
| `RequestProofs` | proofs about what a request passes: `AccessTokens`, then `Handlers` (an INSTANCE) | `AccessTokens` |
| `MC…` | symmetry sets and the instance for TLC | the module named |

How they correspond to the code:

- A handler is a member of `Procs`; `at[p]` is its place in the call. One action
  is the code from one external access (table, Redis command, cache,
  singleflight) to the next, so that everything another goroutine can see
  between two accesses is a state. Actions bear the names of the functions;
  continuations add a word (`LoginLookup`, `SendStore`).
- `UserStore`: `setBuf` is ristretto's write buffer: the Set of a new key and
  every Del go through it, in order, and the policy may drop a Set. `phase` and
  `loaded` are the singleflight call; `Deliver` answers all who wait. `Restart`
  empties the process's memory. `floor`, `acked`, `excused` are history.
- `Redis`: `kv`, and `volatile`, the keys with a TTL. A TTL has no length: a
  volatile key may lapse at any step. `slipped` remembers that a call failed or
  the process stopped; some properties are promised only until then.
- `Sessions`: `rows` is the sequence of PasswordChangedAt stamps, one for each
  version of the row. `now` counts ticks, `TicksPerSecond` to the second;
  `iat` is in whole seconds, the stamp in the row is not.
  A clock reading is distinct from every other (nanoseconds in the code).
  A usecase that returns a pair puts it in `sent`; `Answer` is the response, which
  the client gets (`known`) or does not, and a client presents only what it got.
  `Lives` maps it to `RefreshTokens`: a token is live while Redis has its jti, and
  before that unused or minted, after it what ended it; `sent` is what responses
  contain, `held` what clients got of them, `asked` the token a Refresh found live
  and has yet to issue a pair for, `failed` is `slipped`.
- `AccessTokens`: time is counted in ticks and TTLs have lengths, because here
  they race: `until` is when the cutoff lapses, `AccessLife` when a token does.
  `Handle` and `CheckCutoff` are the two checks of the middleware, up to `Lag`
  apart. `changed`, `published`, `shut` are history: what reached the row, what
  was published, and whether the token presented had been revoked by then.
- `PasswordReset`: `Register` may happen at any time, so that the address is
  unknown at first. An unknown address gets the three decoy writes of the code.
- `Config`: a `.env` file is a record of settings, 0 or "" for what is not set.
  `Server` starts with any file of `DotEnvs` and takes its sizes from it.
- `Server`: `run` is how far `main`, `NewApp` and `Run` have come, `deadline`
  the expiry of the one shutdown context, `buffered` that spans wait for export.
  A request is a `SendOTP` (lookup, mail), a `VerifyOTP` (lookup, update,
  invalidation) or a probe; `held[p]` is the number of connections it holds.
  `Mailer` keeps the fate of every mail, from its request to sent, failed,
  refused or dropped. `HangUp` ends the context of a request, `Answer` as well.
  A listener that fails, at once or while it serves, is a `log.Fatalf`: `run` is
  "fatal" and nothing is closed or drained.
- `RateLimiter`: a token is `Cost` credits, a tick brings one. A limiter is a
  heap object: it may be used after `cleanup` has dropped it from the map.
- `Migration`: each file is an effect on a set of schema features, with the
  condition under which its SQL executes, from the `.sql` files. `severed`
  remembers that a session with the lock ended under its runner.
- `Handlers`: `Routes` is a table of what a usecase can meet and the error type
  it returns for it; the flows that lead there are in the other modules.
  `Refusals` is what CORS, the rate limiter, the auth middleware and the binding of
  the body may answer instead, `Recover` a panic, `Count` the way out through
  `MetricsMiddleware`.

## The runs

| run | constants | distinct states | what it shows |
|---|---|---|---|
| `userstore` | 1 user, 2 handlers, 2 password changes, buffer 2 | 135,926 | `InvalidationEffective`: outside the two excused cases every stale entry has a Del behind it. `QuietReadFresh`: a read that begins when no excused write is about returns what every returned update wrote, even through a joined flight. `EventuallyCoherent`: once writes stop the cache agrees for good. |
| `sessions` | 2 handlers, 3 tokens, 4 ticks of ½ s, 2 passwords, limit 1; all faults | 711,915 | `ImplementsRefreshTokens`: a token is live once and ends once; each call that found a token live issues at most one pair for it, a stored one, and that ends the token unless a call failed. `SessionSurvives` (a Refresh removes a token only when the pair it returns is stored), `SessionsClosed` (a change closes sessions not minted during it); with no failed call `ReplayFails`, `TriesBounded`, `LockoutEnds`. |
| `access` | 1 token, 1 request, 2 password changes, 9 ticks of ½ s, token 4, cutoff 5, cache TTL 2, lag 1; all faults | 765,656 | `RefusedForCause`: whatever fails or overlaps, only a change that reached the row refuses a token. `RotationRefuses`: in calm a published change refuses every token of an earlier second until it expires. |
| `server` | 17 `.env` files; 2 SendOTP, 2 VerifyOTP, 1 probe in three mixes; pools of 1, 3 and 25, queues of 1, 2 and 64, 1 or 2 workers | 60,192 | `NothingClosedInUse`, `EachJobOnce`, `DrainedInTime`, `TailTraced`, `NoConnectionLeaks`; `EveryJobSettles`, `ShutdownEnds`, `RequestsEnd`, `ReadyAnswers`. |
| `reset` | 2 handlers, 2 tokens, limit 2 of 3; all faults | 453,925 | `UnknownAddressHarmless`, `LinksExpire` (a stored token always has a TTL), with no failed call `LinkReplayFails` and, for requests that do not overlap, `SingleActiveToken`. |
| `activation` | 2 handlers, 2 codes, limit 2 of 4; all faults | 315,634 | `ActivatedByMailedCode`; with no failed call `TriesBounded`, `LockoutEnds` and, for SendOTPs that do not overlap, `LatestCodeCounts`. |
| `migration` | 2 runners; failing statements, crashes, lost sessions | 229,190 | `EffectsRecorded`, `RunnersFinish`; while sessions live `OneAtATime` and `UpIdempotent`. |
| `ratelimiter` | 1 client, 2 requests, 3 limiters, burst 2, 3 ticks to a token, 10 ticks | 419,782 | `ImplementsBucket`: eviction and late use are invisible. `RetryAfterSuffices`. |
| `handlers` | 2 requests to any of 10 routes, panics, 1 SetOutput, failing sink | 620,479 | `EveryRequestCounted`: refused, failed, panicked or served, each request is counted once under its status. `AnswersAreAudited` unless the encoder failed, `RequestsAreAnswered`. |
| `userstore_stale`, `reset_twice`, `migration_down` | | | violations, see Findings |

Every property has a mutant of the mapped code, defined above what it mutates,
under which TLC violates it.

**Why the bounds suffice.** Two handlers give every pairwise race of the calls;
every safety property goes beyond its instance by proof. Two tokens (links, codes) let one be
superseded by, or confused with, the other; a third token in `sessions` is
rotated from one that was rotated itself. Two passwords are one change;
half-second ticks separate "same second, later" from "later second". In `access` the cutoff's TTL exceeds
the token's life by just the lag, and the cache TTL falls short of it, so that a
missing Expire lets a revoked token through; nine ticks see a token minted,
revoked and expired. In `server` two mails on a queue of one meet the full
channel with the worker busy; a pool of three is one more than the activations,
the least for which `RequestsEnd` promises anything, and a pool of one is less
than one activation needs; besides the four files that start (one of them only
to panic) there is one for each kind of check of the configuration. Burst 2 at cost 3
makes buckets that hold a fraction of a token; ten ticks pass the idle limit and
the refill after it, and three limiters allow two evictions.
In `sessions` TLC tells states apart by `View`, which leaves out the histories
`late` and `tries` once a call has failed: no guard reads them, and the two
properties about them promise nothing from then on.
Counters are capped in the guards by `MaxAttempts`, `MaxResets`, `MaxVersion`,
`MaxTime`, `MaxPassword`, `MaxSwaps`. Symmetry is used in runs without liveness.
Deadlock is not checked where the bounds, or the end of all requests, stop the
model.

**Fairness.** Goroutines that can run do (weak fairness on the continuations of
calls, workers, `main` and `App.Run`), database loads return or time out, timers
fire, ristretto's goroutine runs and its entries expire. Strong fairness is
assumed where a resource is contended for ever: `sync.Mutex` hands over to
starving waiters, Postgres queues advisory-lock requests. In `Server` a request
is served when a connection stays free; that a query fails, or that the row is in
the cache, is possible and never assumed (`Proceed`). Nothing makes a client
call, hang up, or a signal arrive. `EveryJobSettles` assumes that SMTP answers or
fails.

## What is proved

With TLAPS, for all constants that satisfy the named assumptions:

- `UserStoreProofs`: `TypeCorrect`, `DelReachesStaleRows`
  (`[]InvalidationEffective`) and `QuietReadsAreFresh` (`[]QuietReadFresh`), from
  `NoneAssumption` and `BoundAssumption`: any set of users and handlers, any
  buffer. Neither property is inductive. `IInv` adds `WellFormed` (a write past
  its commit is in the table, a flight holds a row exactly from its load to its
  delivery), `EntriesFresh` (a row, cached or buffered, that no Del will remove
  is as new as every returned update) and `FlightFresh` (a flight answers its
  waiters with rows as new as they need). `EntriesFresh` is needed because a
  read from the cache must reach the floor; `FlightFresh` because a read may
  join a flight that began before it.
- `SessionsProofs`: `RevocationIsFinal` (`RevokedStayRevoked`) and the five
  invariants of the run: `SessionsSurvive` (`SessionSurvives`),
  `PasswordChangeCloses` (`SessionsClosed`), `ReplaysFail` (`ReplayFails`),
  `LoginsAreBounded` (`TriesBounded`) and `LockoutIsTemporary` (`LockoutEnds`),
  from `SessionsInvariance`: any number of handlers and token pairs, any clock and
  limit, any faults. Most are not inductive by themselves. `Books` says whose each
  pair is: a pair that no usecase has returned is in the hands of exactly one handler
  (`Apart`), stored from its Set on, and only pairs that were returned are
  rotated or logged out; without it a late Set could bring a jti back. `Responses`
  says that clients got only what was returned. `Clock`
  says that a pair not minted across a change is older than the stamp of every
  later version of the row and of every change about to commit (`Outdated`), which
  is what the cutoff check of Refresh compares. `Replaced` ties the pair a Refresh
  returns to the removal of the one before, `Counted` the attempts let through to the
  counter in Redis.
  `SessionsImplementTokens` (`ImplementsRefreshTokens`) is the refinement, one
  lemma for each handler step: only the Get of Refresh, Mint, the Set of
  rememberRefresh, the last call of Login and of Refresh, the response, Logout and a
  lapse are steps of `RefreshTokens`, each of them at most one, and everything else,
  faults and restarts included, at most abandons calls. It needs the invariant: that the Set of a pair makes a minted token
  live, not one that has ended, is `RevokedStayRevoked` with `Apart`, and that what
  is issued was stored is `Books`. From the abstract specification alone,
  under this mapping, follow `TokensHaveHeirs` (`Lineage`: a rotated token has a successor in a
  response, and while nothing failed a token with such a successor has ended) and `TokensEndOnce` (`EndsOnce`, an action property); by the refinement
  both hold of the handlers (`SessionsKeepLineage`).
- `PasswordResetProofs`: all four invariants of the run:
  `UnknownAddressesHarmless`, `UsedLinksFail` (`LinkReplayFails`), `LinksHaveTTL`
  (`LinksExpire`) and `OneActiveToken` (`SingleActiveToken`), from
  `ResetInvariance`. `Books` again says whose each token is until it is mailed,
  and that no decoy ever is; `Unknown` that no handler gets beyond the decoys
  without an account; `Consumed` that a token is gone once its ResetPassword is
  past the Del. `Sole` carries `SingleActiveToken` through the steps of a request:
  the live token is the one the index names, except between the Set of a new token
  and that of the index, and there is none from the Del of the old to the Set of
  the new.
- `ActivationProofs`: all four invariants of the run: `OnlyMailedCodesActivate`
  (`ActivatedByMailedCode`), `AttemptsAreBounded` (`TriesBounded`),
  `LatestMailCounts` (`LatestCodeCounts`) and `LockoutIsTemporary`
  (`LockoutEnds`), from `ActivationInvariance`. `InHand` says which codes handlers
  hold, `Counted` that the counter is not behind the attempts, `OneByOne` that the
  one SendOTP about to store holds the code mailed last.
  The three flows share the assumptions of `Redis` (`NoneAssumption`: no counter
  reads as a missing key) and each has its own on limits and tokens.
- `MigrationProofs`: the three invariants of the run: `RunnersExclude`
  (`OneAtATime`), `EffectsAreRecorded` (`EffectsRecorded`) and `UpIsIdempotent`
  (`UpIdempotent`), from `MigrationInvariance` and `MigrationAssumption`: any
  number of runners and restarts. `Holding` says that past the lock means holding
  it, `Recorded` that an Up has recorded every file it has come past, `OnTrack`
  that its place in the files fits its direction. `NamesApart` is the fact about
  the file names that keeps Down from deleting another file's row.
- `RateLimiterProofs`: `RateLimiterImplementsBucket` (`ImplementsBucket`: the
  refinement of `TokenBucket`, step by step), `BucketBoundsWindows` (a bucket lets
  through, in any window, requests that cost at most a full bucket and the inflow
  of the window), and by both `MiddlewareBoundsWindows`, the same of the
  middleware; `RetryAfterIsEnough` (`RetryAfterSuffices`), `BucketsInRange`
  (`TypeOK`) and `BucketNeverOverdrawn`. From `BucketAssumption` and
  `RateAssumption`: any clients, requests, burst, rate and idle limit that leaves
  time for a refill. `IInv` says that a request in the middleware holds the limiter
  its client has (`Fetched`), that clients share none (`Unshared`), that no bucket
  was drained after the slowest request that could have fetched it (`Clock`: so an
  evicted one is full, and eviction is no step of the bucket), and that a promise
  covers what is missing (`Promised`). `WindowBounded` speaks only of past grants;
  `Account` adds what is left in the bucket to every window that is still open.
- `RequestProofs`, on `AccessTokens`: `RefusalHasCause` (`RefusedForCause`) and
  `RotationShutsOut` (`RotationRefuses`), both action properties, from
  `NoneAssumption`, `TimeAssumption` and `FaultAssumption`: any number of tokens,
  requests and changes, any lifetimes. `IInv` says that no cutoff, in Redis or
  about to get there, is later than the latest change that reached the row
  (`CommitInv`), that a parsed token had not expired at most `Lag` ago
  (`ParsedInv`), and, in calm, that stamps are published in their order
  (`OrderInv`), that a changer finds its own key alive when it sets the TTL
  (`SetInv`) and that the key then lives for `CutoffTTL` from its second on
  (`LifeInv`). The last three are why the middleware may read the cutoff after
  the expiry: a token that has not expired is younger than the cutoff's TTL.
- `RequestProofs`, on `Handlers`: `Audited` (`AnswersAreAudited`) and `Counted`
  (`EveryRequestCounted`), from `HttpInvariance` and the assumption `WellFormed`:
  any finite set of requests to any of the routes, any number of SetOutputs, any
  failing sinks. `AnswersAreAudited` speaks of answers, and a line is written long
  before: `Recorded` says that a Record has no line until its Encode, and then one
  with the outcome of its request or an encoder that has failed; `Answered` that no
  answer is given before the Record is done, and that its status tells the outcome
  the line has. `EveryRequestCounted` is inductive with the types: a Count adds one
  request to the finished ones of its label and one to the counter of that label
  (`CountOne`, by cardinalities).
- `ServerProofs`: `ServerInvariance`, and from it `ClosedUnused`
  (`NothingClosedInUse`), `JobsOnce` (`EachJobOnce`), `QueueIsDrained`
  (`DrainedInTime`), `TailIsTraced` (`TailTraced`) and `RequestsCleanUp`
  (`NoConnectionLeaks`), all the invariants of the run, from `ServerAssumption`: any requests, any set of
  `.env` files, so any sizes of pool and mailer. `MailInv` says where each mail
  is and that a worker returns only from a closed, empty channel; `FlowInv` what a
  request holds at each place of its call; `LifeInv` what each stage of start and
  shutdown has behind it: no mailer before `NewApp`, no request open once the
  HTTP server has stopped, no worker left and so no more spans once the drain was
  in time. `DrainedInTime` speaks of the last stage only; it is inductive only
  together with what every stage before has established.

In each module `IInv` is the inductive invariant (`HttpInv` for `Handlers`,
`LivesInv` for `RefreshTokens`); TLC found it true of the instance of the run before
it was proved. Bounds that only keep TLC's state space finite
(`MaxAttempts`, `MaxTime`, `MaxResets` and the like) are constants like the others:
the theorems hold for every value of them.

Only model-checked: the liveness properties (`EventuallyCoherent`, `RunnersFinish`,
`EveryJobSettles`, `ShutdownEnds`, `RequestsEnd`, `ReadyAnswers`,
`RequestsAreAnswered`), which need fairness and ENABLED and are out of the prover's
reach. Every invariant, action property and refinement of the passing runs is
proved. What recursive functions compute for every input is not: that takes
induction over data.

## Findings

| run | what the code does | what is said |
|---|---|---|
| `userstore_stale` | A GetByEmail that loaded the row before UpdatePassword committed fills the cache after UpdatePassword's Del; the old hash is served until the TTL. | "so the next Login doesn't read the stale (old-hash) cached user", users.update_password.go:71 |
| `reset_twice` | Two overlapping ResetPassword calls both pass the Get and both replace the password. | "consumes a one-shot reset token", auth.reset_password.go:15 |
| `migration_down` | The down files 1 and 2 are named differently from their up files, so `deriveUpName` matches no row; the next Up skips both. | "Each successful down deletes the matching schema_migrations row", migration.go:103 |

Other statements, most of them comments of the code, are refuted too; they are stated at the end of their modules and
become violations when added to the cfg of the module, as an INVARIANT unless
noted:

- `NobodyStranded` (Sessions; no comment promises it): from the Del of the old jti
  (auth.refresh.go:151) until the response arrives the new pair is only in the
  response, so a client whose response is lost, or whose server stops there, has
  no refresh token left and must log in again. `SessionSurvives` ends at the
  response for this reason; auth.refresh.go:136 speaks of failures of the mint only.
- `RotationClosesSessions` (auth.refresh.go:106): a Login that read the old row
  and mints after ChangePassword's stamp gets a session that survives.
- `RotationAlwaysRefuses` (auth.impl.go:55, a PROPERTY): a published change lets
  older tokens through when Redis fails, when two changes publish out of order,
  and when JWT_EXPIRED, up to 720 hours, exceeds the 24 of `tokenCutoffTTL`.
- `LaterSessionsRefresh` (auth.change_password.go:16; `TicksPerSecond = 3`): a
  refresh token minted after the change, in the same second, is refused.
- `SingleActiveAtRest` (auth.forgot_password.go:126): two overlapping requests
  read the index before either writes it, or ResetPassword deletes the index of a
  newer token.
- `GuessesPerCodeBounded` (auth.config.go:10): an attempt counted before SendOTP
  resets the counter is compared with the new code.
- `DownRerunSucceeds` (README.md:92, cfg `MigrationDown`): a second Down fails on
  ALTER TABLE of the dropped table.
- `FailureIsOneEvent` (audit.go:90): `json.Encoder` keeps its first error, later
  events are not written either.
- `EncoderNotRaced` (audit.go:80): SetOutput writes `enc` under `mu`, Record
  reads it under `encMu`.
- `NotFoundMeansUnknown` (handlers/v1/auth/auth.send_otp.go:24): a failing
  database is answered 404 as well.
- `RequestsEndAnyPool` (Server, a PROPERTY): with DB_MAX_OPEN_CONNS = 1, which the
  configuration accepts, an activation waits for the connection it holds itself.
- `AcceptedStarts` (Server): ALLOWED_ORIGINS = "," is accepted in production and
  makes the CORS middleware panic.

Two smaller disagreements met on the way: README.md:78 gives 25 and 5 as defaults
of the pool, and a file that sets only DB_MAX_OPEN_CONNS below 5 is refused,
because the default of the idle connections then exceeds it; and the mails
say five minutes (mailer.otp.go) where a code lives for `REDIS_EXPIRED` and a
reset token for thirty.

And the conditions in checked properties mark where the code promises less than
a comment: without `~slipped`, a lost Del leaves a used refresh token live
(auth.refresh.go:151) and a lost Expire a lockout without end (auth.login.go:74);
without `~severed`, two migration runners work at once (migration.go:147);
without `~deadline`, mails are left behind (server.go:181); without the excuses
of `InvalidationEffective`, an activation whose second lookup fails leaves the
stale row cached until its TTL (users.activate.go:62); two overlapping Refreshes of
one token may both issue a pair (auth.refresh.go:64); and with as many
concurrent activations as connections `RequestsEnd` fails, because
ChangeActiveUser never closes its rows (users.change_active_user.go:20).

## Abstractions

One API process, with its own cache. One account in each auth module; accounts
share nothing but Redis, by disjoint keys. The clock reads for the access and the
refresh token of a pair are one. TTLs are not compared with one another,
except in `AccessTokens`, where they are measured, and in `Activation`: code and
counter have the same TTL in the code (the cache TTL), so a counter started after
a code does not lapse before it. A commit whose answer is lost is a success that
returns an error. `RateLimiter` assumes a request spends at most `MaxDelay` in the
middleware, less than the idle limit minus a refill (four minutes in the code);
the period of the cleanup ticker is not modelled, it may run at any tick.
`AccessTokens` assumes that a call to Redis is over (`Lag`, three seconds in the
code) before a key just set can lapse (REDIS_EXPIRED, at least a minute).
In `Server` a client sends one request; the rest of the usecases, and their Redis
calls, are in the modules of the flows. Spans are exported only by the flush at
the end: the periodic export and sampling could only leave fewer behind. The
collector accepts what is flushed; an exporter that fails before the deadline
(server.go:213) is only logged. A connection whose rows nobody closes comes back
with the end of its request's context; that a goroutine of `database/sql` does it,
a moment later, is left out. A signal before `signal.Notify` ends the
process like any other failure of the start. In `Handlers` a panic happens in the
usecase; one in the handler itself takes the same way through Recovery. In
`Migration` a failing `pg_advisory_lock` (migration.go:147) is a run that ends
without having done anything, as after `Crash`. `UpdatePassword` looks up the email
of a user that comes without one (users.update_password.go:75); both callers pass a
row they read, so `UserStore` leaves the lookup out. In `PasswordReset` a registered
address may still take the decoy path: its lookup may share a load that read the
table before the registration.

## Not modelled

- Validators: field rules without state; a payload is valid or not.
- The SMTP mailer: I/O and templates; a delivery succeeds or fails.
- Logging, the histogram and gauges of the metrics, request-id, security and CORS
  headers: output that no other part reads (that CORS may refuse is in `Handlers`).
- SoftDelete and List of the repository, which nothing calls; the seeder, a
  development tool; generated API docs.
- JWT signatures: a token that was not minted does not parse.
- The advisory headers of the rate limiter on successful answers.

## Plan

Built in this order: `UserStore`, `Redis`, the three auth flows, the mailer,
`Migration`, the rate limiter with its abstract bucket, the pool, `Handlers`; then
`AccessTokens`, and `Config` and `Server`, which compose mailer and pool with the
life of the process; then the proofs about the flows, the migrations, the rate
limiter and the handlers, and `RefreshTokens` with its refinement, which leave no
safety property to TLC alone. Next: an abstract user directory that `UserStore`
implements for quiet reads; a composition of `Sessions` and `AccessTokens` over one
Redis.
