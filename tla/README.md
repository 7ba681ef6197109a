# A formal model of backend-api-jwt

TLA+ specifications of the REST service in `src/` (Rust, axum, sqlx/MySQL), model-checked
with TLC and in large part proved with TLAPS: the rate limiter, the user table, the sessions, the
start-up and the pages. Paths below are relative to the directory that holds `src/`, so the
program's own code is `src/src/...`.

## 1. The system and its hard parts

| component | state | operations | what is hard |
|---|---|---|---|
| rate limiter (`middlewares/rate_limiter.rs`) | the map `BUCKETS` from client key to bucket, the flag `CLEANER_STARTED`, the cached settings | every request (stamp, charge, answer), the background cleaner, `purge_stale_buckets_once`, `POST /debug/rate_limiter` | threads interleave on one map; a timestamp and settings read before the lock; check-then-remove in the cleaner; settings that change while it runs |
| settings (`read_config`, `get_config`) | the process environment, a cache in front of it | one read per request | defaults, clamping, freshness |
| user handlers (`handlers/register_handler.rs`, `login_handler.rs`, `user_handler.rs`) | the MySQL table `users` | register, store, login, show, index, update, destroy | several statements per request and no transaction; lost results; clients that leave; a verification that times out |
| authentication (`utils/jwt.rs`, `middlewares/auth_middleware.rs`) | none; tokens are held by clients | issue, verify | a token outlives its user; expiry |
| proxy middleware (`middlewares/proxy.rs`) | `TRUSTED_PROXES`, replaceable at run time | resolve the client address | which header counts, and the order against the rate limiter |
| router (`app.rs`, `routes/`) | none | which layers a route passes | layers apply to the routes added before them |
| database start-up (`config/database.rs`, `migrations/`) | the schema, `_sqlx_migrations`, the connection pool | connect, migrate, recover once | a crash between statements, two instances starting together, the pool at its limit |
| health, responses, validation, schemas, models, test helpers | none, or the environment | pure functions, a `SELECT 1` | - |

How they interact: a request passes proxy -> rate limiter -> (for `/users`) auth -> handler ->
MySQL. The proxy hands the rate limiter an address in the request's extensions; rate limiter
and cleaner share `BUCKETS`; the handlers share only the table. Tests and operators change
the environment while all this runs.

What makes each component correct:

* rate limiter: a key is admitted for no more than its burst and its refill, up to leaks that
  can be named; forgetting a bucket is not observable; the burst is really granted; keys do not
  affect each other; nobody waits for a lock in a circle; the cleaner evicts what is idle, and its
  passes end.
* user handlers: an answer tells the truth about its write, a token names somebody whose
  credentials were checked, a login is refused only for credentials that were wrong at some moment or for a
  SELECT that failed, every request is answered.
* authentication, proxy, router: a session rests on a token that was handed out, in time and under
  the secret in force; a client has one address, and only a trusted proxy may say which, in a server that knows its peers
  (in the one main.rs starts the client's header says it, see `HeadersNeedTrust`); every route, and what is no
  route, has the layers its purpose asks for, in the right order.
* start-up: who serves has the unique index, no address is lost, and neither crashes nor any state of the ledger keep the
  service down; the one thing that can is the advisory lock a failed run leaves in a pool.
* index: what a walk over the pages shows twice or misses can be explained, by registrations that were
  overtaken and by removals.

## 2. Modules

| module | what it is |
|---|---|
| `LimiterConfig` | `read_config()`: an environment with unset or unparsable variables becomes the settings of one request; six reads while the environment changes find a mixture, which is an environment too |
| `RateLimiter` | the rate limiter: requests, cleaner, helper purges, admin drops and the environment, over one map, a critical section a step |
| `BucketLocks` | the same with DashMap's shard locks and the buckets' mutexes, and the debug page; implements `RateLimiter` |
| `TokenLedger` | `RateLimiter` with history variables: what each key paid and what leaked; states the properties |
| `TokenBudget` | the abstract promise of a token bucket: pay, within burst + rate * time + leaks |
| `ClientKey` | operators: the address `proxy_middleware` resolves and the key the rate limiter charges |
| `Gateway` | a request on its way through the layers of `build_router()`: proxy, rate limiter (with `ClientKey`), CORS, gate, handler; tokens |
| `UserService` | the handlers, statement by statement, over the table `users` |
| `UserDirectory` | the abstract promise of the user API: one atomic write per request, and answers that are true |
| `UserHistory` | `UserService` watched by the history of each login's credentials |
| `UserPages` | `index` and a client that walks through the pages |
| `Migrations` | `establish_connection()` and the migrations, several instances on one database |
| `*Proofs` | the theorems |
| `MC*` | constants for TLC |

What composes what: `BucketLocks` and `TokenLedger` extend `RateLimiter`, which extends
`LimiterConfig`; `Gateway` extends `ClientKey`. Whether a request of some key is admitted is open in
`Gateway`, and which key a request has is open in `RateLimiter`: the two meet in the key alone.

### RateLimiter and the code

`buckets` is `BUCKETS`; `task[t]` holds a request's locals (`key`, its settings, `now`) and where
it is; `purger[p]` the locals of one call of `purge_stale_buckets` (its list of keys is `ahead`
and `todo`, the key judged stale is `victim`); `purger[Cleaner].pc = "off"` is `CLEANER_STARTED = false`.

| step | code in `rate_limiter.rs` |
|---|---|
| `Enter` | `get_config()` and the key (117-239); the key is arbitrary here |
| `Stamp` | `Instant::now()`, `ensure_cleaner_started` (241-243, 568-584) |
| `Admit`, `Refuse` | the block under the map entry and the bucket's mutex (246-266) with the branch after it |
| `Reply` | the response leaves |
| `CleanerWake`, `PurgeOnce` | a pass starts (576-582, 586-592, 623-627) |
| `Collect` | one shard of `BUCKETS.iter()` (594) |
| `Inspect`, `Evict` | judge a bucket (599-608), remove the key (610) |
| `Finish` | the pass ends (614-621) |
| `DropRequest`, `DropNext` | `debug_action` (460-566) |
| `Tick`, `SetEnv` | time, `set_var` |

A critical section is one step since nothing else can touch the bucket inside it; what is
read before it is a step of its own. `Tick` is possible between any two steps: a thread can
be preempted. Tokens, rates and costs are f64 in the code and integers (in one common
fraction of a token) here; rounding, NaN and infinities are out of the model.

History variables of `TokenLedger` (they observe, and never restrict, the steps): `paid`, `seen`
(up to when the refill is credited), `slip` (time credited twice because a request with an older
stamp got the lock later), `gift` (tokens given away by removing a bucket before it had refilled)
and `touched` (purgers whose victim was charged after they judged it).

### UserService and the code

One process per request, `at[r]` is the statement it will execute next. Each SQL statement is
atomic (autocommit), nothing else is. `register` is `exists -> hash -> insert -> read back`, `store`
the same from `hash`, `login` is `look up -> verify`, the others are one statement. Failures: a
SELECT or the hashing fails (`Fails`, and `LookUpBreaks`, which login answers 401); a write is
answered by an error although it may have been carried out, or will be (`Breaks`, then `Settles`); the
client leaves and the handler's future is dropped at its await (`Leaves`, likewise). The unique
index and AUTO_INCREMENT (no id given out twice) belong to MySQL and are modelled from the
migrations. Names and timestamps are left out, a password hash is represented by the
password it verifies, and `trim().to_lowercase()` by the function `Canonical`.
`carried`, the requests whose write took effect, is a history variable. `UserHistory` adds whose credentials a login has had
at some moment (`matched`), at all (`steady`), and whose SELECT failed (`failed`), which the answer does not tell.

`UserDirectory` promises: a request writes at most once, in one step; 201, and a write's 200, come only
after the write; 409 and 404 only from requests that have not written, at a moment when the
directory gives the reason; 500 and silence promise nothing. `UserService!Directory` maps
one to the other: a row's address is what its id holds, a request's wish is its normalised payload.

### BucketLocks and the code

`Enter`, `Stamp` and the purge's own steps are those of `RateLimiter`; what changes is the critical
section, now `Entry` (`or_insert_with` under the shard's write lock), `Seize` (the mutex), `Charge`,
`Release`; the purge, `NextShard`/`List` (the iterator keeps the guard on a shard until it has the
next), `Get`/`Judge`/`Skip`, `Remove`; and `debug_info` (`View` ... `Answer`). `hold[r]` is the shard a
reader has a guard on, `looking[r]` the key it has a reference to. `SectionsAreAtomic` maps the map
back to the atomic one by leaving out what is inserted and not charged yet. `NoWaitInCircles` is what the
comment at rate_limiter.rs:597-599 is after ("Ensure we drop the DashMap guard before mutating the map to avoid
deadlocks"), and more: a bucket's mutex never keeps anybody who has its shard waiting for a request. DashMap's locks
are taken to be what its documentation says: readers share, a writer is alone.

### ClientKey, Gateway and the code

A request carries `ahead`, the layers still to pass. A router is a function from routes to what a request
for them passes: `Routing`, `Wrapping` and `Merging` are axum's `route`, `layer` and `merge` (a layer wraps the routes that
are there when it is added), and `BuildRouter` is `build_router()` statement by statement. The route `nowhere` is the
fallback, which axum's `layer` wraps like a route and `merge` takes over from the other router: the one of `user_routes()`, with
its gate. A path that matches nothing, the debug page's where it is off (`Served`), is therefore charged and needs a token
before it gets its 404. `Resolve`
is `proxy_middleware`, `Limit` and `Refuse` `rate_limiter`, `Gate` `auth_middleware`, `Handle` the method router
with the handler, `Sign` the end of a login. `SetTrustedProxies`, `SetSecret` and `Tick` come
between any two layers. A token is its claims and the secret that signed it; a client can send a
token of ours only after it was handed out, and any token of a foreign secret at any time. `build.wired` tells
whether the server puts the peer's address into the request: the repository's tests do, main.rs does not. History: `births`
(tokens handed out), `ever` and `always` (whose peer was trusted at some, at every moment until
the proxy middleware was done).

### Migrations and the code

An instance runs `lock -> check -> (begin -> ... -> mark)* -> unlock -> serve`; a run that ends with
Dirty or VersionMismatch goes to `delete` (`delete_and_retry`) the first time and ends the process the
second time, other errors end it at once. sqlx's run returns its errors before it unlocks: the connection goes back to the
pool with the advisory lock (`Fails` sets `kept`). The retry may get this connection, to which MySQL grants the lock
once more (`Delete` to `check`; RELEASE_LOCK then gives back only the second grant, see `Unlock`), or another one, which waits
(`Delete` to `lock`). `Reap` is the pool closing the connection; database.rs:38-44 leaves sqlx's `idle_timeout` and
`max_lifetime` as they are, so it may happen, but nothing here rests on it. The database starts fresh, as an earlier release
left it, or with a migration whose file was changed later (`changed`). `Insert` is a registration by an instance
that serves or by an older release. Taken from sqlx and MySQL: a run reads the ledger once, DDL
commits, the lock belongs to a connection and ends with it.

### UserPages and the code

`Select` and `CountAll` are the two statements of `index`; both are executed even if one fails
(`Breaks`). The walker asks for the next page until one is not full. A registration is an INSERT that is given its id
(`Allocate`) and whose row becomes visible when it commits (`Commit`), or never (`RollBack`): InnoDB gives out ids before the commit, so
rows may appear in any order. History: `repeated` (how often the walk got a user it had), `late` (rows that
appeared in front of one it had read), `stayed` (users there all the time), `removed`, and `lost` and `added` between the two statements.

## 3. Runs

All of them explore their whole state space.

| run | instance | shows |
|---|---|---|
| `LedgerRaces` | 2 requests at a time, 1 key, cleaner, 4 s, pause 2 s, ttl 2 s | `LedgerInv`, `AdmissionBound`, `UntouchedEvictionIsFree`, refinement `KeepsBudget` |
| `LedgerAdmin` | requests one at a time, one purge with ttl 0 or 2, one admin drop of a repeated key, 2 environments (burst 2; burst 1 with cost -1 and action drop) that change at any moment, 2 s | `LedgerTypeOK`, `LedgerInv`, `UntouchedEvictionIsFree`, `BurstIsHonoured`, `KeepsBudget` |
| `BucketLocks` | 2 keys in 2 shards, requests, one purge, one admin drop, a viewer that comes back | `LocksTypeOK`, `NoWaitInCircles`, refinement `SectionsAreAtomic`, and under fairness `RequestsAreDecided`, `PurgeEnds`, `ViewsEnd` |
| `Gateway` | 2 requests in flight, 2 secrets (or none), 2 lists of proxies, 2 ways to set up the server (main.rs's defaults, and all on with peer addresses), routes and one path that is none, one token handed out, 3 s with lifetime 1 and leeway 1 | `TypeOK`, `KeysFollowSource`, `RightLayers`, `SessionsAreEarned` |
| `Migrations` | 2 instances, 2 addresses, up to 3 rows, 2 crashes, every legal database to begin with | `TypeOK`, `ServingMeansIndexed`, `EldestSurvive`, `ServingKeepsUsers`, and under fairness `OnlyAKeptLockBlocks` |
| `UserPages` | 1 walk, 4 ids that commit in any order, page sizes 1 to 3 from the parameters none, 0, 1, 2, 5 | `TypeOK`, `RepeatsAreLate`, `MissedAreRemovals`, `TotalsAgree` |
| `UserWrites` | 3 requests out of 9 payloads, empty table | `TypeOK`, refinement `AnswersAreTruthful` |
| `UserLogins` | 3 requests out of 7 payloads, a table with two users | `TokensAreEarned`, `RefusalsHaveACause`, and under fairness `EveryRequestEnds` |

Why the bounds are enough. Every rate limiter race needs two requests, or a request and a
purger, on one key. Four seconds hold a full refill (2 s at rate 1, burst 2), the cleaner's wake-up
and a charge on either side of it. Rates, bursts and costs differ by 1, so an off-by-one is
visible; the theorems cover all other values, the mixtures that six reads of a changing environment can find
among them (`LedgerAdmin` with all mixtures of two settings has three times the states and finds nothing either), and any number of keys: no step
looks at two keys at once. Locks need two shards (an iterator holds one and waits for the other) and one actor of
each kind (several requests at once, which exclude each other, are left to the proofs); time stands still there, since no lock depends on it, so that the purge is a helper's: the cleaner,
which takes the same steps, starts and never wakes. In the user API a race needs two requests on one
address or id, and a third one (a removal) to come between a statement of each. There are as many
ids as requests can use up. Three requests of one address in two spellings give all orders of
the check, the insertions and the removal. In the gateway two requests suffice to have a token
handed out while another one is on its way, and three seconds to see it live, in its leeway and dead.
Two instances meet at every statement of the start-up; three rows of two addresses
hold a duplicate and an innocent; a crash of each instance, or two of one, lets a recovery itself
be interrupted. Four users give a walk up to four pages, with removals before and behind it, and one INSERT overtaken
by another before, between and after the pages.

`MaxTime`, `MaxDrops`, `MaxIssued`, `MaxRows`, `MaxCrashes`, `MaxId` and the one call per helper and per user request are bounds of the model; the
code has none of them. The clock stops at `MaxTime`, but requests do not, and the environment can always change: that the rate
limiter's runs find no deadlock says little, and that nobody waits for ever is said by `NoWaitInCircles` and the liveness
properties. The runs of the user modules and of `Migrations` switch the deadlock check off: every
request or walk there is made once, and the system is idle when all are over and everybody serves.

Runs that show a disagreement between code and documentation (each checks one
property, taken from the quoted text, and finds it violated):

| run | text | code |
|---|---|---|
| `RefillRate` | README.md:243 "allowed token refill rate per second per key" | stamps older than the bucket's `last` move it backwards, and time is credited twice (241, 255-257) |
| `EvictsOnlyIdle` | README.md:252 "evicts buckets that have not been accessed for `RATE_LIMIT_BUCKET_TTL_SECS` seconds" | the bucket may be charged between the check and the removal (599-610) |
| `UpdatePassword` | user_handler.rs:247 "only change fields provided", user_schema.rs:34 | the UPDATE ignores the password and reports success |
| `HeadersNeedTrust` | README.md:292 "Only when a request comes from a trusted proxy will the middleware honor `CF-Connecting-IP`, `X-Forwarded-For`, or `X-Real-IP` headers" | main.rs:78 serves without peer addresses, so the proxy middleware resolves nobody, and the rate limiter takes the headers as they are, from anybody (rate_limiter.rs:134-148) |

Five more differences, which the models contain and no run of their own shows:

* README.md:247, and the comment at rate_limiter.rs:87 that settings are followed at once: the cleaner keeps the ttl
  of the first request (569-582; `StartCleaner`).
* README.md:246 says `RATE_LIMIT_ACTION` "Default: `drop`"; it is `block` (44; `ReadConfig`).
* README.md:13 "Duplicate email detection (returns 409 Conflict)": update answers 500
  (user_handler.rs:275-281; `UpdateDuplicate`).
* README.md:349 "if `RATE_LIMIT_DEBUG_TOKEN` is not set, the debug endpoints are only accessible from loopback
  (127.0.0.1)": without peer addresses they are accessible to nobody, loopback gets 401 as well (rate_limiter.rs:380-396;
  `MayDebug` where `build.wired` is not set).
* A login whose SELECT fails is told "Invalid email or password" (login_handler.rs:54-60; `LookUpBreaks`), where the other
  handlers answer 500.

`RefillRate` and `EvictsOnlyIdle` are small in practice: `slip` is the time between a stamp and its lock, and a bucket
can only be charged between check and removal by a request that comes at the end of its ttl.
`AdmissionBound` bounds what they can cost.

## 4. Fairness

Safety needs none. `BucketLocks!FairLocksSpec` is weakly fair to what a thread does between two locks
(no section contains an await that could keep it) and strongly fair to each wait for a lock: DashMap's and
parking_lot's locks do not let a waiter starve while the lock is free again and again. Clients,
operators and the clock owe nothing. With weak fairness only, `RequestsAreDecided` fails: a viewer that
comes back again and again may hold the shard whenever the request looks. Nor would strong
fairness help if several readers came back for ever and took turns, so that the shard is never free.
The run has one such reader, the viewer, and one purge: a cleaner that pauses for 30 seconds between its
passes does not keep a relay going.
`Migrations!Spec` is weakly fair to an instance's steps (MySQL answers, and who runs the service starts
a process again that has ended) and strongly fair to `GET_LOCK`, which MySQL grants to waiters in turn; crashes
are as many as `MaxCrashes`, for liveness says nothing of a process that is killed for ever. Nothing is assumed of `Reap`: that every
instance serves again and again therefore does not hold, with a single instance either (a crash before `mark`, the recovery,
and the retry waits for its own pool), and `OnlyAKeptLockBlocks` says what is left: either all do, or for ever the
lock is kept and everybody serves or waits for it. Whether such a wait ends after minutes depends on sqlx's pool alone.
`UserService!Fairness` is weakly fair to a request's statements (MySQL and the hashing answer) and to
the timer of a verification, not to the verifying thread itself: `EveryRequestEnds` rests on
`verify_password_blocking` giving up. With the timer removed it fails.

## 5. What is proved

For every choice of tasks, keys, environments (also ones that change between any two steps),
helpers, drop lists, pauses and time bound, from the named assumptions `UnsetAssumption`,
`LimiterAssumption` and `LedgerAssumption` (types of the constants; `RateBound`, `BurstBound` and
`BurstFloor` really bound the environments):

* `TypeCorrect`: `Spec => []TypeOK` of `RateLimiter`.
* `LedgerInvariant`: `LedgerSpec => []LedgerInv`; `LedgerTyped`: `LedgerSpec => []LedgerTypeOK`.
* `AdmissionIsBounded`, `EvictionIsFree`, `BurstHonoured`: the properties of section 3.
* `LedgerKeepsBudget`: `TokenLedger` implements `TokenBudget`.

The argument. `AdmissionBound` speaks of what was paid, and is not inductive: it does not see the
tokens still in the bucket. `BooksBalance` adds them. For each key, paid + tokens <=
BurstBound + RateBound * (seen + slip) + gift, where `seen` equals the bucket's `last`; a key without
a bucket must still have room for a full burst. A charge moves an amount from tokens to
paid; a refill of `now - last` raises both sides by at most RateBound times that; a stamp
from the past lowers `seen` and raises `slip` by the same; a removal raises `gift` by exactly the
tokens the bucket lacked. This needs `RequestsAreSound` (no stamp from the future, settings within the
bounds). `EvictionIsFree` needs `JudgedAreIdle`: what a purger judged stale stays so until the key
is touched; a bucket idle for a ttl with RateBound * ttl >= BurstBound lacks nothing.
`BurstHonoured` needs `BurstRemains`, the same potential from below: paid + tokens never fall under
the smallest burst. Refinement: each booked step is `TokenBudget!Serve` of one key, by
`LedgerInv` before and after it.

With any number of shards, a key's shard chosen in any way, and any number of viewers (`LocksAssumption`):

* `LocksInvariant`, `LocksTyped`, `NoCircles`: `LocksSpec` implies `[]LocksInv`, `[]LocksTypeOK`, `[]NoWaitInCircles`.
* `SectionsAtomic`: `BucketLocks` implements `RateLimiter` under `Shown`.

`LocksInv` says where a request is in its section (`Section`: it has the shard to itself, against other
requests and against readers), what it has in hand (`InHand`: a bucket not charged yet is exactly the
new one this request would make), and where a reader may be with a reference in its hands
(`ReadersOK`). Most steps do not touch a section: `Bystands` says so once, and `BystandersKeep` keeps the
invariant for all of them. A charge is then one step of `RateLimiter`: if the bucket is fresh it is
the one `Refilled` assumes for an absent key (`ChargeIsAtomic`), and a reader or a removal never meets a fresh
one, whose shard is written (`FreshIsWritten`). So what is proved of `RateLimiter` holds at the grain
of the locks as well.

For every choice of requests, payloads, ids, a starting table with unique addresses and a canonical
form of addresses, from `ServiceAssumption`:

* `ServiceTypeCorrect`: `Spec => []TypeOK` of `UserService`.

It comes from the inductive invariant `ServiceInv`: types, unique addresses (which the index gives and the
refinement below needs), and `Placed` (a request is only ever at a statement of its own operation, with the payload
it was sent). Without `Placed` a row could be filled from a payload that has no address.
The lemmas on `Insert`, `Update` and `Delete` are about the table alone; the request's own
bookkeeping is `RequestStep`, `MoveStep` and `AnswerStep`.

* `AnswersTruthful`: `UserService` implements `UserDirectory`.
* `LoginsEarnTokens`, `RefusalsExplained`: `HistorySpec` implies `[]TokensAreEarned` and `[]RefusalsHaveACause`.

The refinement needs `AccountInv`, which adds to `ServiceInv` an account of each request (`Accounted`): at its
statements it has no answer yet, while its write may still come later (`Settles`) none or 500, and its write has
been done only when it is at the read back or over. An insertion, an update and a removal are then the directory's write of that request and
everything else is an answer or nothing; a 409 needs that the address the index refuses is
one the directory holds at that moment. `HistoryInv` adds what a login has found out (`Watched`): whoever has matched
its credentials all along (`steady`) matches now, so that the SELECT finds him, unless it fails (`failed`); and from the SELECT on
either the hash that was read verifies, and its row has matched, or nobody was steady.

For every number of instances, addresses, rows and crashes, from `MigrationsAssumption`:

* `MigrationsTypeCorrect`: `Spec => []TypeOK` of `Migrations`.
* `ServesIndexed`: an instance serves only on an indexed table.
* `ServingKeeps`: while one serves, no step removes a user.
* `EldestStays`: whoever is removed leaves an elder user of his address behind.

The invariant `MigrationsInv` relates an instance's run to the database (`RunOK`): what its copy of the ledger
calls applied was done for good, at each statement what the statements before it have done, and that a run in progress has the lock. What
the ledger calls applied is true of the index at any time; that a row stays there is not, and is
not needed: `Delete` takes it away without the lock, and the index remains. `ServingKeeps` follows from the index: of unique rows
the deduplication keeps all (`EldestOfUnique`). `EldestStays` needs a least id among the rows of one
address, which is the well-foundedness of the natural numbers.

For any number of walks, users and sizes of a page, from `PagesAssumption`:

* `PagesTyped`: `Spec => []TypeOK` of `UserPages`.
* `PagesRepeatLate`, `PagesMissRemovals`, `PagesAgreeWithTotal`: the properties of section 3.

The argument is about `Rank`, a row's place in ORDER BY id. A row that comes to light raises the ranks of the rows with later
ids by one and leaves the others, a removal lowers them by one at most. A walk that stands at place k has what it has
seen at ranks up to k, but for the rows that a late registration has pushed behind k, one each at most, because ranks are injective: those
(`Ahead`) and the repeats so far are together no more than `late` (`Repeated`), and a repeat on the next page uses one up. Without late
registrations nothing is repeated. The other way round (`Covered`), the rows up to k that it has not seen are counted: a removal lets at most the one row at
k + 1 slip across, because ranks are injective, so there are no more than removals. `RowsCount`, which needs
that ranks are onto, says how long a page is, and with that how it relates to a total.

For any number of requests, secrets, calls, trusted lists and set-ups, from `ClientAssumption` and
`GatewayAssumption`:

* `SessionsEarned`: the property `SessionsAreEarned`, from the invariant `SessionsInv`.
* `GatewayInvariant`: `Spec => []GatewayInv`, and from it `GatewayTyped`, `ChargesFollowSource` and `LayersAreRight`: the
  properties `TypeOK`, `KeysFollowSource` and `RightLayers`.

`SessionsInv` says of each token handed out which secret signed it and until when, and that
no request bears one of ours that was not. That a login writes this down in the same step is what makes
`VerifiedIsBorn` true at the gate later, when the secret may have been replaced and set back.

`GatewayInv` adds, for each request, how far it is: what lies ahead is the rest of what `BuildRouter` gives
its route (`RouterLayers` computes it, `Ways` lists the rests), and with it go the address, the key and the user it has by
then. In a server without peer addresses the proxy finds nobody, and the key is that of the header as it was sent. In one with
them, before the proxy nothing is known; behind it the address is the header's only if the peer was
trusted at some moment (`ever`), and it is so if he was at every one (`always`), whatever became of the list
since; behind the limiter the key is that of this address. `None` is taken to be no
user's id and no key, which the two assumptions say.

## 6. Only model-checked

Liveness (`RequestsAreDecided`, `PurgeEnds`, `ViewsEnd`, `EveryRequestEnds`, `OnlyAKeptLockBlocks`) is
out of the proof system's reach. All other properties that the passing runs
check are theorems. The runs of the four disagreements need none: TLC shows the counterexample.

## 7. Not modelled, and what is left

* The pool's queue (`DB_POOL_SIZE`, acquire timeout): it is sqlx's; in `UserService` a statement may fail at any
  moment, a timeout included.
* The cache of `get_config`: it compares itself with the environment on every call, under one mutex,
  and returns what `read_config` returns.
* `SELECT 1` of the health check, process start-up and graceful shutdown: I/O without state of their own.
* CORS headers, the wording of responses, logging, floating-point rounding, NaN and infinities, the k6 scripts and CI.
* The cut-offs of the debug page (200 buckets, 50 shown) and its order: a view reads any number of buckets.

Worth proving next: what carries liveness, as far as it is safety (a measure that every step of a purge or
a start-up lowers), and the limiter's ledger on top of `BucketLocks`.
