# A TLA+ model of the blablacar service

The service is a C++ (userver) HTTP API for shared rides: users and routes in
PostgreSQL, trips and login tokens in MongoDB, a cache and a rate limiter in
Redis, domain events through RabbitMQ.  This directory holds TLA+ modules that
model its request handlers and components, TLC configurations that check them
on small instances, and TLAPS proofs that hold for every value of the
constants.  Paths below are relative to the repository.

- `M.tla` models a component, `MCM.tla` and the `.cfg` files instantiate it for
  TLC, `MProofs.tla` holds its theorems.
- To check: `tlc -config M.cfg MCM`; to prove: `tlapm MProofs.tla`.
- `PROJECT.json` maps every definition to the lines it models, and lists the
  runs, the mutants, the hazards, the findings and the theorems.

## 1. Inventory

One process serves requests as coroutines on a pool of threads.  The service
takes no lock: every handler is a sequence of remote calls, and between two of
them any other handler may run.  All shared state is therefore in the four
stores, and the questions worth asking are about the order in which calls of
several requests arrive there, and about calls that fail half way.

| Component | State | Operations | Talks to |
| --- | --- | --- | --- |
| `RedisCacheComponent` (`src/redis_cache.cpp`) | Redis keys `cache:user:*`, `cache:routes:*`, each with a TTL | `Get`, `Set`, `Invalidate`; every error is logged and looks like a miss or like success | Redis |
| Routes (`CreateRouteHandler`, `GetRoutesHandler`) | table `routes` | POST: INSERT, DEL, publish, answer. GET: cache, SELECT, SET, answer | PostgreSQL, cache, publisher |
| Users (`CreateUserHandler`, `GetUserHandler`, `SearchUsersHandler`) | table `users` | POST: INSERT .. ON CONFLICT DO NOTHING, DEL, publish. GET: cache, SELECT, SET | PostgreSQL, cache, publisher |
| Trips (`CreateTripHandler`, `AddUserToTripHandler`, `GetTripHandler`) | collection `trips` | create: SELECT route, insert document, publish. join: find, `$addToSet`, publish. GET: find | PostgreSQL, MongoDB, publisher |
| `RateLimiterComponent` | Redis counters `rate_limit:*` | `Check`: one Lua script (INCR, EXPIRE, TTL), fail-open | Redis |
| Events (`EventPublisherComponent`, `EventConsumerComponent`) | exchange and durable queue in RabbitMQ | `Publish` with a confirm and a 3 s deadline; `Process` | RabbitMQ |
| Sessions (`LoginUserHandler`, `AuthMiddleware`) | collection `auth_tokens` | login: limiter, SELECT, insert token, answer. middleware: token look-up before POST routes and POST trips | Redis, PostgreSQL, MongoDB |
| `StorageComponent` (`src/storage.cpp`) | maps of users, tokens, routes and trips, each behind a mutex | the operations of the handlers, each in one step | not compiled, not used |

What makes each correct, and what is hard about it:

- **Routes.** A cached list must show rows of its owner only, must not go stale
  unnoticed, and must recover.  Hard: a reader that overlaps a writer, a DEL that
  is lost, a SELECT that fails, an INSERT whose client has given up.
- **Users.** One registration of a login wins; the cache equals the row; whoever
  was told "ok" is found.  Hard: the same overlaps; here they must be harmless,
  because rows never change and absence is never cached.
- **Trips.** Nobody joins twice; one event per join; events and answers are true;
  a join without an event has a cause; what a client knows to exist is found.
  Hard: `JoinTrip` looks first and adds later; a write may take effect after its
  handler has answered 500; an error of a look-up is a 404.
- **Sessions.** A request is let through under the login whose password drew its
  token, for 24 hours at most, and for all of them once the token is known to be
  stored.  (The middleware puts that login in the request's context; no handler
  reads it yet.)  Hard:
  `expires_at` and the bound of a look-up are read from the clock before the call
  that uses them; the insert of a token may fail or come late and its client is
  handed the token all the same.
- **In-memory storage.** What the service was before it had databases: each call
  atomic, nothing late or lost.  It is the promise against which users, trips and
  sessions are measured.
- **Rate limiter.** The counter has no race, always expires, and bounds what is
  let through.  Hard: scripts that outlive their caller, the boundary between two
  windows, TTL rounding.
- **Events.** What the broker confirmed is kept and consumed; duplicates come
  from faults only; a message that cannot be read does not circulate.  Hard:
  acknowledgements lost, crashes of either process at any point, a `Process` that
  runs on when the connection its message came by is gone.

## 2. Modules

| Module | Models | Composes |
| --- | --- | --- |
| `RedisCache` | the cache as a map with `Miss` | |
| `RouteCatalog` | POST and GET `/v1/routes` | an instance of `RedisCache` |
| `RouteContract` | abstract: what `/v1/routes` promises | implemented by `RouteCatalog` |
| `UserDirectory` | POST and GET `/v1/users` | an instance of `RedisCache` |
| `RateLimiter` | `Check` and the Lua script | |
| `EventBus` | publisher, broker, consumer | |
| `EventDelivery` | abstract: delivery at least once, from the confirm on | implemented by `EventBus` |
| `UserStorage` | abstract: the map `users_` of `StorageComponent` | implemented by `UserDirectory` |
| `Sessions` | POST `/v1/login` past its limiter, `AuthMiddleware`, `auth_tokens` | |
| `SessionStorage` | abstract: the maps `users_` and `tokens_` | implemented by `Sessions` |
| `Trips` | POST `/v1/trips`, POST `/v1/trips/add-user`, GET `/v1/trips` | |
| `TripStorage` | abstract: the map `trips_` | implemented by `Trips` |
| `RoutePoints` | `SplitRoutePoints` |

### Conventions

- A *slot* is one request in flight.  `pc[s]` names the remote call it makes
  next, and each call is one action; a handler that ends frees its slot
  (`Finish`).  Requests refused before their first remote call (400, 401)
  change nothing and have no action.
- Every call has an action for its error (`LookupFails`, `FillLost`,
  `InvalidateLost`, `PublishFails`, ...), which does what the `catch` in the code
  does.  For a write the outcome is in doubt: the slot stays as *late* after its
  client has its answer, and the write may still take effect (`LateCommit`,
  `LateInsert`, `LateUpdate`, `LateEval`) or not.
- `Crash` ends every handler at once.  Writes that were already sent may go late;
  the four stores are other processes and survive.
- `faults` counts errors and crashes; `MaxFaults` bounds them.  That is the only
  bound on failures.  Other bounds: the number of slots, of ids that can be drawn
  (`RouteIds`, `TripIds`, `Tokens`), of messages, and the end of the clock of
  `Sessions` (`MaxTime`).  Requests themselves are not bounded; a
  slot serves one after another without end.
- History variables (`deleted`, `doubtful`, `suspect`, `wins`, `mustFind`,
  `live`, `since`, `recent`, `processed`, `told`, `silent`, `known`, `issued`,
  `sure`, `mustPass`; `origin`, `cuts` in `RoutePoints`) record what
  the properties speak of; no guard of an action that models code reads one, but for
  the broker's confirm in `EventBus`, which a message already consumed cannot lack,
  and `StartLogin`, which takes an id that was not drawn before from `issued`.
- The abstract modules have *callers* and, for each, the `reply` it holds.  A caller
  may lose its reply at any moment (a crash, a timeout).  A reply appears in a
  step at which the map justifies it, so the refinement says more than that
  the map is right: each answer that grants or shows something is right at one
  moment between its request and itself.  Refusals (404, 401) have no reply there;
  `CreatedIsFound`, `KnownIsFound` and `GoodTokenPasses` are about them.

### Correspondence

`RouteCatalog`: `table` is the owner of each row of `routes`, `cache[o]` the list
under `cache:routes:` + o, as the set of its row ids (order and texts play no
part).  `StartGet`, `Lookup*`, `Query*`, `Fill*` are `GetRoutesHandler`;
`StartPost`, `Insert*`, `Late*`, `Invalidate*`, `Publish*`, `Respond` are
`CreateRouteHandler`.  `GetRoutesByUser` turns an error into an empty list, and the
handler caches that list: `QueryFails`.

`UserDirectory`: `users` is the profile in each row; `Invalid` are the profiles that
the CHECK constraints refuse.  `AddUser` returns false for a taken login and for
every error, and the handler says 409 to both: `InsertRefused`, `InsertTimeout`.

`RateLimiter`: `count` and `ttl` are the key in Redis; `Script` is the Lua script, one
atomic step; `Tick` is a second.  `ReportedTtl` rounds as Redis does.  `EvalFails`
is the fail-open path.  The history `recent[c]` is how long ago each of the last
`2 * Limit` requests was let through; one that old or older is at `Window`.

`EventBus`: a message is one call of `Publish`, or a malformed message from another
client of the exchange.  `Confirmed` needs the message on the broker's disk
(a persistent message on a durable queue) or consumed.  `Ack` is userver's consumer
base class, which acknowledges when `Process` has returned.  The queue is a set,
because up to `prefetch_count` messages are in `Process` at once and redelivery
reorders them.  `Process` is a coroutine of the service: `Disconnect` and
`BrokerRestart` end the deliveries and leave their runs of `Process` behind, counted
by `orphans`; `LateProcess` logs for one of them, whatever has become of the message
by then, and only `Crash` ends them.

`Trips`: `route` and `participants` are two fields of each document; `asked` holds the
route id of a create.  `FindNobody` and `UpdateModifies`/`UpdateMatches`/`TripNotFound`
are the two calls of `JoinTrip`; the three update actions are the values of
`MatchedCount` and `ModifiedCount`.  `View*` are the `FindOne` of `GetTripById`, whose
error is a 404.  A join holds its reply of `TripStorage` in `publishJoined` and `ok`.

`Sessions`: `docs` is `auth_tokens`; `wire` are documents whose insert has failed for the
handler, or whose handler has died, and which may still be stored.  `clock[s]` is the
time that the handler has read: the `expires_at` of the document it is about to
insert, or the `$gt` of its look-up.  `serve` stands for the handler behind the middleware.
Nothing in the service deletes a document; an index that removed expired ones would
change no answer, because the filter of the look-up refuses them anyway.

`RoutePoints`: a text is a sequence of characters: letters, white space, and the dash,
`>`, comma, semicolon and bar that the code knows.  `Replace` and `NextDelimiter` are the
iterations of the loop over the delimiters, `Push` and `Skip` those of the loop over the
tokens, with `TrimCopy`; `Store` is the padding and the return.  `text`, `pos` and
`points` are the locals `normalized`, `pos` or `start`, and `points`.

### Trusted

PostgreSQL, MongoDB, Redis, RabbitMQ and userver are modelled by how the code uses
them: an INSERT and an UpdateOne are atomic, a Lua script is atomic, SET with a
TTL replaces, a unique key admits one row, a confirmed persistent message is on
disk.  The conversions between uuid and text in the PostgreSQL calls are taken
to work as the tests expect.

## 3. Runs

| Run | Instance | Shows |
| --- | --- | --- |
| `RouteCatalog` | 3 slots, 2 owners, 2 routes, 1 fault | `NoForeignRoutes`, `EventsAreFacts`, `StaleExplained`, and that the handlers implement `RouteContract` |
| `RouteCatalogLive` | 3 slots, 1 owner, 2 routes, 1 fault | `Converges`: the TTL repairs every stale list once rows stop appearing |
| `RouteCatalogReadYourWrites` (violation) | 2 slots, no fault | finding 1 |
| `RouteCatalogAckedIsPublished` (violation) | 2 slots, 1 fault | finding 2 |
| `UserDirectory` | 3 slots, 2 logins, 3 profiles, 1 fault | `CachedProfileIsRow`, `OneWinner`, `CreatedIsFound`, and that the handlers implement `UserStorage` |
| `UserDirectoryConflict` (violation) | 2 slots, no fault | finding 4 |
| `RateLimiter` | 1 client, 3 requests, limit 2, window 3, 1 fault | `KeyAlwaysExpires`, `RefusalEnds`, `NumberedOnce`, `SlidingBound`, `NoLockout` |
| `RateLimiterPerMinute` (violation) | 1 client, 2 requests, no fault | finding 3 |
| `EventBus` | 2 events and a malformed message, prefetch 2, 2 faults | `ConfirmedIsKept`, `DuplicatesNeedFaults`, `ConfirmedIsConsumed`, `MalformedIsDropped`, and that the bus implements `EventDelivery` |
| `Trips` | 2 slots, 2 trips, 2 logins, 2 faults | `NobodyTwice`, `OneJoinEvent`, `EventsAreFacts`, `ToldIsJoined`, `JoinIsAnnounced`, `KnownIsFound`, and that the handlers implement `TripStorage` |
| `Sessions` | 2 slots, 2 logins, 2 passwords, 2 tokens, a life of 2 ticks, 4 ticks, 1 fault | `OnlyVerified`, `ExpiresInTime`, `GoodTokenPasses`, and that logins and requests implement `SessionStorage` |
| `RoutePoints` | every text of up to 5 of 8 characters | `TwoPoints`, `PointsAreStretches`, `SplitReturns` |

**Why the bounds are enough.**  Slots: the races of the cache need a reader and a
writer, a third slot adds a second reader or writer; joins need two requests on
one trip.  Owners, logins: two, so that a mix-up shows; one in the liveness run
because the lists of two owners do not influence each other.  Faults: one fault
already reaches every `catch` at every point of every interleaving; the trips and
the bus take two, so that a late write meets a second error, a redelivered
message is redelivered again, and two runs of `Process` outlive their deliveries of
one message (`orphans` needs no bound of its own: each costs a fault).  Limit 2 and window 3 are the least for which a
window has a middle and two windows meet inside one.  A life of two ticks has a middle, and a
clock of four outlives a token that was drawn at one and stored later.  Three
messages and room for two make one wait.  In five characters two arrows meet, or a delimiter stands
at the start, at the end and twice in a row.  The theorems of section 4
hold without these bounds.

**Fairness.**  `RouteCatalogLive`: every remote call has a timeout, so a handler
that runs ends (`WF` of `Serve` for each slot); every entry is written with a
TTL (`WF` of `Expire`).  `RateLimiter`: time passes (`WF` of `Tick`), nothing is
asked of the clients, so `NoLockout` holds for one that never stops asking.
`EventBus`: `Process` ends and is acknowledged (`WF` of `Consumer`); the broker
passes no message over for ever while there is room (`SF` of `Deliver`, because
room comes and goes).  Nothing is asked of the publisher or the network, nor of
`LateProcess`: a `Process` that has lost its delivery need not have begun.
`RoutePoints`: a function that has been called runs on (`WF` of `Next` until it has
returned).

**Deadlock** is checked everywhere but in `EventBus` (all published and consumed)
and `RoutePoints` (one trip per behaviour), which stop by design.

**Mutants.**  Each property of a passing run has a mutant in `PROJECT.json`: a plausible
bug, defined beside the definition it replaces under a comment that begins
`Mutant:`, with which TLC finds the property violated on the same instance.

## 4. Proofs

All proofs are checked by `tlapm` to the last leaf.  They assume the named
ASSUMEs of the modules only: the distinguished values differ from the ordinary
ones (`NoneAssumption`, `MissAssumption`, `UnknownAssumption`), the numbers are
numbers, `Malformed` is a set of messages, `Invalid` one of profiles, white space
has the blank and no delimiter (`BlanksAssumption`).  Sets may be infinite, and
`MaxFaults` is any number.

Each module ends in `IInv`, the inductive invariant, a conjunction of the
properties and of the parts that make it inductive; that of `RoutePoints` is in
`RoutePointsProofs`.

- `RouteCatalogProofs`: `TypeCorrect`, `NoForeignRoutesHolds`,
  `EventsAreFactsHolds`, `StaleExplainedHolds`, `Refinement`.  `StaleExplained`
  speaks of the cache; what keeps it is `ReaderExplained`, the same of the list in
  the hands of a reader about to write it: a SELECT after the DEL has the row, and
  a DEL during the read makes the reader doubtful.  `InHand` says that a POST past
  its INSERT holds a row of its owner.  `Refinement` shows that every step is a
  step of `RouteContract` or a stutter.
- `UserDirectoryProofs`: `TypeCorrect`, `CachedProfileIsRowHolds`, `OneWinnerHolds`,
  `CreatedIsFoundHolds`, `Refinement`.  `FoundIsRow` and `SoleWriter`: whoever got past the INSERT
  wrote the row, and nobody else will.  `FinderHasRow`: the row is there while
  a reader that must find it runs.
- `RateLimiterProofs`: `TypeCorrect`, `KeyAlwaysExpiresHolds`, `RefusalEndsHolds`,
  `NumberedOnceHolds`, `SlidingBoundHolds`.  `LiveHasKey` and `LiveNumbers` tie each answer that still
  counts to the key that numbered it; two live answers with one number would
  need the counter to repeat, and it only grows while its key lives.
  `SlidingBound` says that the `2 * Limit`-th last request let through is `Window` ticks
  old, which counts without a sum.  The history is in order (`InOrder`); the window
  under way has let `InWindow(c)` through, at most `Limit`, and the first of them is as
  old as its key (`OpenerIsOldest`), so that when the key expires one of the last
  `Limit` is `Window` ticks old, and at most `Limit - 1` younger ones are from windows
  that are over (`EarlierWindows`).
- `EventBusProofs`: `TypeCorrect`, `ConfirmedIsKeptHolds`, `DuplicatesNeedFaultsHolds`,
  `Refinement`.  `DiskIsQueued` and `FinishedAreLogged` carry the first; `OneCopy` and
  `DeliveriesNeedFaults` (a message to be processed again has had a fault for each
  time before, be it logged or in a run left behind) the second.  In the refinement
  `Runs`, the runs of `Process` of each message with an event still to log, are what
  `EventDelivery` has begun: a delivery begins one, a log uses one up, and a lost
  connection leaves their number as it is (`RunsCounted`).  An `Ack` and a broker
  restart are the steps that drop messages, and neither drops one that was confirmed
  and not logged.
- `TripsProofs`: `TypeCorrect`, `NobodyTwiceHolds`, `OneJoinEventHolds`,
  `EventsAreFactsHolds`, `ToldIsJoinedHolds`, `JoinIsAnnouncedHolds`,
  `KnownIsFoundHolds`, `Refinement`.  `SolePublisher`
  is the heart: the request whose update modified the document is the only one
  that holds that pair in `publishJoined`, and no event of it is out.
  `FreshIds` keeps a late insert from emptying a document that others have joined.
  `FindersHaveTrip`: a document, once there, stays.  In the refinement a join takes
  effect at `FindParticipant`, `UpdateMatches` or `UpdateModifies`, and an update that
  comes late takes effect with nobody told.
- `SessionsProofs`: `TypeCorrect`, `OnlyVerifiedHolds`, `ExpiresInTimeHolds`,
  `GoodTokenPassesHolds`, `Refinement`.  `DocumentsAreIssued` says that every document,
  stored or on its way, carries the login and the time of its token's password check;
  `OwnToken` that a token is drawn for one login only, so that `OneDocument` holds;
  `IssuedIsRow` that the row checked is still the row.  In the refinement the map's
  `LoginUser` is the moment the document is stored, in time or late.

- `RoutePointsProofs`: `TypeCorrect`, `TwoPointsHolds`, `PointsAreStretchesHolds`,
  `NotStuckHolds`, `MovesOnHolds`, for texts of every length.  What a
  loop computes for every input would be induction over data, which the installed
  provers cannot instantiate; here each iteration is a step, and what it computes an
  invariant.  In the first loop `text` stays in step with `raw` by `origin`: it is in order
  (`Ordered`), has changed at delimiters only (`Kept`), has lost nothing else (`Covered`,
  `Contiguous`), and is free of what was searched so far (`Replaced`; a bar put in
  neither completes an arrow nor makes another delimiter).  So its bars are where `raw`
  has separators (`BarsSeparate`).  In the second, `cuts` are the stretches in front of
  `pos`, all of them, in order (`AtToken`, `CutsInOrder`): a token that shows something
  has one stretch in it (`TokenIsStretch`, `OneStretch`).  Stretches can be listed in order in
  one way only (`OneList`: each stands where the number of those in front of it says), so
  the cuts are the list that `PointsAreStretches` asks for.  `NotStuck` and `MovesOn` are the
  safety behind `SplitReturns`: a loop always has a next step, and each brings it nearer
  to its end.

**Model-checked only.**  Liveness (`Converges`, `NoLockout`, `ConfirmedIsConsumed`,
`MalformedIsDropped`, `SplitReturns`) and anything with ENABLED is out of this prover's
reach.  Every other property of the passing runs is a theorem.  The violation runs
are counterexamples and have nothing to prove.

## 5. Findings

1. `RouteCatalogReadYourWrites`: `src/handlers/api_handlers.cpp:250-251` says that the
   key is invalidated so that GET returns the current list.  A reader whose SELECT
   came before the INSERT may SET after the DEL; GET then answers without the
   new route for up to 180 s, and no call has failed.
2. `RouteCatalogAckedIsPublished`: `event_catalog.md:19` promises at-least-once for
   all events.  `Publish` swallows an error and the request is answered 200; nothing
   tries again.  From the confirm on the promise holds (`ConfirmedIsKept`).
3. `RateLimiterPerMinute`: `performance_design.md:284` says 10 attempts a minute.
   The end of one fixed window and the start of the next together let up to 19
   through in 60 s; `SlidingBound` shows that it is never more (fail-open apart).
4. `UserDirectoryConflict`: `openapi.yaml:153-154` says that 409 means that the user
   exists.  `AddUser` returns false for every error, so a password of under eight
   characters, or a lost connection, is a 409 too.  `tests/test_api.py:114` and `:133`
   register users with the password `p`.

## 6. Not modelled

- `SearchUsersByName`: one read of one snapshot that changes nothing.
- `StorageComponent` (in-memory) as a program: not in `CMakeLists.txt`, no handler uses it.
  Its operations on users, tokens and trips are the abstract modules, which
  have no runs of their own; its `SearchUsersByName` and `GetTrip` are left out.
- The composition of the handlers with `EventBus`.  They meet in one point only:
  a publish of a handler is a `Send` of the bus, and an error of it a `GiveUp`.  The
  properties of both sides are stated there (an event names a fact when it is
  accepted; an accepted event is kept and consumed), and the bus reads nothing but
  a message's identity, so the product of the state spaces would add no step that
  neither side has.
- The product of `Sessions` with the handlers it guards: they take the owner and the
  participant from the body of the request, not from the login in its context.
- A document of `trips` that the service did not write: `ParseMongoTripDocument` refuses one
  without `distance_km`, which `validation.js` calls optional, and puts a text together
  for one without `raw_points`, which neither the service nor the validator lets in.
- `StoragePgComponent::AddTrip`, `AddUserToTrip`, `GetTrip`: no handler calls them since
  trips moved to MongoDB.
- `main.cpp`, the configuration, Docker and database scripts: registration and data;
  what of them decides a step (keys, CHECKs, the validator's `minItems`,
  `prefetch_count`) is in the modules.
- Wording, JSON, headers other than the rate limit's, logging.
- A restart of Redis is the expiry of every key, one after another.  Restarts of
  PostgreSQL and MongoDB are failed calls: what they have committed is durable.

## 7. Plan

Done: the modules of section 2 and the theorems of section 4.

What could come next, in this order:

1. One handler composed with `EventBus`, so that `EventsAreFacts` reaches what the
   consumer logs, should the consumer come to read more than an event's identity.
2. The safety behind the other liveness properties, as `NotStuck` and `MovesOn` are for
   `SplitReturns`: that a counter's expiry only falls, and what each redelivery uses up.
