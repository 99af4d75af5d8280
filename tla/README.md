# A TLA+ development of the ride-hailing backend

This directory models the backend under `src/backend/app` in TLA+, checks the
models with TLC on small instances, and proves theorems about them with TLAPS.
Paths below are relative to `src/backend/app` unless they start with
`frontend/`.

## 1. The system

One uvicorn process (`backend/Dockerfile`) runs a FastAPI application. Every HTTP
request is a coroutine with a database session of its own (`api/deps.py:get_db`,
`db/session.py:get_session`): the handler reads committed rows, assigns columns,
flushes, talks to Redis and to the WebSocket rooms, and the session commits when
the handler returns and rolls back when it raises. PostgreSQL runs at its
default level, READ COMMITTED; no query asks for `FOR UPDATE` and no row has a
version. Handlers interleave at every `await`.

| Component | State it keeps | Operations | Talks to |
|---|---|---|---|
| Ride lifecycle (`services/ride_service.py`) | `rides` rows | request, match, start, complete, cancel, reads | drivers rows, Redis, Kafka, rooms, pricing |
| Driver availability (`services/driver_service.py`) | `drivers` rows | create profile, online/offline, location | Redis |
| Redis cache (`core/redis.py`) | `drivers:zone:*` sets, `driver:loc:*`, surge keys | add, remove, get, set with TTL; best effort | Redis |
| Sessions (`db/session.py`, `api/deps.py`) | one transaction per request | begin, flush, commit, roll back | PostgreSQL |
| Kafka publisher (`core/kafka.py`) | a producer | publish, best effort | Kafka |
| WebSocket rooms (`core/websocket_manager.py`, `api/v1/routes/websocket.py`) | sockets per ride | connect, snapshot, broadcast, prune, disconnect | rides rows, clients |
| Auth (`services/auth_service.py`, `core/security.py`) | `refresh_tokens` rows | login, rotate, logout | users rows |
| Accounts (`services/auth_service.py`, `driver_service.py`, `repositories/user_repository.py`) | `users` rows, the profiles among `drivers` | register, create profile, change details | unique indexes |
| Lifespan (`main.py`) | the Redis client, the Kafka producer, the engine | open, serve, close | Redis, Kafka |
| Pricing (`services/pricing_service.py`) | surge cache in Redis | cache-aside lookup, fare | Redis, surge API |
| Geography (`core/geo.py`) | none | geohash, neighbours, distance | – |
| Frontend clients (`frontend/src/lib`, `hooks`, `context`) | token pair, live ride | retry on 401, reconnecting socket | all endpoints |

What makes it hard: a handler decides on rows it read earlier, and another
handler may have committed since; broadcasts and Redis writes precede the commit
that may never come; two rows are locked per transaction; an UPDATE sets the
columns that differ from what was read; a row may be inserted between the look
for it and the insert; Redis, Kafka and the surge API may fail at any call;
clients retry and reconnect; the process restarts, and Redis does not.

What makes each component correct:

* rides: only the transitions of `_ALLOWED_TRANSITIONS`; a driver serves one ride
  and is `on_trip` exactly while doing so; a ride under way names its driver;
* availability: a driver on a trip is not made available; the zone sets are the
  online drivers of each zone; the copies of a position agree; a near driver is
  not hidden by a zone border;
* sessions: no deadlock between handlers, every request ends;
* events: none for a ride that did not persist;
* rooms: what subscribers were told last is what was committed;
* tokens: a refresh token is used once, a client with a valid pair stays logged in;
* accounts: one per e-mail, one profile per driver, an answer that is true;
* pricing: a multiplier is never older than its time to live, a failing engine
  gives 1.0 and is asked again;
* lifespan: a Redis or Kafka that is down does not keep the process from serving;
* geography: neighbours are the eight adjacent cells.

## 2. Modules

| Module | What it is |
|---|---|
| `RideLifecycle` | Abstract: every lifecycle call takes effect in one step. Four columns: `rider`, `rideDriver`, `rideStatus`, `driverStatus`. |
| `RideService` | Detailed: the same calls, and the driver's, as interleaved transactions. Extends `RideLifecycle`. |
| `MCRideService` | Instances for TLC: symmetry, and the state in which all drivers are online. |
| `RideRoom` | The room of one ride: announcements, sockets, endpoints, pages. |
| `MCRideRoom` | The instance in which the ride is matched. |
| `TokenSessions` | Abstract: every token call takes effect in one step. `owner`, `revoked`, `parent`. |
| `RefreshTokens` | Detailed: `login`, `rotate_refresh_token`, `logout` as interleaved transactions. Extends `TokenSessions`. |
| `TokenClient` | The browser's calls and storage over `RefreshTokens`. |
| `MCTokenClient` | The instance in which a user is signed in. |
| `AppLifespan` | A process: what `lifespan` opens and closes, and what of it fails. |
| `SurgeQuotes` | Abstract: a multiplier quoted was in force lately, or is the default. |
| `SurgeCache` | Detailed: the cache-aside lookups of several requests, in a process. Extends `AppLifespan`. |
| `Geohash` | `_adjacent` and `geohash_neighbors`, walked over the grid of the cells of one length. |
| `DriverLocation` | The columns of a position and its copies in Redis under overlapping reports, and the nearest-driver search. |
| `MCDriverLocation` | The instance: positions in a zone, across its border and beyond the neighbours. |
| `AccountRegistry` | Abstract: accounts and profiles, one step each. |
| `Accounts` | Detailed: registration, profiles and details as overlapping transactions. |
| `MCAccounts` | The instance: an e-mail asked for in both roles, changes of one column and of two. |
| `RideServiceProofs` | The abstract lifecycle; the inductive invariant of the service, its safety theorems, refinement. |
| `RideUpdateProofs` | Row locks; broadcasts in commit order; the zone sets. Extends `RideServiceProofs`. |
| `RideRoomProofs` | Pages stay in step. |
| `TokenProofs` | Tokens: the abstract sessions, the transactions, the client. |
| `GeohashProofs` | Recursion on the natural numbers; `_adjacent` against the grid, for every length. |
| `SurgeCacheProofs`, `DriverLocationProofs`, `AccountsProofs` | Invariants, refinements and action properties of those modules; the nearest driver. |

### RideService and the code

`req[s]` is the handler running in slot `s`: the call, the rows as it read them,
and the set `todo` of steps it has still to take, which it takes in the order of
`Rank`:

    search | load -> lockDriver -> lockRide -> leave -> enter -> broadcast -> commit -> publish

| Action | Code |
|---|---|
| `RequestRide` | `request_ride` up to the surge lookup: the active-ride check and the fresh key |
| `MatchRide`, `FindDriver`, `FindNobody` | `match_ride`, `find_nearest_available_driver` (both queries), `NoAvailableDriverError` |
| `StartTrip`, `CompleteTrip`, `CancelRide`, `LoadDriver` | the methods of those names and `_require_assigned_driver` |
| `GoOnline`, `GoOffline`, `UpdateLocation` | `DriverService.set_status`, `update_location` |
| `LockDriver`, `LockRide` | the flush that emits the UPDATEs and waits for their row locks |
| `LeaveZone`, `EnterZone` | `mark_unavailable`, `mark_available` |
| `Broadcast` | `_broadcast` to the ride's room |
| `Commit` | the commit of `get_session`, or `request_ride`'s own |
| `Publish` | `publish_ride_request` |
| `Abort` | an exception, a lost connection or a crash before the commit: rollback |

A guard that raises in the code (a wrong status, a missing driver, no location)
is a conjunct of the action: a call refused at its first read changes nothing.

Decisions taken in the model:

* **An UPDATE has the changed columns only.** SQLAlchemy emits the columns whose
  value differs from what was loaded. `WritesDriverStatus`, `WritesZone` and
  `WritesRideDriver` say when a column is in it. A location report always assigns
  a new point, so it always updates (and locks) the row.
* **One flush emits `drivers` before `rides`.** No `relationship` connects the two
  classes, so SQLAlchemy runs the unit of work's actions in the order of their
  mappers' names, `app.models.driver.Driver` before `app.models.ride.Ride`.
  Sessions do not autoflush; `assign_driver`, `complete_trip` and `cancel_ride`
  assign the ride's columns first and flush in `drivers.set_status`, so both rows
  go out in that flush.
* **Locks last to the end of the transaction** (`HoldsDriver`, `HoldsRide`). They
  are PostgreSQL's, not the repository's, and are the only external definitions.
* **The nearest driver is any online driver with a location.** Coordinates are
  abstracted to zones; which of the drivers in radius is nearest, and whether
  anyone is in radius, is left open here; `DriverLocation` has it.
* **Faults.** With `Faults` TRUE a request may be rolled back at any step before
  its commit and any Redis call may be lost. A Kafka event may always be lost.
* **Left out:** who may make a call beyond the role it plays (any user may be the
  rider of a ride, its driver starts and completes it), fares, timestamps and
  cancellation reasons; the `driver:loc` hash is in `DriverLocation`.

### RideRoom and the code

| State | Code |
|---|---|
| `ride`, `change` | the committed row; the change whose handler is between flush and commit |
| `room`, `audience`, `dead` | `_rooms[ride_id]`; the `list(...)` copy `broadcast` iterates over, without those served; its `dead` |
| `endpoint` | how far `ride_updates` is for each socket, and the snapshot `_authorize` took |
| `line`, `page` | messages on their way; the socket and the ride `useRideStatus` holds |

`Announce` and `Commit` are the handler, `Send` one turn of the loop of
`broadcast` (the last one prunes), `Join`, `SendSnapshot`, `Disconnect` the
endpoint, `Connect`, `Receive`, `Drop` the hooks.

* One broadcast is under way at a time, because the handler holds the lock of the
  row it has updated. What handlers do on stale reads is `RideService`'s subject;
  here their reads are current.
* A send to a page that has gone may fail or be lost; once its endpoint has ended
  it fails. `Break` is the endpoint that fails before its receive loop, where the
  code has no handler, so the socket stays in the room.
* Only the participants a ride names may watch it: a driver's page connects once
  the ride names a driver. A refused attempt is repeated by the hook and changes
  nothing.
* A connection is used once. `Drop` leaves a connection for every page that is
  away (a bound, as is `Backlog`, the messages a page has not received when
  another change begins).

### RefreshTokens, TokenClient and the code

`job[s]` is the request in slot `s`: the user and token it found, whether the
token's row was revoked when it was read (`dead`), the token it will issue, and
what it has left to do: `revoke` (the flush that waits for the row lock), `check`
(the user is read and must be active), `commit`. `call[s]` is the browser's call
that the request serves, and what it waits for.

* The commit precedes the answer: FastAPI runs the session's exit before the
  response is sent, so a browser may know only of committed tokens.
* An access token is named by the refresh token it was issued with, and expires
  first (15 minutes against 7 days, `core/config.py`): `Lapse` before `Expire`.
* `apiFetch` sends, and on 401 calls `tryRefresh` with the token stored by then,
  stores the new pair and sends again once. `tryRefresh` clears the pair when the
  answer is not ok and lets exceptions of `fetch` through.
* `AuthContext.logout` clears whatever the answer. `AuthContext.login` does
  not ask whether a pair is stored, and is followed by a fetch of the user.
* The first effect of `AuthContext` fetches the user of a stored pair and clears
  the pair whatever that fetch throws. `Fetch(s, TRUE)` is that call; where
  another call ends in an exception (`Throws`), it is `rejected`, and
  `ClearOnStart` is the catch. Loading the page again starts another one.
* Nothing in the repository clears `is_active`; `Deactivate` is an operator's act
  and external.
* `Supply` is a bound: a call starts only if there are tokens enough left for it
  and for those under way.

### SurgeCache, AppLifespan and the code

| Action | Code |
|---|---|
| `OpenRedis`, `OpenKafka` | `redis.start` (the client is kept before the ping), `kafka.start` (the producer is kept only once connected), both with their failures passed over by `lifespan` |
| `CloseRedis`, `CloseKafka`, `Dispose` | the other half of `lifespan` |
| `Restart` | a new process, after a shutdown or a kill |
| `Ask`, `Hit`, `Miss` | `get_surge_multiplier` up to the answer of `get_surge`, which is `None` for a key that is not there and for a Redis that fails |
| `Fetched`, `FetchFails` | `_fetch_from_api` |
| `Store` | `set_surge` with the configured time to live; it may be lost |
| `Reprice`, `Tick` | the engine's multipliers and the time |

* One zone, because keys of different zones never meet. A multiplier is told apart
  from the default even where the engine answers 1.0, so that what is cached can
  be told from a fallback.
* Time is counted in ticks. Redis drops a key after `TTL` of them. `Delay` bounds
  the ticks from the engine's answer to the end of the `SETEX`: without some bound a
  lookup could store an answer of any age. The code has none of its own; that a
  handler, once answered, is resumed and its Redis call ends is the event loop's and
  the network's.
* A lookup that waits for the engine learns the rate in force when it is answered.
  Answers of two lookups may be stored in the opposite order.
* The requests of a killed process are gone; the key stays in Redis.

### Geohash and the code

A geohash is a sequence of digits 0 to 31, the places of its characters in
`_BASE32`. `Neighbor` and `Border` are the tables with their shared strings written
once, `adjacent` is `_adjacent` as a recursive function of the geohash, then of the
direction, and `Neighbors` is `geohash_neighbors`. The reference is the grid of all
cells of one length, `rows` by `cols` of them: `encode` is the interleaving of the
bits of row and column that `pygeohash.encode` does. The variables are a cell and its place; `Walk` takes the cell one step with
`adjacent` and the place with arithmetic. `_adjacent` does not know of the poles:
the cell north of the top row is in the bottom row, so the grid of the model closes
there too. The search for drivers near a pole would look at the cells around the
other one; on no inhabited place of the earth does it matter.

### DriverLocation and the code

| State | Code |
|---|---|
| `row` | `location`, `current_lat`, `current_lng`, `geohash_zone` |
| `locHash`, `zoneSet` | `driver:loc:{id}` and `drivers:zone:{zone}` in Redis |
| `job` | a report under way: the row it read, the position, the steps left |
| `trust` | history: whether the last report that touched Redis was alone and lost nothing |

| Action | Code |
|---|---|
| `Report` | `update_location` up to `set_location` |
| `Update` | the flush in `set_location`, which waits for the row lock |
| `UpsertHash`, `MarkUnavailable`, `MarkAvailable`, `Lose` | `upsert_location`, `mark_unavailable`, `mark_available`, and any of them lost |
| `Commit`, `Abort` | the end of `get_session` |
| `Match` (an operator) | `match_ride`'s two calls of `find_nearest_available_driver` |

* A position is a pair of integers and a zone a square of `CellSize`; distances are
  those of the plane. That the neighbours of a zone are those of the grid is what
  `Geohash` checks.
* The point is a new `WKTElement` each time and so is always in the UPDATE; floats
  and zone are in it where they differ from what the request read.
* `Online` does not change: `RideService` has the calls that change it. Drivers
  who do not report are parked where an earlier report put them.

### Accounts and the code

`task[s]` is a request: what it does, the row it read or will insert, and the
status of its answer. `lost` is history, whether its transaction was made to fail.

| Action | Code |
|---|---|
| `Register`, `CreateProfile`, `UpdateProfile` | the handler up to the flush; a refused one is answered 403 or 409 (`handle_app_error`) |
| `Flush` | the INSERT or UPDATE. It waits for a transaction that holds the key (`Blocked`); a key taken by then is an `IntegrityError`, which no handler turns into a conflict: 500 |
| `Commit`, `Abort` | the two ends of `get_session` |
| `Deliver` | the response |

* The unique indexes (`Clashes`) are those of the migrations, on `users.email` and
  `drivers.user_id`; `Written` is the UPDATE with its changed columns, and a patch
  that changes none takes no lock.
* Ids are fresh UUIDs (`NewUser`, `NewProfile`). Roles never change, no row is
  deleted. Passwords and the vehicle's fields are left out.

## 3. Properties

| Property | Meaning |
|---|---|
| `TypeOK` | types of rows, sets, messages, requests |
| `RideHasDriver` | a matched, running or completed ride names a driver |
| `DriverServesOneRide` | no two active rides name the same driver |
| `DriverStatusFollowsRides` | a driver is `on_trip` exactly while an active ride names them |
| `DriverRideSync` | the three above |
| `OnlyStaleCommitsDepart` | a step is a lifecycle step unless it commits a handler one of whose reads was overtaken |
| `LifecycleSpec` | the abstract specification, as a property of the detailed one |
| `PublishedRidesPersist` | events are about committed rides |
| `ZoneIndexInSync` | between requests the Redis set of a zone is its online drivers |
| `AnnouncedStatusCommitted` | the last status told to a room is the committed one, outside the window between flush and commit |
| `NoWaitCycle` | no handlers wait for each other's row locks in a circle, of any length |
| `EveryRequestEnds` | a request that has been taken up ends |
| `RoomTypeOK` | types of row, room, endpoints, messages, pages |
| `OnlyOvertakenSnapshotsMislead` | a page goes out of step with the last announcement only by an overtaken snapshot or a failed commit |
| `EveryChangeIsTold` | each change is sent to every page that has joined, whatever came and went before, and also if the page was out of step |
| `ReconnectHeals` | a page that connects after the end of the ride comes to show it |
| `ClientTypeOK` | types of token rows, requests, calls, storage |
| `SingleUse` | no token is exchanged for two others |
| `SessionSpec` | the abstract specification of tokens, as a property of the transactions |
| `PredecessorsRevoked` | a token issued by a rotation has a revoked predecessor of the same user |
| `OnlyOverlapsReuse` | the token rows depart from the abstract sessions only by commits of calls whose token was revoked after it was read |
| `SignedOutForCause` | the browser drops a good pair only by a logout, a failing service, a first fetch that was thrown back, or a refused refresh that had presented another token |
| `EveryCallEnds` | a call of the browser ends, whatever expires and however its retry is answered |
| `SurgeTypeOK` | types of process, cache, lookups, quotes |
| `QuotesAreRecent` | the abstract specification of quotes, as a property of the lookups: none is older than the time to live and the delay |
| `FallbackNotCached` | what is cached is an answer of the engine |
| `EveryLookupEnds` | a lookup ends, whatever fails |
| `ServesWithClient` | a process that serves has a Redis client, also when Redis was down at its start |
| `StartsDespiteFailures` | a process that starts comes to serve |
| `WalkFollowsGrid` | wherever `_adjacent` leads, it is the cell of that place |
| `NeighborsSurround` | the eight neighbours are the eight cells around |
| `LocationTypeOK` | types of rows, hashes, sets, reports |
| `NearbyDriverFound` | the zones hide no driver within a zone's side from the pickup, and nobody in the radius is missed altogether |
| `RedisFollows` | a report that is alone and loses nothing leaves Redis right about its driver, whatever went before |
| `OnlyOverlapsDrift` | point, floats and zone drift apart only by the commit of an overtaken report |
| `AccountsTypeOK` | types of tables and requests |
| `RegistrySpec` | the abstract registry, as a property of the transactions |
| `AnswersAreTrue` | 201 is answered of what is committed; a conflict, or a 500 of a transaction that nothing made fail, only where there is a clash |
| `PatchesMerge` | a change of details touches only the columns it names (a phone it does not name stays, also if it read none), a row not changed since is left as asked, and 200 is answered only by such a commit |
| `EveryRequestEnds` (of `Accounts`) | no request waits for ever for another with its key |

`OnlyStaleCommitsDepart` is the central one. The concurrent service does not
implement the atomic lifecycle; the property says exactly how it may fail to:
only by committing on overtaken reads, however long the history of earlier races
and failures. A check at the commit that what was read still holds would therefore be enough.
`OnlyOverlapsReuse`, `OnlyOverlapsDrift` and `OnlyOvertakenSnapshotsMislead` say the
same kind of thing of tokens, positions and pages: what is promised fails, but in
one way only. `RegistrySpec` shows the opposite: the same check-then-write, with a
unique index behind it, keeps its promise.

## 4. Runs

| Run | Instance | Result |
|---|---|---|
| `ride_sequential` | 1 slot, 2 rides, 2 drivers, 2 zones, every call, no faults; from `Init` | passes, 1.07 M states, deadlock checked: the service handled one request at a time implements the lifecycle and keeps the zone sets |
| `ride_concurrent` | 2 slots, 2 rides, 1 driver, ride calls, faults; from all drivers online | passes, 1.08 M states |
| `ride_progress` | 2 slots, 1 ride, 1 driver, every call, no faults, fairness | passes, 59 k states, deadlock checked: no circle of waiting requests, every request ends, rooms hear in commit order |
| `ride_double_booking` | 2 slots, 2 rides, 1 driver | `DriverServesOneRide` fails |
| `room_watch` | 2 pages (a rider's and a driver's), 3 connections, failing commits, `Backlog` 0, fairness; from a matched ride | passes, 499 k states |
| `token_sequential` | 1 slot, 2 users, 4 tokens, faults | passes, 631 k states: one call at a time, the transactions implement the abstract sessions |
| `token_client` | 2 calls, 1 user, 3 tokens, faults, fairness; signed in | passes, 331 k states |
| `token_reuse` | 2 calls, 1 user, 3 tokens | `SingleUse` fails |
| `surge_cache` | 2 slots, 2 multipliers, `TTL` 2, `Delay` 1, restarts, fairness | passes, 24 k states, deadlock checked |
| `geohash_grid` | every cell of one to three digits | passes, 34 k states, deadlock checked |
| `driver_location` | 2 drivers, one of them reporting, 2 slots, 4 positions, `CellSize` 3, `Radius` 9, faults | passes, 502 k states, deadlock checked |
| `accounts` | 2 slots, 2 ids each for users and profiles, 2 e-mails, 3 registrations, 2 patches, faults, fairness | passes, 362 k states, deadlock checked |

**Bounds.** Two slots are enough for every race of the list of hazards, each of
which is between two handlers; two rides make a double booking possible and let a
ride outlive another; two drivers and two zones let a ride change hands and a
driver change sets. There are no counters to cap: a ride goes through its states
once. `ReadyInit` is a state `Init` reaches by one location report and one
`set_status(online)` per driver; it saves those steps where the driver's calls
are not in `Calls`.

Three connections let two pages be in the room together with a socket of an
earlier connection that has not left yet, or was left behind. Three tokens are
the signed-in pair and one for each of two rotations that race; four let a chain
of rotations meet a second login. `MatchedInit` and `SignedInInit` are states the
initial ones reach.

A time to live of two ticks and a delay of one let an answer be overtaken while it
is stored and while it is cached, and age to its last admissible tick. Three digits
let a border be crossed in the digit, in its parent and in the parent's parent, with
odd and even lengths and every entry of the tables; the theorems of `GeohashProofs`
have every length. The four positions are two in one zone that share no coordinate, one
across the border within a zone's side of the second, and one two zones away, within
the radius: between them every column can be in or out of an UPDATE, and the pre-filter
and its fallback both have something to find. Two registrations of one e-mail in
different roles, and another, let requests race for a key and fail, and let a rider
ask for a profile.

**Deadlock.** `ride_concurrent` and the violation runs have no driver calls, and
the service may really come to rest in them: all rides over, or a driver left
`on_trip` by a race so that a remaining ride can be neither matched nor freed.
Deadlock is therefore not checked there; it is in the other two, where a
location report is always possible and a stop could only be a lock cycle. A cycle
among some requests while others go on is no deadlock of the whole: `NoWaitCycle`
forbids it. Rooms
come to rest when the ride is over, and the token runs when the tokens are used
up, so deadlock is not checked there; that no call is left waiting is
`EveryCallEnds`. In the other runs something can always be asked: a lookup or a
restart, a step over the grid, a report, a change of details.

**Fairness.** `FairSpec` gives each slot strong fairness on its steps. The event
loop resumes every coroutine whose await is ready, which is weak fairness; strong
fairness is needed at the row locks alone, and PostgreSQL queues the waiters of a
row lock. No call is assumed to arrive. `FairSignedInSpec` does the same for a
browser's calls, with the locks of token rows. `RoomFairness` is weak: the handler
sends and commits, the endpoints run, the hooks receive and reconnect; a send to a
page that does not read ends because the server's keepalive closes its socket.
Pages are never assumed to stay, nor changes to come. `SurgeCache` has weak fairness
of the start of a process and of each slot: Redis and the engine answer or fail (the
client of the engine has a timeout). That a process is killed while it starts is left
out, since it has done nothing yet; one that serves may be killed again and again.
`Accounts` has weak fairness of commits and answers, and strong fairness of the
flush alone, as PostgreSQL wakes those who wait for a key.

## 5. What the violations show

Each needs two handlers and a read that is overtaken.

* **Double booking** (`services/ride_service.py:199`). Two `match_ride` calls for two
  rides find the same online driver, both pass `driver.status != online`, the second
  waits for the first one's row lock and then writes `on_trip` again. Line 197:
  "requested -> matched. Reserves the driver (status -> on_trip)."
* **Token reuse** (`services/auth_service.py:83`). Two rotations of one token both
  read it as live; the second waits for the row lock and then revokes a revoked
  row. Both issue a pair. `README.md:85`: "a stolen refresh token can only be used
  once".

Other consequences of overtaken reads are within what `OnlyStaleCommitsDepart`,
`OnlyOvertakenSnapshotsMislead`, `SignedOutForCause` and `OnlyOverlapsDrift` allow,
and have no run of their own:

* a cancellation that read a requested ride (`ride_service.py:253`) frees nobody when
  a match has committed since: the driver stays `on_trip`, which neither
  `set_status` nor any ride can undo;
* a cancellation that read a matched ride (line 248) overwrites a trip that has
  started since;
* a socket that joins after a change was broadcast, but read before it, is sent the
  older state (`api/v1/routes/websocket.py:75`) and shows it until the next change,
  which reaches it (`EveryChangeIsTold`). Joining before the read would narrow the
  window and not close it, since a snapshot can be overtaken between its read and its
  send as well;
* of two calls answered 401 that present one stored token, the second is refused and
  clears the pair the first has just stored (`frontend/src/lib/api.js:57`);
* of two reports of one driver that read the same row, the first commits another
  position and the second reports the one both had read: its UPDATE sets the point
  alone (`repositories/driver_repository.py:120`). The point is then of the second
  report, floats and zone are of the first, until the next report.
  `models/driver.py:9` says that they are "always written together ..., so they can't
  drift".

Two docs say more than the code does, without a disagreement a run could show. The
header of `services/ride_service.py` (line 6) also lists
`on_trip -> completed | cancelled`, which the table at line 46 and the tests
(`test_edge_cases.py`) contradict; the model follows the table. `match_ride` speaks of
the nearest available driver, but a driver in the zones around the pickup is taken
before a nearer one outside them; `NearbyDriverFound` is the part that holds: nobody
within the side of a zone is passed over.

## 6. Proofs

`LifecycleSync`, at the top of `RideServiceProofs`, proves `DriverRideSync` of the
abstract lifecycle. The property is not inductive: cancelling a ride that is not yet
matched must free nobody, so `LifecycleInv` adds `UnmatchedHasNoDriver` and the types.

The rest of `RideServiceProofs` proves the service for any slots, users, drivers,
rides and zones, with or without faults, from `LifecycleAssumption` and `ServiceAssumption`
(drivers are users; `None` is no user, ride or zone). Its invariant `Inv` joins

* `TypeOK`;
* `LocalOK`: what the local state of a handler says of itself: which steps its
  call can have left, and which of ride, driver and status it has read;
* `LinkOK`: what local state and rows say of each other: the ride a handler works
  on exists, a completion's driver is known, a request's ride does not exist
  before its commit and does after;
* `KeysDistinct`: two requests never insert the same key;
* `RideHasDriver` and `PublishedRidesPersist` themselves.

`RideHasDriver` needs `LinkOK` because a start or completion only looks at
`driver_id` when it reads the ride, and writes the status later: it holds because
no commit ever clears the column. `PublishedRidesPersist` needs the ride of a
handler that is past its commit to exist. The proof has one lemma per kind of
step (arrival, loading, each lock and effect, commit) and `NextInv` joins them.

`DeparturesAreStale` follows by cases on the call being committed (`FreshCommit`):
with the guards it was admitted under, and reads that are still current, the
commit is the abstract step of that call. `SequentialRefinement` adds to the
invariant that, with one slot, the only request's reads are current
(`SoleRequestIsCurrent`); the service then implements `LifecycleSpec`, and
`SequentialSync` carries `LifecycleSync` over to it.

`FreshnessSuffices` is the other side of `DeparturesAreStale`: for any number of
requests, and with failures, the service implements `LifecycleSpec` as long as no
commit is of a handler whose reads were overtaken (`CommitsAreFresh`), and
`FreshnessKeepsSync` keeps `DriverRideSync` under the same condition. The code does not
meet the condition. For the rows of rides and drivers a `SELECT ... FOR UPDATE`, or a
version column checked by the UPDATE, would make it so. For `request_ride` neither
would: it reads that its rider has no active ride, for which there is no row to lock,
and takes a partial unique index or a SERIALIZABLE transaction. The theorems say that
with both, every race of section 5 that is about rides is repaired.
`LiveCommitsSuffice`, `LiveCommitsKeepSingleUse` and `FreshReportsAgree` are of the same
kind, for tokens and positions. Their
conditions are met by every behaviour whose requests do not overlap, and by many in
which they do.

`RideUpdateProofs` begins with the row locks, with failures. `LocksNeverCycle` rests on
`LocksOrdered`: a request that still has a driver's row to lock has not locked its
ride. So one that holds a ride waits for nobody, one that holds a driver waits at
most for the holder of a ride (`HoldersWait`), and a chain of waiting requests ends
after its third. Commits and rollbacks keep the invariant because they leave nothing
to lock.

The other two properties are of a service whose commits do not fail. Both
need the order in which a request takes its steps: a plan has one commit, after the
flush and the broadcast of its ride and after both sides of a move between zones
(`Orderly`). For `AnnouncedStatusCommitted`, with any number of requests, `UpdateInv`
says that one request at a time is between the flush and the commit of a ride
(`Holding`, the row lock), and that once it has broadcast, the room was told what it
will commit. For `ZoneIndexInSync`, with one slot, `IndexInv` says who is in a zone's
set while a request is under way: its own driver by the steps it has left, every
other by the rows (`Member`). A rollback after the broadcast, or after a move,
breaks either, since neither is taken back.

`RideRoomProofs`. `PagesStayInStep` rests on `RoomInv`: pages do not share sockets,
what a page or the process knows has been connected (`Connected`), the room holds
the socket of every page that is there and only sockets of pages that have gone
are pruned (`RoomHoldsPages`), and broadcasts and snapshots come in their order
(`InOrder`). With it, each step but two keeps a page in step: an announcement
copies the room, hence every page; a send is the last word on its line; a commit
makes the announced row the committed one. `EveryChangeTold` is of the two exceptions:
a page they have misled still has its socket in the room (`RoomHoldsPages`), so the
broadcast of the next change is sent to it.

`TokenProofs`. `SessionInv` adds types to the two properties of the abstract
sessions. `TokenInv` adds what a request knows of its rows: its token exists, the
one it will issue does not, its user owns both (`JobOK`), no two requests issue the
same token (`FreshDistinct`). `ReuseIsOverlap` is by cases on the commit
(`LiveCommit`): if the presented token is still live, it is the abstract step.
With one slot it is (`TokensStillLive`), hence `SequentialTokens` and
`SequentialSingleUse`; if every commit is live (`CommitsFindTokenLive`), it is with any
number of slots, hence `LiveCommitsSuffice`. `ClientUsesService` shows that the browser adds nothing to
the service's behaviours, so that these theorems hold under it. `SignOutsHaveCause`
needs to know what a refusal means by the time it is acted on: `CauseInv` says that
the token of a rotation that was refused is revoked, expired or of an inactive user
(`Spent`), and since no row is ever revived, it stays so; if the stored pair is still
good, the refusal was of another.

`SurgeCacheProofs`. `QuotesRecent` is a refinement, by `Recent`: an answer on its way
is no older than it has waited, and the age of what is cached, together with the time
it has left, is at most `Delay` and `TTL`, so that it is gone before it is too old.
The same invariant has the cached multiplier among the engine's (`OutageNotPinned`).

`DriverLocationProofs`. `DriftNeedsOverlap` is by the case that the row is as it was
read: every column left out of the UPDATE is then right. `RedisFollowsReports` needs
an invariant of reports under way: as long as one is clean, Redis follows the row it
read before its first call and its own position after the calls it has made
(`Sound`), two reports of one driver are not both clean, and nobody who is offline is
in a set. `FreshReportsAgree`: while no commit is of a report that was overtaken, the
columns agree, as `models/driver.py:9` says they always do.

`ZonesHideNobodyNear` is arithmetic over the types alone. Two positions within a
zone's side of each other differ by at most `CellSize` in each coordinate, so their
quotients by `CellSize` differ by at most one (`QuotientsClose`), and the zone of the one
is among those around the other (`CloseIsAround`). A near driver is therefore among
those the pre-filter leaves, and the nearest of these, which exists because distances
are natural numbers, is at least as near. If the pre-filter leaves nobody, the second
query sees the whole radius.

`GeohashProofs`. The walk never leaves the grid (`GridInv`), and one step of `adjacent`
is one step of the grid (`FollowsGrid`), by induction on the length. A digit's step is
read off the tables: each is the inverse of the one for the opposite direction
(`PlaceInOpposite`), moves the bits of one axis by one, modulo their number, and leaves
those of the other (`StepParts` and the lemmas before it); it wraps exactly at the
digits of the border, which is when the parent has to move too. The library's
induction theorems take an operator and cannot be instantiated, so `Induction` and
`Recursion` derive what is needed from the natural numbers being well-founded: a set of
lengths that has zero and the next of each has all, and a recursive definition whose
step is given as a function has a solution. `EncodeRecursion` and `AdjacentRecursion`
apply it to the definitions, so that `encode` and `adjacent` satisfy their equations for
geohashes of every length.

`AccountsProofs`. The check at the start of a request says nothing by the time of its
insert; `Inserted` says what the flush has established and the index keeps until the
commit: the key and the id are nowhere in the table, nor (`Apart`) with another
transaction that has flushed. With it a commit is the registry's step
(`RegistryImplemented`). `MergedPatches` needs that e-mail and role are in no UPDATE,
that a column in it is one the request names, that a named column left out had the
value asked for when it was read (`CommitMerges`), and that nothing else is answered
200 (`OnlyPatchesAnswer200`).

All theorems hold for any sets of slots, users, rides, drivers, zones, tokens,
pages, connections, multipliers, positions and accounts, any time to live, delay,
radius, side of a zone and length of a geohash, from the assumptions named in the modules. One slot or no faults is
assumed only where the table says so, and so is that no commit was
overtaken.

| Theorem | States |
|---|---|
| `LifecycleTypes`, `LifecycleSync` | types and `DriverRideSync` of `LifecycleSpec` |
| `TypeCorrectness` | `TypeOK` |
| `ActiveRidesHaveDrivers` | `RideHasDriver` |
| `EventsOfPersistedRides` | `PublishedRidesPersist` |
| `DeparturesAreStale` | `OnlyStaleCommitsDepart` |
| `SequentialRefinement` | one slot: `LifecycleSpec` |
| `SequentialSync` | one slot: `DriverRideSync` |
| `FreshnessSuffices`, `FreshnessKeepsSync` | no overtaken commits: `LifecycleSpec`, `DriverRideSync` |
| `LocksNeverCycle` | `NoWaitCycle` |
| `BroadcastIsCommitted` | no failing commits: `AnnouncedStatusCommitted` |
| `ZoneSetsInSync` | one slot, no faults: `ZoneIndexInSync` |
| `RoomTypes` | `RoomTypeOK` |
| `PagesStayInStep` | `OnlyOvertakenSnapshotsMislead` |
| `EveryChangeTold` | `EveryChangeIsTold` |
| `SessionsAreSingleUse` | `SingleUse` and `PredecessorsRevoked` of `SessionSpec` |
| `RotationIsAtomic` | `PredecessorsRevoked` |
| `ReuseIsOverlap` | `OnlyOverlapsReuse` |
| `SequentialTokens`, `SequentialSingleUse` | one slot: `SessionSpec`, `SingleUse` |
| `LiveCommitsSuffice`, `LiveCommitsKeepSingleUse` | no overtaken commits: `SessionSpec`, `SingleUse` |
| `ClientTypes`, `ClientUsesService` | `ClientTypeOK`; `TokenSpec` of the browser's behaviours |
| `SignOutsHaveCause` | `SignedOutForCause` |
| `SurgeTypes`, `OutageNotPinned`, `ClientKept` | `SurgeTypeOK`, `FallbackNotCached`, `ServesWithClient` |
| `QuotesRecent` | `QuotesAreRecent` |
| `LocationTypes`, `RedisFollowsReports` | `LocationTypeOK`, `RedisFollows` |
| `DriftNeedsOverlap` | `OnlyOverlapsDrift` |
| `FreshReportsAgree` | no overtaken commits: the columns of every position agree |
| `ZonesHideNobodyNear` | `NearbyDriverFound` |
| `WalkStaysOnGrid`, `NeighborsAreAround` | `WalkFollowsGrid`, `NeighborsSurround` |
| `AccountsTypes`, `TrueAnswers` | `AccountsTypeOK`, `AnswersAreTrue` |
| `RegistryImplemented`, `MergedPatches` | `RegistrySpec`, `PatchesMerge` |

Only model-checked is what must eventually happen: `EveryRequestEnds` (both),
`EveryCallEnds`, `ReconnectHeals`, `EveryLookupEnds` and `StartsDespiteFailures`. Liveness
under fairness is beyond the prover.

## 7. Not modelled

* **The HTTP layer and the schemas**: routing, validation, serialisation. A body that
  is not valid never reaches a handler. The statuses of refusals are in `Accounts`,
  where the property is about them; elsewhere a refused call changes nothing.
* **Passwords and signatures** (`core/security.py`): hashing, the encoding and
  verification of access tokens. An access token is what it stands for.
* **`revoke_all_for_user`**: nobody calls it.
* **Settings and wiring** (`core/config.py`, the rest of `main.py`), the up- and
  downgrades of the migrations (their columns, keys and unique indexes are in the
  modules), pool limits of the database engine.
* **Money and distance**: `compute_fare` and `haversine_km` are pure and of
  floating-point numbers; they price a ride and decide nothing.
* **The frontend's views**: rendering and forms over the clients that are modelled.
  Of the ride clients, the list of events, the delays of the backoff and the token in
  the URL of the socket.
* **Scripts and tests**, read as documentation of what is intended.

Hazards no property covers:

* a snapshot that fails to be sent leaves its socket in the room
  (`api/v1/routes/websocket.py:75`). `RideRoom` has the step (`Break`) and shows that
  such sockets mislead no page; that they are kept until the next broadcast is a leak
  of which nothing in the repository speaks;
* `useRideStatus` reconnects with the access token of its last rendering
  (`frontend/src/hooks/useRideStatus.js:24`); once it has expired, the attempts are
  refused and change nothing. `RideRoom` has no tokens;
* a broadcast waits for each send with the row locked (`core/websocket_manager.py:61`);
  how long a send may take is the transport's, and the runs assume that it ends;
* a rotation under way at a logout stores its pair after the logout has cleared it
  (`frontend/src/context/AuthContext.jsx:65`). `TokenClient` has the behaviour; nothing
  says what should happen.
