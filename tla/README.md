# A verification development of chrly

chrly serves Minecraft skins. It stores what players uploaded in Redis, and for
players it does not know (or knows without a skin) it asks Mojang, through
caches and a queue that keep the number of requests small. This directory holds
TLA+ models of its parts, the TLC configurations that check them, and proofs
that TLAPS checks. Paths below are relative to the repository's `src/`.

## 1. The system

```
 POST/DELETE ── http/api.go ──────────────┐
                                          ├── db/redis/redis.go (skins, uuids)
 GET ── http/skinsystem.go ───────────────┘            │ uuids
            │ GetForUsername                           │
            └── mojangtextures/mojang_textures.go ─────┤
                  │ GetUuid            │ GetTextures   └── in_memory_textures_storage.go
                  │                    └── mojang_api_textures_provider.go ──┐
                  ├── batch_uuids_provider.go ──── api/mojang/mojang.go ─────┤
                  └── remote_api_uuids_provider.go ── http/uuids_worker.go   Mojang
 every part ── dispatcher ── eventsubscribers (logger, stats reporter, health checkers)
```

| Component | State | Operations | What makes it hard | What makes it correct |
|---|---|---|---|---|
| Mojang textures provider (`mojangtextures/mojang_textures.go`) | listeners per username, one worker goroutine per flight, two caches | `GetForUsername`, worker, broadcast | callers join and leave while the worker broadcasts, caches change between a read and its use, retry, restart | one worker per username, nobody left waiting, own textures only, bounded requests |
| Batch uuids provider (`mojangtextures/batch_uuids_provider.go`) | queue, strategy goroutine, consumer goroutine, rounds | `GetUuid`, `Queue`, `GetJobs`, `performRequest` | four kinds of goroutines and unbuffered channels between them, `sync.Once`, cancellation | no job lost or answered twice, own answer, batches of the right size at the right time |
| Uuids storage (`db/redis/redis.go`, `mojangtextures/storage.go`) | a hash with timestamps | `GetUuid`, `StoreUuid` | expiry by a second command, entries of older versions, failing commands | a cache that forgets but does not invent |
| Textures storage (`mojangtextures/in_memory_textures_storage.go`) | map with timestamps, collector goroutine | `GetTextures`, `StoreTextures`, `gc`, `Stop` | reader and collector at the boundary of age, start on first use | depends on the last store only, memory is freed |
| Skins repository (`db/redis/redis.go`) | record per username, hash identity → username | find, save, remove by either key | two indexes, several commands per operation, failures between | every record is reachable by its identity |
| Records API (`http/api.go`) | none | `POST`, two `DELETE`s | read, remove and save are separate, ignored errors, concurrent clients | renames and removals leave one record per identity |
| Skinsystem (`http/skinsystem.go`) | none | a handler per endpoint over `getProfile` | four collaborators that may fail or know nothing, in every combination | failures are not absence, identities and signatures are not mixed |
| Health checkers (`eventsubscribers/health_checkers.go`) | last error with a timer, queue length, a goroutine per ping | `Set`, `Get`, timer, the three checkers | a fired timer races with `Set`, rounds announce themselves out of order, Redis hangs | no error is remembered for good, the queue length settles, every check ends |
| Statistics reporter (`eventsubscribers/stats_reporter.go`) | start times by key | event handlers | concurrent requests share keys | every time belongs to its request |
| Mojang client (`api/mojang`) | none | two requests | ignored decoding errors, a response it panics on, nulls it hands on | answers are told from failures |
| Remote provider and worker (`remote_api_uuids_provider.go`, `http/uuids_worker.go`) | connections | one HTTP request through two processes | connections break, requests are sent twice, the worker shuts down or fails, statuses are translated twice | same exchange as with the local provider |
| Server (`http/http.go`) | a channel | `StartServer` | two goroutines end it, requests wait for batches | ends after its requests, and by returning |
| Start-up (`cmd`, `di`) | the container, two global addresses | constructors | any may fail, they publish checkers while others are built | the health check is complete |
| JWT, signer, capes, dispatcher, logger, middlewares | none of interest | | | |

`PROJECT.json` lists every component with its status, every hazard with its line
and the properties that cover it, and for every definition of a model the lines
it stands for.

## 2. The modules

Each model lives in one module. Its constants are parameters with named
assumptions, its actions are one per handler step between two points where
another goroutine may act, and operators called "Mutant of X" are variants of
the definition that follows them, with a bug the code could have. They are used by no specification: putting
one in the place of `X` must make TLC find the property violated that
`PROJECT.json` pairs it with, which shows that the property is able to fail.

| Module | Models | Extended or instanced by |
|---|---|---|
| `SingleFlight` | abstract: what the provider promises its callers | `TexturesProvider` |
| `TexturesProvider` | `GetForUsername`, `broadcaster`, `getResult` | `MCTexturesProvider`, `TexturesProviderProofs` |
| `TexturesProviderProofs` | theorems about it | |
| `UuidExchange` | abstract: what batching promises | `BatchUuids`, and twice `RemoteUuids` |
| `MojangApi` | `validateResponse` and both requests, as operators | `BatchUuids`, and through it `Pipeline` |
| `BatchUuids` | `jobsQueue`, `GetUuid`, `startQueue`, `performRequest`, and what the strategies share | both strategies, `BatchUuidsProofs` |
| `PeriodicStrategy`, `FullBusStrategy` | the two strategies, each with its next-state relation | `MCPeriodic`, `BatchUuidsProofs`; `MCFullBus`, `Pipeline` |
| `Pipeline` | the workers of the provider over the full-bus strategy, with the timers of stats_reporter.go and the queue length checker | `MCPipeline`, `PipelineProofs` |
| `Skins` | redis.go (skins) with api.go | `MCSkins`, `SkinsProofs` |
| `TexturesStorage` | in_memory_textures_storage.go | `SeparatedStorage` |
| `UuidsCache` | abstract: what the provider takes the uuids storage for | `UuidsStorage` |
| `UuidsStorage` | `GetUuid` and `StoreUuid` of redis.go | `SeparatedStorage` |
| `SeparatedStorage` | storage.go: both storages and one time | `MCSeparatedStorage`, `SeparatedStorageProofs` |
| `HealthChecks` | `expiringErrHolder` and the two checkers on it | `Application` |
| `Startup` | `startServer` and the constructors of `di` | `Application` |
| `Application` | a process from its start to its health checks, with `DatabaseChecker` | `MCApplication`, `ApplicationProofs` |
| `Skinsystem` | `getProfile` and the handlers of skinsystem.go | `MCSkinsystem`, `SkinsystemProofs` |
| `Server` | `StartServer` | `RemoteUuids` |
| `RemoteUuids` | remote_api_uuids_provider.go and uuids_worker.go, over `Server` and `UuidExchange` | `MCRemoteUuids`, `RemoteUuidsProofs` |
| `…Proofs` | theorems about the module they are named after, in `BatchUuidsProofs` also about `PeriodicStrategy`, in `PipelineProofs` about `FullBusStrategy`; the lemmas that both strategies use are in `BatchUuidsProofs` | |

### TexturesProvider

`pc`, `key`, `cached` and `ret` are the local variables of a call.
`Call`, `ReadUuid`, `ReadTextures`, `Register` and `Receive` are
`GetForUsername` cut at its two cache reads, at the lock of `AddListener` and at
its channel. `worker[c]` is the goroutine that call `c` spawned, if it was the
first listener. `Resolve`, `StoreUuid`, `Fetch…`, `StoreTextures` and
`Broadcast` cut `getResult` at its four calls and the lock of
`BroadcastAndRemove`. The recursion for a cached uuid that is gone is a step
back from `fetch` to `resolve`. The goroutines that send the results are the
contents of `outbox`. Reading and storing uuids may fail, both caches may
lose an entry at any moment, and `Restart` keeps only what is in Redis.
A textures value is named by the uuid it is signed for, and nil textures are a
value of their own, as in the code. `resolved`, and the fields `gone`, `asked`
and `fetched` of a worker, are history variables.

The abstract `SingleFlight` knows calls, topics and answers only. A call either
is answered alone or joins a flight, and a flight gives all aboard one answer in
one step. `Phase` and `Told` map the provider to it: a call is aboard while it
waits and nothing was sent to it.

### BatchUuids, PeriodicStrategy, FullBusStrategy

`call` follows `GetUuid` through `sync.Once`, the queue and the response channel
(with FullBusStrategy also through the blocking send on `busIsFull`). `driver`
is the goroutine of `GetJobs`, `consumer` the goroutine of `startQueue`, and
`rounds` are the goroutines that run `performRequest`. A send and a receive on
an unbuffered channel are one step. The timer may fire at any moment, so every
`Delay` is covered. A round announces itself (`Start`), makes its request
(`Request`) and answers its jobs (`Respond`). Its response is any of `MojangApi`: an
error, a body that does not decode, which is an answer without profiles, the
profiles there are in any order, or a 400 that the client panics on. One of the profiles may be a nil, since a `null`
in the list decodes without an error. A search that comes to it before it has a match panics (`NilProfile`), so
with a list of Steve and a `null` a job for Steve is answered, and the next one for Alex ends the process. `answer[c]` is
reset by `GetUuid`: a call under way has been told nothing. `Cancel` closes the
context: `DriverStops`, `ConsumerStops` and `NilIteration` are the outcomes the
two `select` statements may then have, a panic included.

### Pipeline

A call of `BatchUuids` is here the worker goroutine of a flight. It takes off if
no other flight is about its username, with the uuid in the cache or not, asks
the batch provider, then asks for textures (`BeforeCall`, `AfterCall`), and broadcasts.
A cached uuid that is gone sends it back to the batch provider. Subscribers run in the
goroutine that emits (the dispatcher calls them one after the other), so `before_result`,
`textures:before_call`, `round`, `result` and so on are parts of the steps that
emit them, and what `StatsReporter` and the queue length checker do then is too.
A timer keeps who started it instead of when, so a time that is taken from
somebody else's start is visible.

### Skins

A step is one Redis command, or a transaction from MULTI to EXEC, which takes
effect as a whole or not at all. `Find` is `findByUsername`, with old records
without a uuid that exist and are not found. The handlers of api.go are the
control state of a client, and they run through the repository's operations as
the code does: a POST finds the identity, or else the username, removes what
must go (ignoring errors) and saves. `Fail` makes any command fail.
`Scope` says which identities and usernames a client's requests are about.

### TexturesStorage, UuidsStorage, SeparatedStorage

TexturesStorage keeps ages instead of timestamps, cut off at `Duration + 1`
because nothing distinguishes older entries. The ticker holds one tick and drops
the others, as Go's does. UuidsStorage has a step per Redis command: HGET decides
on what follows, and the HDEL after it removes whatever is there by then. Any
command may fail, with or without effect. `UuidsCache` is its abstraction: a
cache that may forget or fail at any moment, which is how TexturesProvider uses
it (`ReadUuid`, `ExpireUuid`, `StoreUuid`).

### HealthChecks, Startup, Application

HealthChecks lets timers fire at any moment. A fired timer waits for the lock,
where `Stop` no longer reaches it. Startup calls the constructors in the order in which
the container needs them: reporters and addresses while it is compiled, then what the
handlers of the enabled modules take, then the checkers. Each may fail, and then the
process exits. Application continues where Startup ends: the holder of a response checker is told
outcomes only if its constructor ran, and a call of `DatabaseChecker` is its
`select` and the goroutine in `Ping`, which sends only to somebody who receives.

### Server, RemoteUuids

Server has the three goroutines of `StartServer`. `Drained` is the return of
`server.Shutdown`, which waits for the requests that are handled. In RemoteUuids the
requests of the server are handlers of `getUUIDHandler`, and the batch provider
behind them is a `UuidExchange`, which both strategies are shown to implement. Each handler has
the connection of a client or `Nobody`. `Break` covers the network, the `WriteTimeout`
of the server and the end of its process. Go's transport may send a GET again after that,
so `Break` may also put the client back to `sending` while the handler runs on.
`Restart` starts an ended worker again.

### Skinsystem

Skinsystem keeps of a value only where it comes from (this server, Mojang, the request), so
a mixed-up answer is visible. It has one request at a time because requests share
nothing there.

## 3. What the runs check

A run is "pass" or "violation", and the second kind checks one statement of a comment
or of the documentation that the code does not live up to.

| Run | Instance | Shows |
|---|---|---|
| `Provider` | 2 calls, 1 username, 1 uuid | types, one worker per username, nobody forgotten or told twice, at most one uuid request and two textures requests per flight, SingleFlight is implemented, every call returns |
| `ProviderNames` | 2 calls, 2 usernames (4 names: two spellings, one refused), 1 uuid | callers get textures of their own username only, the caches hold what Mojang said |
| `ProviderNilTexturesAreAHit` | | violated: cached nil textures count as a miss (`mojang_textures.go:111` against `:168-169`) |
| `Periodic` | 3 calls, batches of 2, 3 names, 2 of them accounts of Mojang, cancellation, every response | jobs are conserved, nothing is queued before the driver runs, one round at a time, only a cancellation or a response that ends a round brings the process down, UuidExchange is implemented (own answers included), every call returns |
| `FullBusSafety` | 3 calls, batches of 2, 2 names, both accounts of Mojang, every response | full batches are always signalled, UuidExchange is implemented |
| `Pipeline` | 2 flights, 2 usernames, batches of 1, limit 1 | every time is taken from its own start, no timer is left behind, every flight lands, the queue length checker recovers |
| `Skins` | 2 concurrent clients, 3 identities, 4 spellings of 3 usernames, failures | records are reachable through their identity, what is deleted is gone |
| `SkinsDeletesOwnRecord` | 1 client, 2 identities, an empty database, no failures | violated: after a rename to a username that is taken, a DELETE by identity removes the record of another one (`api.go:114` against README.md:383) |
| `Storage` | 1 uuid, duration 3, ticker 2, `Stop` at any moment; 1 username, 2 readers, limit 1 | readers of textures depend on the last store only, old textures leave; the uuids are a cache, a broken entry is removed before it is reported |
| `Health` | every configuration; 2 errors, 3 timers, 1 check | the endpoint has every checker that was published, every error has a timer, no stray timer, recovery, every check ends |
| `Skinsystem` | every request and every answer of the collaborators | uploaded skins are served as they are, failures are not absence, no mixed identity, signatures fit |
| `Worker` | 1 client, 2 handlers, 2 names | shutdown is graceful and ends, the exchange is that of the local provider, failures are not absence, every call returns once connections hold |

The modules state more of this second kind, which TLC refutes as well
but no run is spent on: `GoneUuidIsInvalidated` and `NoNeedlessRequest`
(TexturesProvider), `NoProfileMeansNoAccount` (BatchUuids),
`EarlyIterationIsFull` (FullBusStrategy), `UniqueIdentity` (Skins with two
clients whose `Scope` is `Everything`), `TexturesAreNotNull` and `KnownUserIsServed` (Skinsystem),
`TexturesAreChecked` and `SessionServerIsSpoofed` (Startup) and `NoPingIsLeft` (Application).
Each is preceded by the words it is taken from. To see one, name it in a copy
of a configuration of its module.

### Bounds

* Calls: two calls are enough for a caller to register before, during and
  after a broadcast, and for one to start a flight while an old result is on its way
  to the other. Calls are made again and again, so histories are unbounded. What
  more callers would do is covered by the theorems (section 5).
* The batching runs have three calls and batches of two: a full batch, a batch
  that is not, a rest that stays in the queue, and rounds that overlap. With two accounts in a
  batch the profiles come in either order, with a null before, between or behind them; `Periodic` also has
  a name that Mojang does not know. Cancellation is in `Periodic` only, where it costs least: the theorems
  are about both strategies with it and without.
* Pipeline: two flights with batches of one are enough for rounds that overlap with
  each other and with empty ones, for a job left in the queue, and for a sender that blocks on
  `busIsFull`. A third flight adds no pair of actors (and has millions of states).
* One uuid and two usernames is the case in which answers can be mixed up although
  the uuid is right. That uuids change is covered by the theorem for any number of them.
* Skins: one client has two identities that take usernames from each other and
  rename, in two spellings of one of them. The second one has its own and is only
  in the way. At most one old record without a uuid exists at the start.
* Storage: an age up to `Duration + 1` is enough because `TooOld` only compares with
  `Duration`, and `GCPeriod` is smaller, as in the code. Entries of different uuids and
  usernames do not touch, so one of each is enough. Two readers, with stores at any moment, give
  the HDEL of one a fresh entry to hit and the other one a chance to miss it. More of both
  are covered by the theorems.
* Health: `Timers` bounds the timers that are armed or fired at the same time: one that is
  armed and two that wait for the lock. All combinations of settings that change what
  is constructed or fails are initial states.
* Worker: the client may have one handler and a forgotten one that still runs. `Handlers` bounds
  what the worker handles at a time.
* Symmetry is used for safety only (`ProviderNames`, `FullBusSafety`): over calls and uuids,
  which no definition tells apart.
* `CHECK_DEADLOCK FALSE` stands where the system may stop: after a panic
  (`Storage`, batching, `Pipeline`), when a provider was cancelled, and when a process exits
  at its start (`Health`).

### Fairness

Goroutines that can run do run (weak fairness of the steps of each call,
worker, round, driver and consumer). Requests to Mojang end because its HTTP
client has a timeout (`api/mojang/mojang.go:14-19`). Timers fire. Nothing obliges a
client to call, a request to succeed, an entry to expire or a provider to be cancelled.
With FullBusStrategy the send on `busIsFull` has strong fairness: Go queues
blocked senders first in, first out, and the driver returns to its `select`
again and again, where the timer runs for `Delay` and a waiting sender is taken at
once. `EveryCallReturns` of the batching modules makes no promise for a
cancelled provider, whose callers the code leaves waiting, or a process that has panicked.

A health check has a deadline, its context. Nothing makes Redis answer a ping.
In `Worker` the provider behind the handlers answers (that is `EveryCallReturns` of
the strategies, which excuses the two responses of Mojang that end a process: see section 4), connections of an ended process are closed, and nothing obliges a
connection to break, a signal to come, or an ended worker to be started again.
`EveryCallReturns` supposes that connections stop breaking, because a transport could try
for ever otherwise. The client has no timeout: what it waits for is the worker.

## 4. What the code does not say so clearly

* `DeletesOwnRecord`: identity 1 has `steve`, identity 2 has `alex`. A POST renames
  identity 2 to `steve`: the record of 1 is overwritten, its hash entry still leads
  to `steve`. A DELETE for identity 1 now removes the record of identity 2. The trace of the run is this one: it
  starts from an empty database (`SmoothSpec`) and no command fails. `DeletedIsGone`
  shows that whatever was found is at least gone.
* `RecordsAreReachable` needs concurrent requests to be about different identities and
  usernames. `UniqueIdentity` shows what happens otherwise.
* `NilTexturesAreAHit`: the storage cannot tell a stored nil from no entry.
* `KnownUserIsServed`: only an error of `GetForUsername` is ignored for a known user.
  A player without a Mojang account, or with textures that do not decode, is not
  served (`skinsystem.go:352` against the comment at `:346-347`).
* `SessionServerIsSpoofed`: `di/mojang_textures.go:45` parses the url of the API once more. A
  process with only `MOJANG_SESSION_SERVER_BASE_URL` set does not start, and with both set the
  session server is not the configured one (README.md:161-165).
* `TexturesAreChecked`: the checker of textures responses is published by the constructor of
  the *remote uuids* provider (`di/mojang_textures.go:201`), so that the default configuration is
  without it (CHANGELOG.md:54). `CheckersAreComplete` shows that what is published is found.
* `NoPingIsLeft`: after a timeout of `DatabaseChecker` its goroutine can never send and stays.
* Two responses of Mojang end the process, in goroutines that nobody recovers: a 400 with a body that does
  not decode panics in the client (`mojang.go:147`), and a list with a `null` before the profile that is searched panics in
  the round (`batch_uuids_provider.go:237`). `NoPanicInService` shows that they are the only panics of a batch provider that
  is not cancelled: no order of calls, timers and rounds adds one.
* After a failure to listen a signal closes `done` twice (`http.go:32` and `:41`), if main has not
  returned by then. `GracefulShutdown` shows that this needs the failure.
* `TimesAreOwn` is not claimed for the textures: two usernames may share a uuid, and one flight then
  takes the start of the other, or finds none.

## 5. What is proved

`TexturesProviderProofs` proves, for any number of calls, names, usernames and
uuids, from three assumptions (`LowerAssumption`: every name has a lower-cased
username or is refused, `MarkersAssumption`: nil, error and "absent" are told
from data, `NonEmptyAssumption`: there is a username):

| Theorem | States |
|---|---|
| `TypeCorrect` | `Spec => []TypeOK` |
| `SingleWorkerHolds` | `Spec => []SingleWorker` |
| `NoLostCallerHolds` | `Spec => []NoLostCaller` |
| `OwnTexturesHolds` | `Spec => []OwnTextures` |
| `HonestCachesHolds` | `Spec => []HonestCaches` |
| `BoundedRequestsHolds` | `Spec => []BoundedRequests` |
| `ProviderIsSingleFlight` | `Spec => SingleFlightSpec` |
| `ToldTogetherHolds` | `Spec => ToldTogether` |

None of the properties but the types is inductive. The invariant has three parts:

* `TypeInv` adds to the types that a worker that fetches knows a uuid, and one that
  stores has the textures of that uuid.
* `FlightInv` is about the broadcaster. `SingleWorker` is not inductive because
  `Register` spawns a worker when the list of its username is empty: one has to
  know that a live worker's own call is in the list (`WorkersAreRegistered`). That nobody is lost needs
  the converse, a list that is not empty has a live worker (`ListenersAreServed`),
  and that the listed ones wait under that username with an empty box
  (`ListenersWait`) while all others have a result coming (`WaitersAreHeard`).
  Most steps leave all of this alone: `QuietStep` proves so once.
* `DataInv` is about what travels: the uuid a call has read, what a worker holds and what
  is in a box all belong to the username (`CachedIsOwn`, `WorkIsOwn`, `BoxIsOwn`), and the number
  of requests follows from where the worker is (`RequestsCounted`). It needs `FlightInv`,
  because a worker's username is that of the call that spawned it, which must not
  move on before the broadcast.

The refinement has a step for each action: `Register` is `Join`, `Broadcast` is `Land`,
`Receive` is `Leave`, a restart is `Reset`, the worker's other steps stutter.

`ToldTogether` is an action property: two calls about one username that both wait, with nothing sent to
them, are sent the same in the same step. It needs `FlightInv`: without `SingleWorker` a second worker could
answer one of them alone.

### Batching

`BatchUuidsProofs` first is about the steps that the strategies share, and then about the periodic one;
`PipelineProofs` begins with the full-bus one. All is for any number of calls and names and any `Batch`.

| States | Periodic (`BatchUuidsProofs`) | Full bus | Pipeline (both in `PipelineProofs`) |
|---|---|---|---|
| `[]JobsAreConserved` | `PeriodicConservesJobs` | `JobsAreConservedHolds` | `PipelineConservesJobs` |
| who panics: `[]NoPanicInService`, `[]OnlyMojangPanics` | `PeriodicDoesNotPanic` | `NoPanicInServiceHolds` | `OnlyMojangPanicsHolds` |
| `UuidExchangeSpec` | `PeriodicImplementsUuidExchange` | `ImplementsUuidExchange` | `PipelineImplementsUuidExchange` |
| `[]AnswersAreOwn` | `PeriodicAnswersAreOwn` | `FullBusAnswersAreOwn` | `PipelineAnswersAreOwn` |
| `[]FullBatchesAreSignalled` | | `FullBatchesAreSignalledHolds` | `PipelineSignalsFullBatches` |
| `[]OneRoundAtATime`, `[]NothingBeforeStart` | `OneRoundAtATimeHolds`, `NothingBeforeStartHolds` | | |
| `FirstComeFirstServed` | `FirstComeFirstServedHolds` | | |

`CommonInv` is inductive for every step that the strategies share. That jobs are conserved says how many
places a job is in, and counts do not survive cutting a queue. `EachOnce` says it with sets
instead: the queue, what the driver holds and the rounds have no job twice and none in common, and their jobs
are those of the calls that wait. `ConservedJobs` goes back to cardinalities. It needs
`JobsAreHeld` (the driver holds jobs only while it sends them) and `StartedOnce` (what `onFirstCall`
has seen of the consumer, and the consumer of the driver), without which a call could queue
before anybody takes. One round at a time adds that the driver waits for its round.
`NoPanicInService` is kept by every step of a state with `CommonInv` in which it holds: `StopsWhenCancelled`
excludes the nil iteration, and what is left is a round whose response ends it (`Fatal`), in its client or in its search. `FullBatchesAreSignalled` is inductive with `CommonInv` and finitely many callers that signal, since a signal
is spent when the driver comes to take a batch, and the proof is arithmetic: `DivideMore` for a job that completes
a batch, `DivideCut` for a batch that leaves.

In the refinement `GetUuid` is the call of the exchange, `Request` answers in one step all jobs of its round
that can be answered (those whose search does not end at a nil), and `Respond` returns the answer of a job. All else
stutters. It rests on
`EachOnce`: the round a call is told by is the only one that has its job.

`AnswersAreOwn` (whoever is back from `GetUuid` has a profile of the name it was called with, none, or an
error) is inherited: `ToldOwn` is an invariant of `UuidExchange` alone (`ToldOwnInit`, `ToldOwnStep`), so it holds, under the
mapping, of everything that implements the exchange, and `ToldIsAnswered` reads it back. Nothing about strategies is in that proof.

`FirstComeFirstServed` is about the order of the queue. What the round has left to answer, what the driver holds and the queue
are one `Line`. A job joins at its end, only its head is answered, and cutting a batch off,
handing it over and starting a round regroup the line without moving it. It needs `OneRoundAtATime`, and is false of the
full-bus strategy, whose rounds overlap. It says that no job is overtaken, which is the safety part of
"every call returns"; that the line does move is liveness (`EveryCallReturns`).

### Pipeline

| Theorem | States |
|---|---|
| `TimesAreOwnHolds` | `PipelineSpec => []TimesAreOwn` |
| `NoForgottenTimersHolds` | `PipelineSpec => []NoForgottenTimers` |
| `OwnUuidIsFetchedHolds` | `PipelineSpec => []OwnUuidIsFetched` |

for any number of flights, usernames and rounds. The keys of timers hold names only, so whose a timer is
follows from who flies. `FlightsApart` (no two flights about one username) tells the keys of results apart.
`FlightsAsk` (the calls of the batch provider are of flights that resolve, about their username) carries that over to
rounds, since rounds that overlap have jobs of different calls (`EachOnce`) and so different lists of usernames.
`TimersBelong` says what is left when something lands: every timer is of a flight or a round
that has started it and not ended it.

What the strategy does alone it does in the pipeline too, because a step of the pipeline is one of
the provider, or the end of the process by a panic in a flight (`QuietSteps`, `ProviderSteps`, `DeadSteps`). The theorems in the last
column of the table above follow from that. `OwnUuidIsFetched` joins the two halves: a flight
that asks for textures with a uuid that it was told has the one of its own username. It needs
`AnswersAreOwn` when a call comes back, and that nobody touches the answer until the flight has used it
(`AnswerStays`). It is also why the timer of the textures may have the username's uuid as its key (`TextureKey`).

### Skins

| Theorem | States | If |
|---|---|---|
| `TypeCorrect` | `Spec => []TypeOK` | there are identities and usernames |
| `RecordsAreReachableHolds` | `Spec => []RecordsAreReachable` | `ScopesApart` |
| `DeletedIsGoneHolds` | `Spec => DeletedIsGone` | `ScopesApart` |

for any number of clients, identities and usernames and any spelling of them. `ScopesApart`: the requests of
different clients, which may run at the same time, are about different identities and (lower-cased) usernames. One client makes
one request after another about anything in its scope. The scopes of the run `Skins` are apart, and a single client
may have all identities and usernames there are. Without the hypothesis both are false
(`UniqueIdentity` in section 4 is refuted the same way), because a handler acts on what
it has read earlier.

`TypeCorrect` needs no hypothesis about scopes. Its invariant (`SafeInv`) says where a handler of
each kind is and what it has by then (`Staged`), which no other handler has a say in. In particular the nil that
`findIdentityOrCleanup` may return never reaches `SaveSkin`.

`RecordsAreReachable` is not inductive: whether it survives a `Save` depends on what the handler has found
out many steps before. `Informed` says what that is, and that it is still true: a POST looks for its
username only if its identity has no record, the records its `Save` replaces are all that its identity has, a removal by
identity removes the one record of that identity, and a DELETE still has the record it was about. `Scoped` and
`DataIsOwned` say that all a handler holds, and all that is stored, is in the scope of one client, and `OthersKeep`
concludes that steps of one handler leave what another one knows alone. A
failed removal only makes records fewer for the `Save` that follows (`Removed`).

### The other components

| Theorem | States | Argument |
|---|---|---|
| `SeparatedStorageProofs`: `AgreesWithLastStoreHolds` | for any uuids, durations and periods | the map has the last store of a uuid, or the collector has removed it, and then it is too old and stays so (`Kept`) |
| `SeparatedStorageProofs`: `UuidsCacheHolds`, `ReportedIsRemovedHolds` | for any clients, usernames and limit | every command maps to a step of the cache: a HDEL to a `Miss`, which may lose the entry, a unit of time to a `Forget` of what is too old by then |
| `ApplicationProofs`: `ErrorExpiresHolds`, `NoStrayTimerHolds` | for any errors and timers | each is inductive with the other and the types: `Set` disarms the only armed timer before it arms one; an application implements `HealthChecks` (`ApplicationHolds`) |
| `ApplicationProofs`: `CheckersAreCompleteHolds` | for every configuration and any checks | whatever is enabled, the checkers are collected by the last constructor (`CheckersLast`), so nothing is published after them |
| `RemoteUuidsProofs`: `GracefulShutdownHolds` | for any number of handlers, and restarts | who can have closed `done` while the listener is closed, and that nothing is active after `Drained` |
| `SkinsystemProofs`: `LocalSkinIsServedHolds`, `FailureIsNotAbsenceHolds`, `OneIdentityHolds`, `SignatureFitsValueHolds`, `TypeCorrect` | for any representation of nil and errors | what a handler knows at each step: nothing is asked before the record is read (`Unanswered`), a profile has one identity from where it was started (`Identified`), the local skin is in it from the moment it is found (`LocalSkin`), an error of Mojang ends the request of an unknown user (`ErrorsEnd`) |
| `RemoteUuidsProofs`: `TypeCorrect`, `NobodyIsCutOffHolds`, `GotOwnHolds` | for any clients and handlers | `Wired`: who waits has a handler, and the server's request is active exactly as long as the handler's exchange is open. With it the shutdown of the server, which waits for active requests, says something about clients: none is left waiting by it |
| `RemoteUuidsProofs`: `RemoteExchangeHolds`, `FailureIsNotAbsenceHolds` | for any clients, handlers and names | a connection belongs to one waiting client and its handler asks about that client's name (`Linked`), and what a handler was told is about that name (`Answered`): a response or a break is an exchange of one client |

### Assumptions

They are the named ones of the modules: constants that stand for nil, errors
or "none" are told from data (`MarkersAssumption`, `UuidMarkersAssumption`, `NobodyAssumption`, `NoSkinAssumption`,
`LowerAssumption` of Skins), in `Skinsystem` also from whole records and profiles, `Duration`, `GCPeriod`, `Limit`, `MaxLength` and `Batch` are numbers, `Lower` and `Fold` are
functions of the names, `Scope` is about identities and names there are (`ScopeAssumption`), and in the batching modules
there is a name. The only hypotheses of theorems are the two in the table of Skins.

### Only model-checked

* Liveness (TLAPS 1.4.5 does not reason about fairness and ENABLED): `EveryCallReturns`, `EveryFlightLands`,
  `QueueLengthSettles`, `OldTexturesLeave`, `Recovers`, `EveryCheckEnds`, `ShutdownEnds`.
* What needs induction over data, which the prover cannot do: that a job gets to the head of the line
  after so many rounds, for example. `FirstComeFirstServed` says that it never moves back.
* The properties of the two "violation" runs, which are false.

### Theorems without a run

`AnswersAreOwn`, `FirstComeFirstServed`, `OnlyMojangPanics`, `OwnUuidIsFetched`, `NobodyIsCutOff`, `GotOwn` and
`ToldTogether` are defined in the proof modules, next to their theorems. No configuration names them: they are consequences
of the refinements, or of the invariants behind the properties that the runs check. On the instances of section 3
(with two clients for `Worker`) TLC finds no violation of them, and states in which their premises hold.

## 6. What is left out

* Counters, gauges and logs: they pass an event on and nothing reads them back. The event
  `authenticator:success` that the reporter counts is emitted under another name (`http/jwt.go`).
* The validation rules of the API, the routes and the wording of answers.
* The middlewares (they emit an event before and after a request, or refuse it).
* A connection on which a transaction was left open after an error: it is up to
  the pool of the Redis client. A failed transaction has no effect in `Skins`.
* The panic of the client in a request for textures ends the process in `Pipeline`. In TexturesProvider
  it is a `Restart`, as are the panics of the batch provider.
* A `null` in the `properties` of a textures response panics in `DecodeTextures` (`mojang.go:35`). That is called in
  a handler of `Skinsystem` only, whose panic the HTTP server recovers: the one request ends without an answer.
* JWT and the signer (pure functions), the dispatcher (a third-party bus that calls
  subscribers in the emitter's goroutine), capes (one file is opened, and never closed), the commands
  `token` and `version`, and settings that are only passed on.

## 7. Plan

Done, in this order: SingleFlight and TexturesProvider with proofs, UuidExchange
with the batching modules, Skins, TexturesStorage, HealthChecks, Skinsystem, then UuidsStorage with its
abstraction and SeparatedStorage, MojangApi, Pipeline, Server, RemoteUuids, Startup, Application, and the
proofs of section 5, so that every safety property that a passing run checks is a theorem.

Left out on purpose:

* A module in which the worker's `UuidExchange` is replaced by a strategy. Each strategy implements the exchange, and
  `RemoteUuids` is proved over any exchange, so the composition would repeat both proofs in one state space.
* That the flights of `Pipeline` implement `SingleFlight`: a flight there has no listeners. They are
  in `TexturesProvider`, which is where that refinement is proved.
* A third flight or client in the runs: the theorems are for any number of them.

The next steps would be in the components that section 6 leaves out.
