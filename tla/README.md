# Smart house: a verification project

TLA+ models of the services under `src/`, the TLC configurations that check
them, and proofs about them.

## The system

Four Go services share one RabbitMQ, one Redis and one MongoDB.

| component | state | operations | interacts with |
|---|---|---|---|
| **GATEWAY** (`src/GATEWAY`) HTTP front end | none of its own | publishes user registrations, updates and deletions to the queues `create`, `update`, `delete`; checks tokens; calls USERS and DEVICES over gRPC, one call per request | RabbitMQ (publishes; also consumes the same queues with auto-ack and discards what it gets), USERS and DEVICES over gRPC |
| **USERS** (`src/USERS`) | collection of users, Redis copies of users (24 h) | `RegisterUser`, `UpdateUser`, `DeleteUserById` from the queues and over gRPC; `LoginUser`, `GetById` and other reads over gRPC | Mongo, Redis, RabbitMQ with explicit acknowledgement |
| **DEVICES** (`src/DEVICES`) | collection of devices, Redis copies of devices | `CreateDevice`, `UpdateDevice`, `DeleteDevice` from queues *of the same names* and over gRPC; `GetDevice`, `GetAllDevices` over gRPC | as USERS |
| **CONTROL** (`src/CONTROL`) | flags of devices and of users' houses in Mongo | `TurnDeviceOn/Off`, `AddUserToHouse`, `RemoveUserFromHouse`, `GetBatteryStatus` | Mongo, RabbitMQ (non-durable queues) |

What makes each correct, and what is hard about it:

* **USERS.** Every message ends acknowledged (its effect is in Mongo) or
  discarded; a message is handled again only after a crash or a lost connection;
  Redis never holds a user that Mongo never held, and disagrees with Mongo only
  from known causes; a process told to stop stops, with nothing half done. Hard:
  three consumers and any number of gRPC handlers interleave at every call to
  Mongo and Redis; calls fail, before or after they took effect; the process is
  signalled, crashes, or loses its connection (it never dials again) at any point.
* **RabbitMQ, shared queues.** A request reaches the service it is meant for,
  once. Hard: USERS, DEVICES and GATEWAY compete for the same three queues.
* **GATEWAY.** No two users have one e-mail; what a request answers is what it
  did. Hard: check, publish and read-back are three steps, with a consumer
  somewhere else in between and timers in place of answers.
* **DEVICES.** What Mongo and Redis say of a device agrees; a message cannot
  take the service down. Hard: two different ids per device, each of which can be
  spelled in several ways; a type assertion that fails at run time.
* **gRPC between them.** What a handler gets is what the client sent, although
  the two were compiled from copies of the protocol of their own; a call that is
  answered with success ran once; every call is answered. Hard: a service dies or
  a connection breaks in the middle of calls, and no call has a deadline.
* **Tokens.** A guarded route serves only who logged in within a day. Hard: a
  token passes from USERS through the client to the gateway, and expires on its way.
* **CONTROL.** Not modelled (see below).
* **Lists** (USERS, DEVICES). Page *p* of size *n* is the *p*-th block of
  *n* documents, whatever number the client writes, while documents are inserted; the
  users of an address are listed once each, while users move.

`PROJECT.json` lists the hazards at their lines, with the properties for each.

## Modules

| module | content |
|---|---|
| `UsersService` | the USERS service with the broker, the cache and the life of its process |
| `MC_UsersService` | constants of the small instances |
| `UsersServiceProofs` | theorems about `UsersService` |
| `MessageLedger` | abstract: what a consumer with acknowledgements promises |
| `UsersLedgerProofs` | the theorem that `UsersService` implements `MessageLedger` |
| `DevicesService` | the handlers of the DEVICES service, its collection and its cache |
| `MC_DevicesService` | symmetry of the small instances |
| `DevicesServiceProofs` | theorems about `DevicesService`: its types, and what the two ids do |
| `DevicesRaceProofs` | theorems about its races: Redis, deletions and updates |
| `Gateway` | the GATEWAY's user handlers, the shared queues, and the services that consume them |
| `MC_Gateway` | requests of the small instances |
| `GatewayProofs` | theorems about `Gateway` |
| `DeviceQueues` | the queue consumers of DEVICES and the life of their process; also implements `MessageLedger` |
| `DeviceQueuesProofs` | theorems about `DeviceQueues` |
| `Pagination` | the lists of USERS and DEVICES, page by page, and of the users of an address |
| `PaginationProofs` | theorems about `Pagination` |
| `Calls` | the synchronous half: routes, tokens, gRPC between the services |
| `CallsProofs` | theorems about `Calls` |
| `GatewayProtos`, `ServiceProtos` | the two copies of the protocol that `Calls` composes |
| `Wire` | what an encoder with one copy and a decoder with the other make of a message |
| `MC_DeviceQueues`, `MC_Pagination`, `MC_Calls` | their small instances |

How they fit together: `Gateway` has the asynchronous half of the system, with USERS
reduced to what `UsersService` shows of it; `Calls` has the synchronous half, with
the handlers of `UsersService` and `DevicesService` reduced to success, error or
panic. `MessageLedger` is what `Gateway` relies on at the queues. `Pagination` is
the one handler whose data matters, by itself.

### UsersService

One step is one call a goroutine makes to Mongo, Redis or the broker; between
two calls anything else may run.

| in the model | in the code |
|---|---|
| `db` | the users collection; `NoUser` where no document has the id |
| `cache` | Redis, `user id -> user JSON` |
| `body`, `status` | messages, in the order of publication, and where the broker has them: `ready` in its queue, `unacked` with the consumer that received it, `acked`, `dropped` (rejected without requeue: no dead-letter exchange is declared) |
| `buffered` | deliveries that the AMQP library has received and the broker has taken back because the connection broke |
| `up`, `connected`, `cancelled`, `wg` | the process, its AMQP connection, `consumerCtx`, the `WaitGroup` of `StartToConsume` |
| `pc`, `job` | where each goroutine is, and its locals: the delivery, the request, the user it holds, the error it will return. Goroutines are the three consumers, named after their queues, and `Clients`, gRPC handlers |
| `hist`, `applied`, `suspect` | history, read by no guard: all documents an id ever had; the ids a message's handling wrote; the ids whose cache entry a named race or failure may have left stale |

| actions | code |
|---|---|
| `CheckContext`, `InsertOne`, `CacheSet` | `RegisterUser` / `CreateUser` |
| `FindOne`, `UpdateOne`, `CacheSet` | `UpdateUser`; the merge is done when the document is read, as in the code |
| `FindOne`, `DeleteOne` | `DeleteUserById`; `UpdateOne` is refused by the driver, so Redis is never reached |
| `FindOne`, `CacheSet` | `LoginUser`; the error of Redis is ignored there |
| `CacheGet`, `FindOne` | `GetById` |
| `Take`, `Settle`, `Stop` | the loop of `consumeMessages` |
| `TakeBuffered`, `TakeEmpty` | the same loop after the connection was lost: the library's leftover deliveries, then the zero deliveries of a closed channel, which do not unmarshal |
| `Signal`, `Exit` | `StartToConsume` after the signal |
| `Crash`, `Disconnect`, `Restart`, `Expire`, `Publish` | the environment |

A call that fails (`CallFails`) does so because its context is cancelled, at no
cost, or by itself, at most `MaxFaults` times; a write that fails may have been
applied. Abstracted: `name` stands for username, profile name and address,
which `User.Update` treats alike; passwords are reduced to "matches or not";
tokens, logging and responses are left out. Messages always unmarshal: both ends
marshal the same struct. RPCs other than those above only read Mongo; the lists
are in `Pagination`, the answers of all in `Calls`.

### MessageLedger

A message is `unsent`, `waiting` in its queue, `taken` by a consumer, `done` or
`discarded`, and has a set of effects. It is done only with an effect; it moves on
only from `taken`; `Return` gives everything taken back at once; and what is done or
discarded has no further effect. `UsersService` and `DeviceQueues` implement it
(`ImplementsLedger`): `Place` maps the broker's status, and the effects are the ids
that the handling of a message wrote, or the number of devices it inserted. It is not a
matter of course, since both consumers go on working on messages whose delivery the
broker has taken back: such a message must not be settled by the old delivery, nor
settled by a new one while the old one is still to write.

### DevicesService

One step is one call a handler makes to Mongo or Redis.

| in the model | in the code |
|---|---|
| `docs` | the devices collection: `_id -> document`. A document has its own `id` field, written by `CreateDevice`, and a `deleted` field that is `absent` until `DeleteDevice` writes it |
| `cache` | Redis, `string -> device JSON` |
| `issued` | ObjectIDs drawn so far, by the service for `id` and by the driver for `_id` |
| `given` | ObjectIDs that an answer has told a client |
| `pc`, `job` | where each handler is, and its request, device, list and error |
| `gone`, `suspect` | history, read by no guard: ObjectIDs whose deletion was answered; strings whose cache entry a named race or failure may have left stale |

| actions | code |
|---|---|
| `InsertOne`, `CacheWrite` | `CreateDevice` |
| `UpdateOne`, `CacheWrite` | `UpdateDevice`, `DeleteDevice`; that nothing was modified is only logged |
| `CacheGet`, `FindOne` | `GetDevice`; an error of Redis counts as a miss |
| `List` | `GetAllDevices` |
| `Call`, `Reply`, `Crash`, `Expire` | the environment; `Crash` is also what a panic in any goroutine does, that of the deletion consumer (`msgbroker.go:106`) among them |

The two ids are the heart of it. A client of the API learns the `id`; every query
uses it as an `_id`. `IdsFrom` says which ids clients name. With `{"answers"}` they
name those that answers told them, and no query ever matches. With `{"collection"}`
they name the `_id`s in the collection, as one who reads Mongo can, and then the races
between Mongo and Redis are those the code was meant to have. Both are checked.

An id of a request is a string. `storage.go:29, 51, 72` turn it into an ObjectID
(`ObjectIDFromHex`), which forgets the case of its letters; `redis.go:34, 43, 63` use
it as it came. So `Ids` are pairs of an ObjectID and a spelling, a client may use any
spelling of an id it knows (`Known`), `docs` has one entry for an ObjectID and `cache`
one for each spelling. An id that the service writes is in lower case (`Hex`).
Not everything that goes wrong needs a race or a failure then: after an update by the one
spelling and a deletion by the other, Redis still has the device (`Outdated`, and the
second cause in `StaleHasCause`). Two spellings stand for the many ways to mix cases.

Abstracted: `name` stands for name, type, status and location, which `$set`
replaces together. A list is the set of its devices; its pages are a matter of
their own (`Pagination`). `BadId` is any string that `ObjectIDFromHex` refuses, the
empty one too, which is what the queue consumers send. A creation waits while
fewer than two ObjectIDs are left for each one under way (`Room`, a bound).

### DeviceQueues

The consumers of DEVICES on the queues it shares with USERS, here with DEVICES as
the only consumer; which service gets a message is in `Gateway`. The messages are
about users. A registration read as a `models.Device` has none of its fields and
creates a device without a name; an update has no id, which is an error; the
consumer of deletions asserts that `DeleteDevice` takes a `GetDeviceRequest`, which
it does not.

| in the model | in the code |
|---|---|
| `queue`, `status`, `leftover` | messages, where the broker has them, and the deliveries the AMQP library keeps beyond its connection, as in `UsersService` |
| `up`, `connected`, `cancelled` | the process, its AMQP connection, `consumerCtx` |
| `pc`, `msg` | where each consumer is in `consumeMessages`, and `val` |
| `devices` | how many devices the handling of a message has inserted |

| actions | code |
|---|---|
| `Take`, `TakeLeftover`, `TakeEmpty`, `Settle`, `Stop` | the loop of `consumeMessages` |
| `Insert`, `Cache` | `CreateDevice`: the collection, then Redis |
| `Panic` | the assertion of deletions (`msgbroker.go:106`) |
| `Signal`, `Exit` | `StartToConsume` after the signal |
| `Crash`, `Disconnect`, `Restart`, `Publish` | the environment |

The devices are counted only: their contents are in `DevicesService`.

### Gateway

One step is one call of an HTTP handler to another service, or one step of a
consumer. Here the services meet: a request for a user is published to a queue that
USERS, DEVICES and the gateway itself consume, and the handler reads the user back
without knowing which of them took its message.

| in the model | in the code |
|---|---|
| `users` | the users collection. ObjectIDs are numbered in the order of the insertions |
| `queue`, `body`, `sent` | the queues `create`, `update`, `delete`, with the published messages |
| `held`, `written` | the message each USERS consumer works on, and whether it has written it |
| `devicesUp` | the DEVICES process |
| `pc`, `job` | where each handler goroutine is; its request, its message, its answer |
| `born`, `excused` | history, read by no guard: the users a message inserted; the values that a named race or failure may have given to two users |

| actions | code |
|---|---|
| `Ask`, `Refuse`, `Check`, `Publish`, `Wait`, `ReadBack`, `Finish` | `RegisterUser` with `checkIfUserExists` (twice `Check`); `UpdateUser` and `DeleteUserById` (`Publish`, `ReadBack`) |
| `UsersTake`, `UsersHandle`, `UsersAck`, `UsersCrash` | the consumers of USERS |
| `DevicesTake`, `DevicesRestart` | the consumers of DEVICES: a registration becomes a device without a name, an update fails for want of an id, a deletion panics |
| `Swallow` | the gateway's own consumers (`cmd/main.go:103`), with auto-ack |

USERS is abstracted to what `UsersService` shows it to be towards its queues: one
write for each handling (`UpdateIsAtomicMerge`), acknowledged after it
(`AckMeansDone`), repeated after a loss only (`RepeatsBounded`). Deletions are
always refused, as they are there. A call may fail at any point, at most
`MaxFaults` times; a publication that fails may or may not be reported, since the
gateway asks for no publisher confirms. `BrokerRestart` loses every transient
message (`msgbroker.go:42` sets no `DeliveryMode`) except those the library of USERS
had received, and severs all connections: nobody dials again, every publication fails
from then on. Restarts of the gateway, which end the requests themselves, are left out. `GetById` after an update or a deletion is
reduced to whether the user exists. `Refuse` answers a registration or an update that
does not bind, and an update whose path has no ObjectID (`handler.go:119, 176, 181`); a
deletion is published unread. `Room` and `MaxMessages` bound the
publications. Registrations that carry `deleted: true` are left out, as are the
passwords; the routes that make one gRPC call are in `Calls`.

### Calls

One step is one stage of one request or call: the middleware, the handler, the
stub, the server, the service's handler, the reply.

| in the model | in the code |
|---|---|
| `job` | for each client its request: `header` and `id`, `msg` as the stub is given it, `got` as the service's handler gets it, `reply` as that returns it, `seen` as the stub returns it, the HTTP or gRPC `status`; `ran` counts executions |
| `up` | a service runs and the gateway is connected to it |
| `issued`, `expired`, `held` | the tokens that `GenerateToken` has made, those past their `exp`, and what each HTTP client got from its last login |

| actions | code |
|---|---|
| `Http`, `Authorize`, `Handle` | the routes of `APP.RUN`, `AuthMiddleware` with `ValidateToken`, the handlers up to their call |
| `Direct` | a program with the same stubs; neither service asks who calls |
| `Invoke`, `Dispatch`, `Receive` | the stub, the handler of the service description, and the way back |
| `RunSucceeds`, `RunFails`, `Panic` | the service's handler. `Needs` and `ReadsProfile` say which nested messages it reads unasked: without them it panics, and since nothing recovers, the process ends. `UpdateUser` does ask for `user` and its id (`NamesUser`, `usersStorage.go:41`) and answers with an error without them; the `profile` in it, of a user that it has found, it reads unasked (`models.go:41`) |
| `Crash`, `Reset`, `Connect`, `Expire` | the environment. `Break` fails the calls in flight, but replies that have arrived |

A message is the set of its leaves, each with its path and a value of its own;
`Carry` pairs every place of a message, with the field numbers and wire types that
lead to it (`Places`), with the place of the other copy that has the same, and
`Received` moves the leaves along; what the receiver does not know is dropped. The messages that
are tried are the full one, the one whose nested messages are empty, the one whose nested
messages are set but for those nested in them (an `UpdateUser` without `profile`), and the
empty one.
A list has at most one element. A string that is not UTF-8 cannot be encoded
(`Readable`). A body that is no JSON is `Malformed`.

### Pagination

| in the model | in the code |
|---|---|
| `docs` | the collection in natural order: for each document, does `{"deleted": false}` match it, which never changes: no handler marks a user (`doc_delete`), and DEVICES marks a document that had no such field |
| `here` | the documents with the address that is asked for; `Move` is an `UpdateUser` that gives a user this address or another one |
| `ask`, `sent` | page and limit as the client means them, and as they reach the service |
| `pc`, `pos`, `page`, `failed` | the handler: the cursor's position, the documents so far, the error |
| `walking`, `seen`, `before` | a client that walks from page to page, and what it has seen; how many documents there were when it began |
| `moved` | history: the users whose address has changed since the list of an address was asked for |

`Parse` is `strconv.Atoi` with its error discarded and the conversion to `int32`
(`handler.go:412-414`); `Skip` is `(page - 1) * limit` in 32 bits
(`storage.go:94`, `usersStorage.go:184`). `First` and `More` fetch one batch of the
cursor each; MongoDB refuses a negative skip, takes limit 0 for none and a negative
limit for its absolute value in a single batch. `AskAll` is the gateway's empty
request. `AskByAddress` and `FindByAddress` are `GetUsersByAddress`, which has no page and
no limit; its cursor stands at a place of the collection and not at a number of matches
(`NextAddressed`), since what it has passed may match no longer. `2 * Half` stands for 2^32.
Any call to MongoDB may fail. Left out: numbers beyond 64 bits.

`PageIsBlock` says what a page is when the numbers fit (`Fits`): outside, the code
answers with an error or with some other block of the list, and no claim is made.
`Listed` and `Block` are the reference definitions, written independently of the
query: the i-th document listed is the matching one with i matching ones up to it.
`PageIsBlock` and `WalkSeesAll` are about the filter `{"deleted": false}`. About the users of an
address, whose filter updates change between two batches, `AddressListed` says what is
left: nobody who keeps the address is lost or repeated, and nobody who never had it is
listed. Of those who move meanwhile it says nothing, and so not that the list is what the
filter matched at any one time. DEVICES's filter matches no document that `CreateDevice` made; the model has
documents of both kinds.

### Runs

Runs named `users_` and `doc_delete` use `MC_UsersService`, `gateway` and
`doc_email` use `MC_Gateway`, those named `devices_` and `doc_device_update`
`MC_DevicesService`, the others the module of their name; the bounds are in the cfg files.

| run | instance | shows |
|---|---|---|
| `users_core` | a live user and one marked deleted; consumers only, 2 messages from {register, update of either, delete}, 1 failing call, 1 crash or disconnect | `TypeOK`, `AckMeansDone`, `RepeatsBounded`, `UpdateIsAtomicMerge`, `ExitIsOrderly`, `DeletedUserFrozen`, `ImplementsLedger` |
| `users_cache` | 1 queued update, one client that updates another field, logs in or reads, any number of times, 2 failing calls, 1 crash or disconnect | `CacheHoldsCommitted`, `StaleHasCause` |
| `users_live` | consumers only, 2 messages from {update, delete}, 1 failing call, 1 crash or disconnect, fairness | `EveryMessageSettled`, `ShutdownTerminates` |
| `doc_delete` | 2 messages, no faults | a deletion that finds its user does not mark it (`usersStorage.go:217` says it does) |
| `devices_told` | 4 ObjectIDs in 2 spellings, one content, two clients that create, update, delete and list by told ids, 1 failing call, 1 crash | `TypeOK`, `GivenIsStored`, `ApiLeavesCollection`, `OnlyUpdatesRevive` |
| `devices_found` | 2 ObjectIDs in 2 spellings, 2 contents, two clients that create, update, delete and get by `_id`s read from the collection, 1 failing call, 1 crash | `StaleHasCause`, `DeletionSticks` |
| `doc_device_update` | one client, one spelling, no faults | an update succeeds and finds no device |
| `gateway` | two handlers, 2 messages, requests {two registrations with one e-mail, update to that e-mail, delete}, and bodies that do not bind, all three services on the queues, 1 failing call, 1 crash of USERS or restart of the broker, fairness | `TypeOK`, `DuplicateHasCause`, `CreatedIsOwn`, `EveryRequestAnswered` |
| `doc_email` | two handlers that register, USERS alone on the queues, no faults | two users with one e-mail (`handler.go:288` says "already exists") |
| `pagination` | integers of 4 bits, 14 numbers around their edges and beyond, up to 5 documents in batches of 2, walks with limits 1 to 3, users that move at any time | `TypeOK`, `PageIsBlock`, `AddressListed`, `WalkSeesAll` |
| `calls` | an HTTP client on all seven routes, a program on five methods of USERS that no such route calls, one token, crashes, broken connections and restarts without bound, fairness | `TypeOK`, `DeliveredIntact`, `SuccessRanOnce`, `GuardedHasLogin`, `EveryCallAnswered` |
| `device_queues` | 2 messages to any of the queues, 2 failing calls, 2 crashes or disconnects, 2 restarts, signals, fairness | `TypeOK`, `DevicesBounded`, `AckMeansDevice`, `DeletionStays`, `OthersSettled`, `StopsOnSignal`, `ImplementsLedger` |

Why the bounds are enough: two messages are the least for one to wait behind
another in a queue and for two consumers to be busy at once; one loss at any
point gives every redelivery of either; six ids let both registrations run
twice, so the supply of ids never stops a handler. The races about the cache are
between a reader or writer that is between two calls and one other writer, for
one user: the consumer and one client, which calls again and again.
Symmetry: ids no request mentions in
`users_core`; ObjectIDs and clients in the `devices_` runs, whose initial state and
guards name none; none where liveness is checked. `devices_found` has a `VIEW` besides:
states that differ only in which ids were told and which deletions were answered
(`given`, `gone`) count as one, because where ids come from the collection no guard and
neither of its properties reads them.

Four ObjectIDs are two devices told apart (`devices_told`), which need no contents for
that; two are one device, on which two handlers race (`devices_found`). Two handlers
suffice for each race there, since each involves one that wrote Mongo and one
that has not yet written Redis; the theorems below do not depend on that number.

In `gateway` two messages are a registration and what races with it, and four ids
are enough for the initial user, both registrations, and one of them once more (one loss). The
handlers go on asking until the messages are used up, so that a request may also
come after everything an earlier one caused. `EmailsUnique` fails with neither
rival nor failure; it is the statement the code makes, and `DuplicateHasCause`
says exactly when it is broken.

In `pagination` four bits are enough for every way in which the numbers go wrong: a
page that wraps in `Parse`, a product that wraps to a positive or a negative skip,
and one that does not. With five documents in batches of two a page has up to three
batches, and documents come in, and users move, between any two. In `calls` two clients are enough for
one call to end the process under another's; that both call both services is what
`Called` is for: with it every type of message goes over the wire, and the two methods
left out, `GetByUsername` and `GetByEmail`, have the types of `GetById`. There is one
token, which is valid, then expired, and never replaced: after it logins no longer
succeed there. In `device_queues`
two restarts make a third process, so that a deletion can end two processes running
and still be there, and the process may then be down with nobody to start it again,
which is why that run does not look for deadlocks.

`DeletedUserFrozen` is about users marked from the start: no handler marks one
(`doc_delete`), so that no deletion races with an update there.

`UpdateIsAtomicMerge` is checked with the gateway as the only writer, which is
how the system is deployed: one consumer runs all updates. With UpdateUser
called over gRPC as well it does not hold (two read-merge-write sequences
interleave), which is why `users_cache` does not list it.

Fairness (`Fairness`): a goroutine that can run does run (the Go scheduler), and
every call to Mongo or Redis returns, so the consumers and handlers are weakly
fair. `Stop` is strongly fair: `select` picks at random among ready cases, so a
loop that keeps coming back to it takes `ctx.Done()` in the end, even when the
other channel is closed and always ready. Nothing is assumed of the broker's
clients, of faults, signals, expiry or restarts. In `Gateway` only the HTTP handlers
are weakly fair: gRPC calls return and timers expire. That suffices, which is what
`EveryRequestAnswered` is about: no answer waits for a consumer. In `Calls` the
stages of a request are weakly fair, the service's handler among them; that is a
condition on Mongo and Redis, because no call has a deadline that would end it
otherwise. Nothing is assumed of `Connect`: a service that is down may stay down, as
the one that is not at `localhost:8000` (`cmd/main.go:71`) would. `DeviceQueues`
has the fairness of `UsersService`, and for `OthersSettled` and `StopsOnSignal` it
needs no restart.

### Proofs

**`UsersServiceProofs`** proves the safety properties of the runs for every value
of the constants: any number of users, clients, messages, failed calls and losses.
Each rests on an inductive invariant, with one lemma per action that it is kept.

* `TypeCorrect` (`TypeOK`). What a step stores is well typed only if the request
  its goroutine holds is of the kind the step handles, if it holds a user where
  the step uses one, and if the WaitGroup's counter equals the number of consumers
  that have not stopped. `TypeInv` adds these facts (`JobsFit`, `StoppedOK`,
  `KeyedOK`, `BodyOK`, `WaitOK`).
* `CacheCommitted` (`CacheHoldsCommitted`) and `StaleCaused` (`StaleHasCause`).
  `CacheInv` says of every goroutine between its Mongo call and its Redis call that
  the user it holds was once committed (`HeldCommitted`), and that it is the present
  document unless the id is already marked suspect (`HeldFresh`).
* `AckedAreDone` (`AckMeansDone`), `RepeatsAreLosses` (`RepeatsBounded`) and
  `ExitOrderly` (`ExitIsOrderly`). `DeliveryInv` relates broker and consumers: the
  message a busy consumer holds is unacknowledged or a leftover of a lost
  connection, an unacknowledged message has a holder, a handler that has ended
  without an error has written, and a message that may still be delivered or written
  has written no more often than there were losses (`CountOK`, `BeforeOK`), once less
  while a second copy of it is left in the library.
* `DeletedStaysFrozen` (`DeletedUserFrozen`): every write's filter asks again that
  the user is live.
* `AtomicMerge` (`UpdateIsAtomicMerge`), assuming `OnlyQueueUpdates`, that no gRPC
  client calls UpdateUser: by `MergeInv`, what the update consumer is about to write
  is the merge of its request and the present document.

**`UsersLedgerProofs`** proves `LedgerImplemented` (`ImplementsLedger`). Initial
states map to initial states (`LeftoverInit` besides), and `LedgerStep` takes every
action to a step of the ledger: a change of one status is a move of one message
(`PlaceMoves`), a loss is `Return` (`RequeueReturns`), a write is `Do` on a message
that is waiting or taken (`HandlerDoes`). For the last, `LeftoverWaits` is needed
beside `DeliveryInv`: a delivery left over from a lost connection, held by a consumer
or by the library, is of a message that waits in its queue.

**`DevicesServiceProofs`** proves

* `TypeCorrect` (`TypeOK`), by what every step of a handler knows about its locals.
* `ToldIsStored` (`GivenIsStored`) and `CallsMissCollection`
  (`ApiLeavesCollection`), assuming `"collection" \notin IdsFrom`. `IdsInv` says that the ids of
  all documents were issued, that no document's `id` is the `_id` of a document,
  that no two share an `id`, and that every id that was told, is cached or is held by
  a handler spells the `id` of a document. So no query by such an id matches, in
  whatever spelling (`NoMatch`).

**`DevicesRaceProofs`** proves, for any number of clients, ids and failures,

* `MarkSticks` (`DeletionSticks`). `IssuedInv` says that whatever a document, Redis
  or a handler holds was issued, so `InsertOne` never overwrites a document, and an
  update sets the device's fields without the mark.
* `StaleCaused` (`StaleHasCause`). `StaleInv` has two halves, neither inductive
  alone: a handler about to write Redis has a copy that agrees with the collection
  (`SettersAgree`), and so has Redis itself unless somebody is about to write it
  (`CacheAgrees`); in both, or the string is suspect. Agreement (`Agrees`) is with a
  document that is not marked. A write of the collection breaks the first half for all
  other handlers about to write a spelling of that `_id`, and the second for all other
  spellings that Redis has, which is what makes those strings suspect.
* `UpdatesRevive` (`OnlyUpdatesRevive`), assuming `"collection" \notin IdsFrom`. A creation writes
  Redis too; that it never brings back a deleted device is because nobody knows the
  id until the creation is answered, and Redis is written before that
  (`CreatorsAlone`, with `Asks`: requests name ids that were told).

**`GatewayProofs`** proves, for any number of handlers, messages and users, any set of
rivals and any number of failures and losses,

* `TypeCorrect` (`TypeOK`). A message is in one queue, once, or with the consumer of
  that queue (`QueueFits`); a handler's request is of the kind that its step handles
  (`Fits`, from its first call to its answer: one that is refused holds none); and the messages sent and the handlers that may still publish do not
  exceed `MaxMessages` (`RoomLeft`), which is the guard `Room` made inductive. Requests
  for updates excuse their values when they are made, and so are excused on the queue.
* `DuplicateCaused` (`DuplicateHasCause`). `OneClaim`: of a value that is not excused
  there is at most one claim: a user who has it, a registration that found it free and
  has not published, or a message that will give it to a user. The claim passes from
  the handler to the queue to the collection, and a redelivery after the write would
  double it, which is the fourth excuse.
* `CreatedOwn` (`CreatedIsOwn`). `Mine`: from the publication to the answer the e-mail
  of a registration is left to its own message (`LeftTo`): whoever has it was inserted
  for that message, and no other message or handler has a claim. So what `ReadBack`
  finds by the e-mail is the handler's own user, whichever service took the message
  and however long it took.

**`DeviceQueuesProofs`** proves every safety property of `DeviceQueues`: `TypeCorrect`,
`DevicesAreBounded`, `AckedIsDevice`, `DeletionNeverSettled` and `LedgerImplemented`.
One invariant, `Inv`, carries them all. `PlaceFits` and `HeldFits` relate where a
consumer is, the delivery it holds and what the broker makes of that message
(unanswered while the connection lasts, waiting for another process afterwards);
`Counted` relates the devices of a message, the number of processes so far and
whether the running one may still insert it (`MayInsert`: the message may still be
delivered, is left over, or is about to be inserted). `DevicesBounded` alone is
not inductive, since nothing in it says that one process handles a message at most once.

**`CallsProofs`** proves every safety property of `Calls`, for any number of clients,
programs, methods called and tokens.

* `SuccessRan` (`SuccessRanOnce`) and `GuardedLoggedIn` (`GuardedHasLogin`). `RanFits`
  says how often a request has run by where it is, and that a reply's outcome is that
  of its handler; `StatusFits` says the same by status once it is answered; `LoggedIn`
  says that a request of a guarded route that is past the middleware has a token that
  was issued, and young when the request came. A token may grow old on the way, so it
  is `late`, fixed on arrival, that the invariant speaks of and not `expired`. That a
  connection breaks is one lemma (`BreakKeeps`, `BreakSound`) for every cause: a panic,
  a crash, a reset.
* `MessagesIntact` (`DeliveredIntact`). Three facts together. Decoding undoes encoding
  where both sides have one schema (`ReceivedAsSent`), because the tags of a place tell
  it from every other place of the message (`PlacesDet`, by one lemma per level of
  nesting). The two copies of the protocol are equal, message by message and method by
  method (`SameSchema`, `MethodsAgree`); these are computed from the definitions of
  both modules, and a number or type changed in either makes them false. And `Intact`
  follows each request: what is sent is a message of the type that its method takes,
  also after the handler has put the id of the path into it (`MessageFits`), and what
  is returned is of the type that the method returns, also with a new token in it.
* `TypeCorrect` (`TypeOK`). The types of `held` need that the answer of a login has a
  token, one that USERS issued, at the place where the client looks (`Grants`,
  `TokenHasPlace`), and so need `MessagesIntact`.

**`PaginationProofs`** proves every property of `Pagination`, for every width of the
integers, every size of a batch, any number of documents and whatever clients write.

* What `Find` returns comes first. The prover has no induction over data, so it is done
  by hand: a set of numbers that holds 0, and with each number the next, is `Nat`
  (`EveryNumber`, from the least element of what is missing, `SmallestIn`). With it the
  recursion of `Find` has a solution (`FindSolves`), which lists the matching documents
  by rank (`FindLists`); hence it equals the reference `Listed` (`FindIsListed`), and an
  insertion only makes it longer (`FindGrows`).
* `TypeCorrect` (`TypeOK`) and `BlockAnswered` (`PageIsBlock`). `PageFound`: what the
  handler holds is the list from the skip on; `CursorStands`: until the answer the
  cursor stands behind it, below the limit; `PageEnds`: an answer stops at the limit or
  behind all documents there were when the request began. The list is that of the
  present, though batches were fetched at different times, because it only grows at its
  end.
* `WalkComplete` (`WalkSeesAll`). `WalkStands`: what a walk has seen begins the list and
  is as long as the pages before the next one. Nothing bounds the documents by the
  integers: a walk's skip may wrap. It stands at fewer than `2 * Half` documents then,
  since the page before was answered and a limit is less than `Half`, so the wrapped
  skip is negative (`WrapTurns`), MongoDB refuses it, and the walk gets no further but
  sees nothing wrong.
* `AddressAnswered` (`AddressListed`). `AddressInv`: the list is ascending, ends at or before
  the place that the cursor has reached, and has members that match or have moved; and
  every document that matches and has not moved is in it (`Owed`), up to that place or, when
  the cursor is closed, as far as there were documents when the request began. What the next batch finds lies behind that
  place (`BatchAddressed`), so it neither repeats nor passes over anybody.

The assumptions are `UsersAssumption`, `DevicesAssumption`, `GatewayAssumption`,
`DeviceQueuesAssumption`, `CallsAssumption` and `PaginationAssumption`: distinct ids of the initial users,
sentinels outside the sets they stand beside, clients not named like queues, HTTP
clients apart from programs that call the services directly, bounds that are numbers,
integers of at least two bits, walks with a positive limit.

Only model-checked: liveness (`EveryMessageSettled`,
`ShutdownTerminates`, `EveryRequestAnswered`, `EveryCallAnswered`, `OthersSettled`,
`StopsOnSignal`), which the prover does not handle.

## Findings

`PROJECT.json` lists them under "findings"; each is shown by its `doc_` run.

* USERS: deletions never mark a user.
* DEVICES: updates and gets by the id a client was told find no device, and no
  device is ever listed.
* GATEWAY: two registrations with one e-mail are both accepted.

Two services do not build as committed and are read, where they are modelled, for
what their code says: `src/GATEWAY/cmd/main.go` calls `NewRbmqHandler` with one
argument too few, and `src/CONTROL/cmd/main.go` calls functions with other
signatures than they have.

## Not modelled

* **CONTROL.** It does not compile, and what is there would do nothing: its gRPC
  service is registered with no server, its queues are consumed with auto-ack and
  the deliveries handed to no handler, the channel its consumers read has no sender,
  and the gateway has no route to its handlers. Its storage operations, each one
  update of one document, are reached by nothing.
* **Configuration.** Read once at start-up. It shows in the models as services that
  are not where they are dialled (`up` in `Calls`).
* **Password hashing.** A pure function of one argument; logins succeed or fail.
* **Generated code without a caller**: the stubs of CONTROL, the copy of
  `devices.proto` in USERS; and the Swagger documents.

## Plan

Done: the modules above with their runs, the theorems of the safety properties of
`UsersService`, `DevicesService`, `DeviceQueues`, `Gateway`, `Calls` and `Pagination`,
and of the two refinements of `MessageLedger`. Left:

1. Parts of liveness that are safety in disguise: that a handler always has a next step
   while its call has not been answered (no state of `Gateway` or `Calls` is stuck), for
   any number of clients.
2. That the queues of `Gateway` implement `MessageLedger`, as those of the services do.

A new question is first put to an instance that already runs; runs stay few.
