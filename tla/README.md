# Verification of openmiio_agent

TLA+ models of [openmiio_agent](../src), checked with TLC and, for its core,
proved with TLAPS.  Paths such as `internal/miio/miio.go` are relative to `src/`.
`PROJECT.json` lists the components, the runs, the lines that each definition
translates, the hazards, and the theorems.

    tlc -config RouterCalls.cfg MCRouter     # a run
    tlapm RouterProofs.tla                   # the proofs of a module

## The system

The agent is a daemon on a Xiaomi gateway.  It stands between the gateway's
apps, the process that talks to the Mi cloud (`miio_client`), an MQTT broker,
and the chips.  `main.go` calls the `Init` of each part in turn; after that the
parts run in goroutines and meet in a few places.

| Part | State it keeps | Operations | Meets |
|---|---|---|---|
| marks table, `pkg/rpc/mangle.go` | `marks`, `markID`, `stackTop`, under `markMu` | `MarkMessage`, `FindMessage`, the sweep every 60 s | the router calls it from every goroutine |
| miio router, `internal/miio/miio.go` | none of its own | `miioRequest`, `miioResponse`, `Send` | marks, local sockets, cloud, MQTT, the request and response hooks (Lua, cache) |
| local sockets, `internal/miio/local.go` | `conns`, `methods`, under `mu` | accept, bind an address, register methods, close, write | one goroutine per connection |
| cloud link, `internal/miio/cloud.go` | `conn0` | dial, read, write, lose | one goroutine |
| Lua, `internal/lua` | the interpreter, under a lock | hooks on requests, responses, MQTT | may drop, rewrite or answer messages |
| MQTT worker, `internal/mqtt` | `conn`, `online` | dial, connect, subscribe, range over `Incoming`; `Publish` from anywhere | handlers of miio, zigbee and Lua run on it |
| MQTT client, `pkg/mqtt` `ClientConn` | channels `out`, `Incoming`, `connack`, `suback` | `Connect`, `Subscribe`, `Publish`, `reader`, `writer` | two goroutines per connection |
| Z3, `internal/zigbee/z3.go` | `z3cmd`, `z3stop`, under `z3mu` | start, read lines, restart, kill | child process; publishes its output |
| Zigbee TCP, `internal/zigbee/zigbee.go` | `baudRate`, one client at a time | accept, probe, copy both ways, close | kills Z3; serial port |
| serial port, `pkg/serial` | a descriptor number | `Open`, `Read`, `Write`, `Close` | the kernel reuses the number |
| central, `internal/central` | two socket files | take over the service's socket, proxy | files outlive the agent; publishes requests |
| cache, `internal/cache` | cached cloud results | a response hook: keep, stand in, correct specs | called by the router; saves to the store |
| store, `internal/store` | one JSON file | `Init`, `Get`, `Set` | the disk |
| report and log, `internal/app` | counters | `SendReport` every 30 s, log lines over MQTT | publish |
| cloud status, `internal/miio/report.go` | `cloudState`, the report | a response hook | sees answers before the cache's hook |
| serial statistics, `internal/app/serial.go` | the last counters | parse `/proc/tty/driver` when reported | the kernel |
| arguments, firmware | constants | read | - |

What is hard here: many goroutines share the marks table and the connections
while messages of callers with equal ids pass; an identity (`_to`, the id, a
descriptor number, a slice of a buffer) is used some steps after it was taken;
bounded channels connect goroutines in circles; processes are killed between two
steps on files; the broker, the cloud, the apps and the Zigbee clients come and
go at any time.  `PROJECT.json` names 40 such hazards by line.

What makes each part correct:

- marks table: a cloakroom.  A ticket is never given out twice, is redeemed at
  most once and for what was deposited, and nothing stays for ever.
- router: every response reaches the caller of its request, under the caller's
  id, once; what was delivered gets its answer.
- local sockets: what is registered is served; the lock that is held over writes
  closes no circle; what an app has closed is forgotten.
- cloud link: every message is handled at most once, in order, and none is lost
  because of its neighbours in a read.
- Lua: the lock around the script is given back, whatever the script publishes.
- MQTT: nothing precedes CONNECT, online means acknowledged, senders return, a
  lost connection is replaced.
- Z3 and Zigbee: Z3 is back until it is killed and never after; sessions do
  not mix, leave nothing behind, and end.
- central: who reaches the agent reaches the service, through kills and
  restarts; what is published is what was asked; connections close in pairs.
- cache: no answer that stands in for the cloud is older than one given before,
  and none is forgotten while the file is whole and can be written.
- what is taken apart by hand (ids, statistics, status) says what was put in.

## The modules

| Module | What it is | Uses |
|---|---|---|
| `Mangle` | the marks table, as operators | |
| `Tickets` | abstract specification: a cloakroom | |
| `MarksTable` | the table with any callers; implements `Tickets` | `Mangle` |
| `MarksProofs` | theorems about it | `MarksTable` |
| `Router` | router, local sockets, cloud link, hooks | `Mangle` |
| `RouterInv` | the inductive invariant `Linked` | `Router` |
| `RouterProofs` | theorems about the router: answers go home, and once; acknowledgements follow reports | `RouterInv` |
| `MCRouter` | constants and symmetry for TLC | `RouterInv` |
| `Links` | the connections' read-write lock, blocking writes, `conn0` | |
| `LinksProofs` | theorems about them | `Links` |
| `MqttClient` | MQTT worker, `ClientConn`, publishers, broker | |
| `MqttProofs` | theorems about worker, connections and publishers | `MqttClient` |
| `Script` | the script's lock, its hooks and its MQTT handler | `MqttClient` |
| `Z3` | the child process and its lines | |
| `Zigbee` | TCP access, serial port, descriptor table | `Z3` |
| `ZigbeeProofs` | theorems about Z3 and the sessions | `Zigbee` |
| `Central` | take-over of the socket, proxy | |
| `CentralProofs` | theorems about them | `Central` |
| `Cache` | cache and store | |
| `CacheProofs` | theorems about them | `Cache` |
| `CloudStream` | the cutting of the cloud's byte stream | |
| `Serial` | the parser of the kernel's table of serial ports | |
| `Ids` | message ids between text and int | |
| `Status` | the hooks around `local.query_status` | |
| `Inputs` | the four above, side by side | |
| `MCInputs` | messages of the cloud for TLC | `Inputs` |
| `InputsProofs` | theorems about the four | `Inputs` |

Operators with a comment that begins "Fault:" are what the code might have been:
each stands before the definition it would replace and `PROJECT.json`
("mutants") names the property that notices.

### Marks table

`MarkMessage`, `FindMessage` and one round of `MarksWorker` each hold `markMu`,
so each is one step.  Go messages are maps, and the table keeps a reference to
the map whose id the next statement overwrites; so `marks[i].msg` carries the
swapped id and only `marks[i].id` the caller's.  `mangle.go:45` makes the map in
the goroutine of `MarksWorker`; a message marked before that would meet a nil
map.  `internal/miio` sleeps half a second first, and the model takes the table
as made.

### Router

A goroutine is a worker: one per connection, one for the cloud, and that of MQTT.
It handles a message in three steps, between which all others run: *route* (what
`miioRequest` does up to the hooks), *patch* (hooks and `MarkMessage`), *send*;
or, for a response, *route* and *respond* (`miioResponse`, all hooks, one write).
`uid` in a message says which call it belongs to; it is not on the wire and no
guard reads it.  Three more variables are history only: `answers`, what was written
as a response and to whom; `delivered`, how often for each call, where every write
counts; and `mistaken`, the calls of which a message came back, or went out, under
the id that its caller had chosen (`OwnId`) and was taken for a response because a
mark with that id was outstanding.  Callers may choose any id, so this happens, and
the properties say what still holds then.

Of a message the model keeps id, `_to`, `_from` and method.  `_to` is a mask, the
sum of addresses; it is a set here, and a key `_to` that is there with the value
0 differs from one that is not (`hasTo`).  A receiver replies with the id it got
and, when `_from` was there, with it as `_to`; that is how apps behave that use
`_from` at all.  A request by `_to` from MQTT carries `_from: -1`, so its reply
comes with `_to: -1`, which `Atoi` reads as 0, and goes astray: `RouterServed`
therefore has no such commands, `RouterConns` has.  Registering is by method.
The hooks are `May`: "prevent", "answer" (`miio_send` and prevent), "rewrite",
"replace" (a response built from `req.id`, as `README.md:164-169` shows).
"hangup" lets peers leave, "sweep" lets `MarksWorker` run.

In `Router` `sendToCloud` is one step, `mu` is held by no step for longer than
the step, writes do not block, and MQTT is online.  What that leaves out is in
`Links` and `Script`.

### Local sockets and cloud link

`Links` has the same goroutines without their messages: what matters is who holds
`mu`.  A sender takes it to read (`RLock`), looks up the connections, writes to
them one by one (`Picks`, `Write`), each write waiting for room in the socket, and
lets go.  A writer first keeps new readers out (`Announce`), then waits for those
inside (`UnderLock`); its `Unlock` lets in all who waited meanwhile.  That is how
`sync.RWMutex` is made, and why one blocked write can hold up everyone.  A socket
is a number of unread messages.  A hang-up makes writes to the connection fail.
`conn0` is read by `CloudCheck` and again by `CloudWrite`, with the steps of
`cloudWorker` in between.

`CloudStream` has the bytes: a message is a string of braces and other letters,
TCP may return any prefix of what has come, and a read is cut at each `}{`
except one at its very beginning (`i > 0`).  A piece is handled when it is just
one message.  A number in each byte says which message it belongs to; only
`Parses`, which stands for `json.Unmarshal`, looks at it.  `Round` is one turn of
the loop, and `Handled` as many as the read has bytes.

### MQTT

Labels of `pc` follow `internal/mqtt`'s `worker` from dial to dial.  A job of
`Connect` or `Subscribe` goes through `sync` and waits for its receipt; one of
`Publish` does not.  `reader` is the reader's step: reading, holding a packet
that it has to hand over, gone.  Payloads do not matter; `incoming` is a count.
`Publish` is three steps (check `online`, read `conn`, send), and sending on a
closed channel sets `panicked`, which stops the process.  `Dial` waits for
publishers that have checked `online` but not read `conn`, because `Init` sleeps
10 s between two dials.

`Script` adds the interpreter's lock.  Each publisher is a goroutine of miio in a
hook of the script, which publishes with the lock in hand; the handler that
`MqttClient` calls replies is `mosquitto_sub`, and the worker needs the lock for
it.  A script may have no `mosquitto_sub`, and an error in it ends the process
(`L.Call`).  What a script makes of a message is in `Router`; `miio_send` from a
hook, which writes to sockets with the lock in hand, is not composed with `Links`.

### Z3, Zigbee, serial port

A line is known by its number; `ReadLine` returns a slice, modelled as the
place in the buffer, and `Encode` finds whatever is in that place.  `Z3Kill` is
a part of `Accept` in `Zigbee` and free in `Z3` on its own.  The descriptor
table gives out the lowest free number, to sessions and to the sockets of the rest
of the agent (`Rest`).  A `read` holds its file even when the number is closed, and
returns nothing, without an error, also from a socket that its peer has left; the
goroutine passes over that and reads again (`ReadReturns`).
`WriteSerialFails` stands for an error of `ser.Write`; that the chip stops
taking bytes (hardware flow control) and blocks the session for ever is not
modelled.  The counters `Z3Uptime`, `TcpClients` and so on are left out, except
`Z3Starts`, which numbers the processes.

### Central

`node` holds the two socket files: absent, dead (nobody listens), or by whom.
`Rename`, `Remove` and `Listen` are steps of their own.  A connection has two
goroutines, each of which reads from one peer and writes to the other (`up`, `down`).
A `Cut` end is one that was closed or whose peer has left.  A write to an end that is
not cut takes until the peer has room for it (`UpWrite`, `DownWrite`), which a peer
that does not read never makes; responses are not counted.  A
copy of a request is published, except for `local.get_gateway_role` (`Quiet`).
Apps that connected to the service before the agent took over are not modelled.

### Cache and store

An entry is its key's version, and whether its intervals are corrected.  A
device has one key for `ble_query_dev` and for its place in
`ble_query_dev_list`.  All responses to the two apps come from the goroutine of
the cloud, so they are handled one at a time, but the process may be killed at
every step, and `WriteFile`, which truncates first, may leave a torn file.  A write
that fails (`WriteFails`) leaves a torn file too, when the disk is full, or the old
file, when it could not be opened (read-only disk, no descriptors); the error is
dropped (`cache_res.go:30`) and the answer goes out.  `behind` says that the last
write was of the second kind, and `lost` that the process was killed meanwhile.
Equal CRCs of two devices and `dev[:25]` of a shorter item are not modelled, nor the
two answers that keep no state (`ble_event`, `keep_alive`); `query_status` is in `Status`.

### Ids, statistics, status

`Ids`: a caller writes any id of up to `MaxText` bytes; `MarkId` reads it with
`Atoi`, which stops at nothing but other bytes and wraps with the int, and writes
the mark; `FindId` restores it.  Any number but the last may have been the last
mark.  The gateways have 32-bit processors; `MaxInt` is 31 in the runs, so that
two digits reach the limit and three pass it.

`Serial`: the kernel's counters wrap at `2 * Half` and are printed with a sign, the
errors only when there are some.  The parser walks over tokens, words and numbers,
instead of bytes; `parseLine` is one turn of its loop.
`Flagged` says that a line ends in modem flags, as those of the gateways do; a
line without them ends the parse, and the report then keeps old counters
(`InputsFlags`).

`Status`: an answer to `local.query_status` passes the script, the report and the
cache's hook, in the order in which `main.go` initialises the packages, and no
hook after one that changes it.

## The runs

Deadlock is not checked where calls, connections or versions are bounded: the
model stops when they are used up, as `CHECK_DEADLOCK FALSE` says.

| Run | Shows | Bounds | States |
|---|---|---|---|
| `MarksTable` | `CloakroomSpec` (refinement), `MarksLeave` | 3 marks, 2 ids that collide with them or not, 2 addresses | 11 k |
| `RouterCalls` | responses go home with their ids and once; what is acknowledged was reported | 2 apps (symmetric), cloud, MQTT; 2 calls under the ids 1, which the agent gives out too, and 100; 6 marks, a method registered twice, sweeps | 3.9 M |
| `RouterConns` | `ConnsServed`; `Linked` under all script actions | 3 connections (symmetric) for 2 addresses (symmetric), hang-ups, 1 call | 0.5 M |
| `RouterServed` | `DeliveredAnswered` | 2 apps, 2 calls, unicast and multicast | 0.4 M |
| `MqttSafety` | `ConnectFirst`, `OnlineAcknowledged` | 2 publishers, 2 connections, channels of 2, losses everywhere, both log levels | 0.7 M |
| `MqttServed` | `PublishReturns`, `SubscribeReturns`, `Reconnects`, `HooksReturn` | 1 publisher in a hook, with and without a handler that publishes, 2 connections, losses once subscribed | 101 k |
| `ZigbeeTurns` | sessions do not mix, end, leave nothing; Z3 is restarted, killed, reaped | 2 clients, 2 descriptors, 2 starts of Z3, 1 line, a socket | 197 k |
| `Links` | `WritesRegistered`, `HandlersReturn`, `ClosedForgotten` | 2 connections for 1 address, sockets of 1 message, any losses of the cloud | 48 k |
| `Inputs` (of `MCInputs`) | `OnceInOrder`, `WholeHandled`, `StatsTrue`, `IdsReturn`, `StatusReported` | 3 messages of up to the 5 bytes of the buffer; 3 ports, counters of 2 bits; ids of 3 bytes, ints of 6 bits, every mark; 3 turns to connected | 166 k |
| `CentralProxy` | the proxy leads to the service; publishes intact; pairs close | 2 connections of 2 requests, the second a query for the role; channel of 1; responses without end | 152 k |
| `CacheKept` | `NeverStale`, `StartsKnowing` | 2 devices, home; 2 versions; specs differ from home only in what `SpecsFixed` says | 1.6 M |

Why the bounds are enough: a wrong delivery needs two calls whose ids meet, a
stale registration two connections of one address and a third to see it, mixing
sessions two of them, a reused descriptor one more user.  A circle of waiting
over `mu` needs two connections, which write to each other or bind while the
other writes, and a full socket.  A channel of two is
full, empty and in between.  Two versions make one older.  Marks: two calls and
their stray replies take at most six, and the first of them is the id 1 of a caller.
Two requests overwrite a buffer whose first one is still queued; that the requests
published of one connection keep their order takes two that are published, and is
left to the theorem `RequestsIntact`.

Some runs are limited to what the code can stand; what it cannot is in the next
section.  `MqttServed` has losses only in and after `range` and of a script without
`mosquitto_sub`, and no more retained messages than `Incoming` holds; `Links` has
only apps that read; `Inputs` has ports with modem flags, and claims nothing of a
read that begins with `}{`; `CentralProxy` has
kills at every step but `listen`, and no restarts of the service at the second probe
and the removal.  Other properties name the exception in their text: `AnswersGoHome`,
`TrueIds` and `AckReported` what was mistaken for a response, `ClientsTakeTurns` a
goroutine that never stops reading somebody's socket, `NeverStale` and `StartsKnowing`
a kill while the file is behind.

### Fairness

- Goroutines are scheduled (weak fairness on each goroutine's steps), and not
  on what comes from outside: requests, hang-ups, accepts, losses, kills.
- `SF` on `Publish` (MQTT, and `UpPublish` in `Central`): the room in a channel
  comes and goes, but Go serves blocked senders in their order.
- `RouterServed`: an endpoint replies to what it is given.  That is an assumption
  on the apps and the cloud; without it there is nothing to deliver.
- MQTT: the broker acknowledges, while it stays.
- `SF` on taking the script's lock (`Script`) and `mu` (`Links`): Go's mutex is
  handed over to a goroutine that has waited a millisecond.  `SF` on `Write` in
  `Links`: writers to one socket queue in the runtime.
- `Links`: an app reads on (`Patient`); without that nothing returns, see
  `LinksStall`.
- `Central`: the app and the service read what they are sent, while they are there
  (`PeersRead`).  That is an assumption on them; without it (`RunningSpec`) `PairEnds`
  is false, see `CentralStall`.  `SF` on the end of the goroutine for responses: a
  peer that has left had sent no more than its socket holds.
- `Z3`: a process that was sent SIGKILL ends.  `Zigbee`: the loop from client to
  chip ends once the client has left; a read of the port returns (`VTIME`,
  3 s), one of a socket too, for the runtime's sockets do not block.

## Where the code does not do what it says

One run of the project is expected to find a violation:

- `MqttAckLost` (`Reconnects`): a connection lost while `CONNACK` or `SUBACK` is
  awaited leaves the worker waiting for ever, and the agent never dials again.
  `reader` closes two of the four channels (`pkg/mqtt/mqtt.go:743-746`, 835, 872).

The other configurations in this directory lead TLC to further counterexamples;
they are kept beside the models, to be run by hand and with any repair:

| Configuration | Property | What happens |
|---|---|---|
| `RouterCollision` | `AllAnswersGoHome` | a request whose id equals one of the agent's outstanding ids is taken for a response (`miio.go:105`), although users choose `id` freely (`README.md:69`) |
| `RouterReplaced` | `TrueIds` | the request that a script's `miio_response` sees has the swapped id (`mangle.go:14`), so `res = { id = req.id` (`README.md:164-169`) answers the caller under an id it never used |
| `RouterStray` | `NoStrayReport` | a method registered twice is delivered twice; the second reply is published on `miio/report` and forwarded to the cloud |
| `RouterRebound` | `BoundReachable` | the late close of an old connection removes the new one from `conns` (`local.go:83`) |
| `MqttRetained` | `SubscribeReturns` | one retained message more than `Incoming` holds before the `SUBACK` blocks reader and worker |
| `MqttPanic` | `NoPanic` | at level info the line `[mqtt] offline` is sent on the channel the reader has just closed |
| `MqttStall` | `Reconnects` | after a write error `out` fills up with what handlers publish, and the worker blocks |
| `ScriptStall` | `HooksReturn` | the broker goes away while the script waits, with its lock, for room in `out`: the worker waits for the lock, the reader for the worker, and no goroutine ever closes `out` (`lua.go:51`, `68`, `pkg/mqtt/mqtt.go:768`) |
| `LinksCloud` | `NoPanic` | the cloud is lost between the two reads of `conn0` (`cloud.go:51-52`): a nil dereference, in a goroutine that nobody recovers |
| `LinksStall` | `HandlersReturn` | an app stops reading: the sender to it keeps `mu`, the next bind or close waits for the sender, everyone else for the bind (`local.go:92-129`) |
| `InputsSplit` | `SplitsPackets` | a read that begins with `}{` is not cut (`i > 0`, `cloud.go:36`), and the whole messages in it are dropped |
| `InputsFlags` | `StatsTrue` | a line without modem flags has no blank after `rx`: the parse ends and old counters are reported (`serial.go:89-98`) |
| `InputsSplit`, with the other invariant | `AllIdsReturn` | an id past the largest int comes back as another (`message.go:59`) |
| `InputsUptime` | `UptimeOnline` | `cloud_uptime` stays in the report when the cloud is lost (`report.go:28-30`), which `README.md:205` calls "online status duration" |
| `Z3Lines` | `LinesIntact` | a queued line is overwritten by the next read before it is encoded (`z3.go:69`; `central/init.go:95` knows better) |
| `ZigbeeShared` | `PortNotShared` | the port is opened while Z3, sent SIGKILL, still has it |
| `ZigbeeReuse` | `ReadsSerialOnly` | between `Close` and its next `Read` the goroutine's descriptor goes to another socket, whose bytes it takes |
| `ZigbeeReuse`, with the other property | `ClientsAlwaysTakeTurns` | the peer of that socket leaves: each read returns nothing without an error, the goroutine goes on for ever (`zigbee.go:129-131`), and `wg.Wait` (164) keeps the next client out |
| `CentralCrash` | `GivesUpRightly` | after a kill between `Rename` and `Listen` the next start sees no socket and gives up, though the service listens under the other name |
| `CentralStall` | `PairEnds` | the service does not read and the app leaves: one goroutine stays in its write to the service, the other in its read of it, and the pair is never closed (`init.go:86`, `104`) |
| `CacheSpecs` | `SpecsFixed` | a spec from the cache is given without the corrections (`cache.go:50`) |
| `CacheSpecs`, with the second invariant | `AlwaysKnows` | a kill in `WriteFile` leaves a file that does not parse, and the next start knows nothing (`store.go:49`) |
| `CacheSpecs`, with the third | `NeverStaleAtAll` | the file cannot be opened, the error is dropped (`cache_res.go:30`), the new answer goes out; after a kill the old one stands in |

## What is proved

For all values of the constants, with no bound on connections, apps, calls, ids,
marks, keys, versions, publishers, sessions, descriptors or queues beyond the
assumptions that the modules name (`BoundsAssumption`, `RouterAssumption`,
`CacheAssumption`, `LinksAssumption`, `MqttAssumption`, `Z3Assumption`,
`ZigbeeAssumption`, `CentralAssumption`, `StreamAssumption`, `SerialAssumption`,
`IdsAssumption`, `StatusAssumption`):

| Theorem | Says |
|---|---|
| `MarksType` | the table is well formed, `stackTop` never passes `markID` |
| `MarksImplementCloakroom` | the table implements `Tickets` |
| `RouterType` | types of the router, and `ConnsServed` |
| `RouterLinked` | `Linked` is an invariant |
| `ResponsesGoHome` | `AnswersGoHome`: but for what was mistaken |
| `ResponsesKeepIds` | `TrueIds`, likewise, if no script replaces responses |
| `CallsAnsweredOnce` | `AnsweredOnce`, without exception |
| `WaitingIdsDiffer` | `PendingIdsDiffer` |
| `AcksAreReported` | `AckReported`: but for what was mistaken, if no script changes the method of a request |
| `NothingOldComesBack` | `NeverStale`, with kills, failed and torn writes, until a kill while the file is behind |
| `NothingForgotten` | `StartsKnowing`, likewise while no write was cut short |
| `LinksType` | types of the connections, their lock and the cloud link |
| `SendersUndisturbed` | `WritesRegistered` |
| `MqttType` | types of worker, client connections and publishers |
| `ConnectComesFirst` | `ConnectFirst`, with losses everywhere |
| `OnlineIsAcknowledged` | `OnlineAcknowledged` |
| `ZigbeeType` | types of Z3, sessions, descriptor table and readers |
| `BytesStayHome` | `OwnSession` |
| `SessionsEndWhole` | `NothingLeft` |
| `ClientsAfterZ3` | `ServedWithoutZ3` |
| `CentralType` | types of the sockets and the proxy |
| `AgentLeadsOn` | `ProxyLeads`, if the service does not restart at step `remove` |
| `GivesUpWhereNobodyListens` | `GivesUpRightly`, if the agent is not killed at step `listen`, nor the service restarted at step `probe proxy` |
| `RequestsIntact` | `PublishedIntact`, with kills and restarts at any step |
| `CloudInOrder` | `OnceInOrder` |
| `CloudSplitsReads` | `WholeHandled` |
| `StatsAreTrue` | `StatsTrue`, if every line ends in modem flags |
| `IdsComeBack` | `IdsReturn` |
| `StatusIsReported` | `StatusReported` |

The router's theorems hold whichever ids the callers choose, those that the agent
gives out included.  A message under such an id may meet the mark of somebody else
and pass for a response; `mistaken` remembers its call, and only what is
delivered of that call may be misdirected.  That it is ever misdirected is what
`RouterCollision` shows.

*The router.*  `AnswersGoHome` speaks of answers only and is not inductive: an
answer goes where the mark, the `_to` or the item of a worker says.  `Linked`
follows a call through all these places.  A request on its way to the cloud or by
method has an id the agent gave out, and *if* the mark is still there it leads to
the right call (`SwappedId`); a sweep or an earlier reply removes marks, which
makes this only easier.  A request to apps has the caller's id and address
(`SentToApps`).  A reply inherits one or the other; if it finds a mark it
becomes a response for the caller, if not it is a stray request that nobody is
told is an answer.  A new request, or the reply of an app that was named in `_to`,
comes with the caller's id; if a mark has it, the call is mistaken from
there on, its id is one of the agent's (`MistakenIds`), and its responses are
out of the count of `AnswersGoHome` - but not of `AnsweredOnce`, for they too take a
mark.  `MarksKept` says what no step does to the table: change a
mark, or give out an id again.  Every step then leaves the links of all other
messages alone (`LinksKept`, `ItemKept`), and there is one lemma per action for
the message it moves.  `RouterType` carries `ConnsServed` along, because
what `Send` writes to is typed only for connections that are bound.

*Once.*  `Linked` says whom an answer reaches, not how often.  `Once` counts: the
right to answer a call that names no apps is always with one holder (`Holders`,
`Tokens`) - the goroutine that has the request, then the mark, then the goroutine
that has the response, then the answer.  What needs care is a stray reply: it is
taken for a request and gets a mark of its own, which may be answered as well.
So `IdsTell` says that an id under which a request is on its way or waits
(`Flying`) belongs to one call, and that its mark, if it is there, was made for a
request and not for a stray reply; every reply to that id then takes the place
of a holder, or finds none.  `ByTo` keeps the replies of apps that were named in
`_to` out of the count; of those there may be several.  A request that is mistaken for
a response passes its right on to the goroutine that now has it as one.  The answers
are a set and would not show a second one that is the same; `Counted` therefore ties
the number of writes to it: none, or one and then it is among the answers, so that
nobody holds the right to another.  `PendingIdsDiffer` is
`IdsTell` read for two messages in inboxes.  For `AckReported`, `ReportsFirst`
follows the report from `miioRequest` to the mark; there is nothing to follow
when a script turns a `local.` method into another one after that, hence the
assumption `"rewrite" \notin May`.

*The cache.*  `NeverStale` compares an answer with everything given out before,
over kills.  It is carried by where the newest version is at each moment: the
cloud has it first (`CloudFirst`), the response being handled repeats the entry
(`ReplyCached`), and by the time the response goes out the file holds the whole
cache, is torn, or is behind (`FileFirst`), because `Set` returns before
`cacheResponse` does.  A file that is behind matters only to the next process, so
nothing is asked of it until a kill, and after that nothing at all (`lost`).
So an entry of the cache or of the file is absent or as new as what was given
(`NotOlder`), and while no write was cut short it is never absent (`Complete`).
The order write first, answer second is what the proof turns on, and
`WriteLater`, the mutant that answers with the file unwritten, breaks it.

*The connections.*  That a sender writes only to connections that stand in the
table would be plain if it held `mu` alone.  It does not: it is one of several
readers, a writer may already have announced itself, and that writer's `Unlock`
lets in readers with the table it has just changed.  `InsideSends` is the
missing part: who is inside as a reader is sending, and who is not has nothing to
write.  So a writer's update meets no reader (`UnderLock` waits for the last), and
the readers it lets in find what it wrote.  With a lock that does not wait
(`UnderLockAlone`) the theorem fails.

*MQTT.*  The state of a connection is spread over two channels, the wire and the
broker.  `Sound` ties them: a `CONNACK` on the wire or in the reader's hands means
that the broker has acknowledged, and before that `out` holds nothing but
`CONNECT`.  `OnlineThere` lists the steps of the worker at which `online` is set;
`PublishersMay` says the same of others, who have read `online` some steps ago: who
has checked may send on the present connection, who is about to send may do so on
the one it has read.  A new connection dialled between a publisher's check of `online`
and its reading of `conn` would break this; the worker sleeps 10 seconds before it
dials, and the guard of `Dial` says that by then nobody is between the two.

*Zigbee.*  Sessions follow each other, so only the one that is served has an entry
in the descriptor table (`Port`) and a goroutine (`Turns`).  A read that is going on
holds the session's own file or a socket of the rest of the agent (`OwnRead`): after
`Close` the number may be given out again, but to no session before `Join`.
That the lowest free number exists when one is free, is the well-ordering of
`Nat`.  For `ClientsAfterZ3`, `Told` says that a `z3stop` that is set finds no process
alive: `z3kill` signals it under the same lock under which the worker starts one.

*Central.*  `Sockets` says where the service listens while the agent takes its
place, and `LeftBehind` what a kill leaves to the next start.  Each theorem
excludes exactly the steps at which the code loses the service, and TLC
finds a counterexample with any of them: a restart before the removal (`Remove`
takes the new socket away), a kill between `Rename` and `Listen` (`CentralCrash`), a
restart between the probes.  `RequestsIntact` needs none of that.  Its invariant
counts per connection: no request later than the one in the buffer has been
published, and none later than the one before it while the goroutine is about to
publish (`Reads`).  So what is appended to the channel is later than all that is in
it or has been encoded (`Orderly`), and the copy keeps it as it was.  With the
buffer itself in the channel (`EncodeBuffer`, a mutant) it is lost.

*The stream of the cloud.*  The bytes that are still to come carry no trace of
where they stood, so the invariant says that there are offsets: `Placed` gives each
message sent a place `pos` in what has not been read, possibly before its first byte,
such that the bytes there are its letters in order (`Laid`), and every message handled
ends before that.  A read takes a prefix, and the offsets move down.  For the loop
over a read, `Reached` says that the rest begins at a byte `f` and that what has been
handled ends before it (`Taken`).  A cut falls at a `}{` or at the end of the read.  There
is a `}{` wherever two messages meet (`Boundary`), and any other lies inside one
message, which then is not plain (`Inside`).  So a cut never
falls inside a plain message, and when the rest reaches a plain message, at its first
byte, the next cut is behind its last one (`CutIs`).  A read that begins with
`}{` is not cut there; that is the hypothesis `Index(last) # 1` of `WholeHandled`,
which `InputsSplit` shows to be needed.  Each message begins with
`{` and ends with another byte `}`, as `StreamAssumption` says.

*The statistics.*  `Text` has three lines, each of 10 or, with errors, 13 tokens, so that
an errors field in one line moves all that follow.  `LineIs` says what stands where
in one, `RestIs` what the parser finds when it stands before one, `parseLineIs`
that one turn of the loop yields the three counters of that line and leaves the text
behind them.  Three turns yield nine, and those after them give up (`parseSerialIs`).  A counter comes
back from its sign because `Signed` and `uint32` undo each other (`SignedIs`).  The
hypothesis `Flagged = TRUE` is what the gateways' kernels print; `InputsFlags` shows what
happens without it.

*Ids.*  `Atoi` computes with wraps, `Value` without; as long as the value of the text
fits an int no wrap occurs, also not in between (`ReadValues`).  `FormatInt` writes
digits whose value is the number (`ValueOfDigits`), so the mark is found under what
was written for it (`AtoiFormatInt`); and of the value of a text without leading
zeros it writes that text (`FormatIntAtoi`), prefix by prefix.

*The status.*  `StatusInv` says what the hooks owe each other while an answer is on its
way: from the moment the script lets it pass until the report has seen it (`Unheard`),
the report is one answer behind; at all other times `cloudState` is what was said.

*Loops and recursion in these proofs.*  The library's induction theorems take an
operator, which none of the provers here can instantiate, except that of the least
element of a well-founded relation, which takes a set.  From it come `Induction` (a set
with 0 and every successor holds all naturals) and `Recursion` (a function defined by its
value at 0 and a step, given as a function, exists).  `Read`, `Values`, `Digits`,
`Rounds` and `Lines` are functions on `Nat`, not `RECURSIVE` operators, so that what they
compute can be proved.

The types, `Linked`, `Once` and `ReportsFirst` were checked with TLC before the
prover was asked, which found the mistakes in earlier versions of them.  The runs
keep `Linked` and some of the types; the other inductive invariants are only proved.

Every invariant and every action property of the runs that pass is proved.  Only
model-checked: liveness (`MarksLeave`, `DeliveredAnswered`, `HandlersReturn`,
`ClosedForgotten`, `PublishReturns`, `SubscribeReturns`, `Reconnects`, `HooksReturn`,
`ClientsTakeTurns`, `Z3Ends`, `Z3Returns`, `PairEnds`), which TLAPS does not do under
fairness.

## Not modelled

- `pkg/mqtt`'s `Server`: a broker that the agent does not run.
- `internal/app`: arguments and firmware version, read once.
- `main.go` beyond the order of its calls; loading the script.
- `internal/mqtt`'s patching and starting of mosquitto, terminal settings of
  `pkg/serial`, the contents of EZSP frames: input and output without state.
- JSON, logging, wording.

## Plan

Done: marks table, router, local sockets and cache with proofs; script; MQTT, Z3,
Zigbee and central, also with proofs; cloud link, ids, serial statistics and cloud
status, with theirs.  Next, in this
order:

1. `Script` composed with `Links`: `miio_send` holds the script's lock while it
   waits for a socket.
2. Abstract specifications for the cache and the connections, with proofs that the
   modules implement them, as `MarksTable` implements `Tickets`.
3. The interval rules of `patchBLEProd` over bounded specs, with `ble_event`.
4. A restart of the whole agent over `Central`, `Cache` and `Router` together.
