# A TLA+ verification project for vmqant

vmqant is a Go framework for distributed game servers (a fork of mqant). A process runs an *app*
that owns *modules*; a module is also an RPC service that registers itself in a registry and is
called by other processes over NATS; *gate* modules hold the client connections (MQTT over TCP or
WebSocket) and turn packets into RPC calls.

## 1. Inventory

| component | state | operations | interacts with | hard behaviour |
|---|---|---|---|---|
| RPC client `rpc/base/rpc_client.go`, `nats_client.go` | `callinfos` (locked map, field set to nil by Done), one callback channel per call, subscription, `done`, `isClose` | Call, CallNR, receive loop, timeout, Done | NATS, app.serverList | answer racing the timeout, Done racing calls and answers, resubscription |
| RPC server `rpc/base/rpc_server.go`, `nats_server.go` | function table, WaitGroup, `executing`, goroutine slots, subscription | receive loop, runFunc, _runFunc, error callbacks, Done, Shutdown | NATS, listener and hooks of the application | panics on every level, replies on every path, drain on shutdown |
| service and server `service/service.go`, `server/rpc_server.go` | `registered`, ticker, RPC server | ServiceRegister, ServiceDeregister, run, Stop | registry, module | heartbeat racing deregistration |
| selector cache `selector/cache/cache.go` | cache, ttls, watched | get, update, watch, Close | registry, app.Watcher | stale entries, lost and reordered events |
| app `app/app.go` | serverList (sync.Map of sessions) | GetServerBySelector, GetRouteServer, Watcher | selector, RPC client | two callers creating a session, removal racing use |
| modules `module/base/*` | module list, closeSig, WaitGroups | Register, Init, run, Destroy, timer loop | app | stop order, a module that panics |
| registries `registry/*` | registered hashes, leases, watchers' node lists | Register, Deregister, Watch, Next | consul, etcd, kubernetes | diffing snapshots into events |
| gate `gate/base/*` | sessions, agent number, session settings | Connect, Bind, Set, Push, DisConnect, OnDestroy | RPC, network | connect and disconnect events out of order |
| MQTT codec and write queue `gate/base/mqtt/*` | connection buffers, `fch`, status | ReadPack, WritePack, Flusher, Close | network | close racing writers, length arithmetic, a connection that breaks off in a pack |
| timer `module/modules/timer/timingwheel.go` | slots, position, key table | AddTimer, AddTimerCustom, RemoveTimer, tick | application | rounds and positions |
| network `network/*` | connection sets, WaitGroups | accept, close | gate | accept racing close |
| utilities `utils/*` | ring buffer, safe map, encodings | Add, Remove, resize, base62 ... | all | index arithmetic |

What each part has to get right, and the module that says so:

| component | correct means | module |
|---|---|---|
| RPC client | every call with a deadline returns or panics with its map gone; an answer reaches its caller or nobody; what ends the receive loop is known; no entry stays behind | `RpcClient`, `RpcClientProofs` |
| RPC server | exactly one reply to a request is tried on every path; its slot is given back; only named causes end the loop; shutdown completes | `RpcServer`, `RpcServerProofs` |
| service, consul and etcd registry | a running node is found, a stopped one is gone | `RegistryClient`, `ServiceLifecycle` |
| app.Run, module manager | modules stop before the timer they use; what can make the close hang is known, and a process that dies leaves nothing for ever | `Application`, `ApplicationProofs` |
| consul watcher, selector cache, app sessions | the cache follows the registry; a session is closed exactly when its node left | `ConsulWatcher`, `Discovery`, `DiscoveryProofs` |
| time wheel | timers fire on time and once; removing finds what it names | `TimeWheel`, `Timers`, `TimeWheelProofs` |
| gate connection and write queue | no session, goroutine or accepted pack is lost, however a connection ends | `PackQueue`, `MqttConnection`, `MqttConnectionProofs` |
| MQTT codec | what is read is what was written, pack by pack | `MqttCodec`, `MqttCodecProofs` |
| gate sessions | what is stored for a user is what the session holds | `GateSession`, `GateSessionProofs` |

## 2. Modules and the code they stand for

Each module names its files in its header, `PROJECT.json` maps every definition to its lines.
Actions keep the names of the functions (`DoneClose`, `ShutdownAwait`, `FlusherTake`,
`ImportSettings` ...). A step is what no other goroutine can observe half done: one operation on a
channel, on a mutex-protected structure, on a field shared without a lock, or one call to an
external service. Arguments, payloads, log output and wording are left out.

- **`RpcClient`** - one `NatsClient` with its callers, its receive loop, the helper goroutine that
  waits on `done`, and `Done`. `callinfos` is the locked map, `mapNil` the field `Done` sets to nil,
  `full` and `closed` the state of the callback channels (capacity one). Answers may be lost,
  late, or duplicated up to `MaxReplies`; the NATS connection may be lost and the loop then
  subscribes again. If that fails the field is nil, and the next round of the loop panics on it and is
  the last. A caller that meets the nil map panics in its own goroutine: it is `panicked`, not
  `returned`.
- **`RpcServer`** - one `NatsServer` and `RPCServer`. What a request will meet (missing function,
  refusal, a panic before or after the reply, a hook that panics, inline or `RegisterGO`) is its
  profile, chosen in `Init` with the goroutine limit (`Settings`); the deferred functions run in Go's
  order (`DeferWg`, `DeferFinish`, `Rescue`, `Recover`). A reply that does not encode or publish is
  counted in `unsent`. A subscription is nil after a failed attempt, as in the client. The WaitGroup
  (external) panics when `Add` meets the release of `Wait`.
- **`RegistryClient`** - `Register` and `Deregister` of the consul and the etcd registry, call by
  call: the hash and the lease the client has saved, and what the registry (external) holds. A
  consul entry turns critical and disappears when its TTL runs out, an etcd key goes with its
  lease. Every call may fail, before or after it had its effect. **`ServiceLifecycle`** is one
  module as a service on top of it, with three goroutines that register. **`Application`** is the
  process around it: `Run`, `ModuleManager` and `DefaultModule` with a timer, the service and other
  modules before and after it; `Init` and launch in one order, signal, wait and `OnDestroy` in the
  other; a `Run` of a module that panics; a `Done` of the RPC server that does not return (`InDone`);
  the close timeout that ends the process; and a crash at any step.
- **`ConsulWatcher`** - the two plans of a watcher (external library) calling `handle` and
  `serviceHandler`. Services are heap objects with identity, because the code sends a pointer and
  keeps it. **`Discovery`** composes it with the selector's cache and watch loop, the callback
  into the application under the selector's lock, and `serverList` with the lookups that fill it.
  The callback closes a session with `Done` of its RPC client, which may never return (`InDone`).
- **`TimeWheel`** - slots, turns, key table and position, with time in milliseconds.
  **`Timers`** is the abstract specification: plain countdowns, no wheel.
- **`PackQueue`** - `WritePack`, `Flusher` and `Close`, with the channel `fch`, the write lock and
  the mutex of the TCP connection. A flush, and a `WritePack` the buffer has no room for, write to the
  network with the lock held. **`MqttConnection`** composes it with the goroutine that runs the
  agent, its workers, the handler's session map and a gate that stops.
- **`MqttCodec`** - `DelayWritePack` and `ReadPack`, one step for each read of the stream. The bytes
  the codec decides on (fixed header, digits of the length, lengths of strings, the flags of
  CONNECT) are on `wire` with offset, width and value; everything else is content of a certain
  length. So a pack of 2^21 bytes costs as much as one of 3, and the packs have their real sizes.
  A reader that takes content for a number is `lost`, and not followed further. Clients
  (external) lay packs out as MQTT says; `own` packs are those of `DelayWritePack`.
- **`GateSession`** - a session at the gate, the copies other modules hold, the calls between them
  and the handlers of the gate, one access to the session per step, and the `StorageHandler`
  (external). `Query` is one step, `Storage` two, since the gate holds no lock when it calls it: it
  reads the session (`Snapshot`) and later writes what it has read (`Stored`, `NotStored`). A caller
  that timed out makes its next call while the first handler is still at work.

Modules named `MC...` only give the constants values, modules named `...Proofs` hold the theorems of the
module they extend.

## 3. Runs

| run | instance | shows |
|---|---|---|
| `rpc_client` | a call with a deadline, one without, one `CallNR`; two answers to the first | no answer blocks the loop, no entry leaks, "client closed" only after Done, what ends the loop; the call with a deadline returns, or panics after Done dropped the map; Done wakes whoever waits and stops the loop |
| `client_late_reply` (violation) | one call, one answer | section 6, first item |
| `rpc_server` | a request of every profile next to a plain one, with one goroutine slot; next to a plain one in a goroutine, with two | one reply tried and one run, which slots leak, what kills the loop or the process, quiet after Done; requests served and shutdown completes |
| `server_done_waits` (violation) | two plain requests | section 6, second item |
| `application` | four modules (timer, a module, the service, a module), over consul and over etcd; every registry call may fail, any Run may panic, the process may crash or run into its timeout | what may be left in the registry after a stop; found while running, gone in the end; the wheel outlives the modules that use it; only a Run that does not return, or the Done of the RPC server, makes the close hang |
| `discovery` | one node, one goroutine that looks up, two changes from outside (in the agent, or Close), or a reload at any time with a second watcher | a closed session is listed only while it is being removed; the cache converges and Close ends the loop, unless the Done of a session does not return |
| `discovery_closed` (violation) | two nodes, one leaves | section 6, third item |
| `time_wheel` | three timers, three slots of 2 ms, delays within, of and beyond a turn | on time, table exact, all fire, implements `Timers` |
| `gate_connection` | reader, flusher, one more writer, capacities one | no leak of session, pack or goroutine, apart from the named exceptions (`Jammed`, `Stalled`, `Crashed`); a gate that is told to stop does |
| `codec` | two packs in a row out of 52: every type, both sides of each boundary (64, 127, 16383, 65535, the limit, 2^21), broken off before or inside any field | the reader stays at the boundaries of packs, returns what was sent, fails only at the end of the stream or at a pack beyond the limits, and waits for nothing that does not come |
| `gate_session` | one session, one copy, two users, two handlers at work | the stored settings are current, unless the last Storage failed or overlapped with another |
| `set_push` (violation) | two copies, two keys | section 6, fourth item |

**Bounds.** The hazards are between two goroutines, or between one goroutine and one event (timeout,
Done, Close, a lost connection), so each run has two of the kind that compete: two calls, two
requests, two writers, two handlers. Lookups that race each other are left to the proof: `discovery`
has one, racing the watcher, and `NeverFindsClosed` holds for any number. Two answers are the
smallest number with a duplicate. Capacities (`fch`, `agent.ch`, the watcher's channel, the
goroutine limit) are one or two so that full and empty both happen. Three timers in three slots give
a list with two members, one before and one after the position. Two changes let a node go and come
back, or go while the selector is closed; a reload is the only change of its run, so what Close does
after one is not covered. Four modules are the least with a
module before and one after the service, beside the timer, which is the first. Two
packs show a reader that left the first one at the wrong place. `MaxReplies`, `MaxTimers`,
`MaxChanges`, `MaxSent`, `Calls`, `Objs`, `Leases`, `Sessions` of `Discovery` and `Helpers` are
bounds of the models, named where they are declared. Symmetry is used for keys and call identifiers
of `gate_session` only, which has no temporal property; the view of `MCDiscovery` drops unreachable
heap objects, and only runs without liveness use it.

Deadlock is not checked where the system may really stop: clients and servers after Done, a
process that has ended, a stopped wheel, a finished connection or stream.

## 4. Fairness

- Weak fairness for every goroutine: the Go scheduler runs whatever can run. Timers and tickers
  fire (`CallExpire`, `Elapse`, `OverTime`, `Expire`).
- Strong fairness where a goroutine competes for a mutex or a channel: Go hands both to waiters
  in turn (`Write`, `Send`, `CloserRun`), and a `select` with two ready cases takes each of them
  in the long run (`HeartbeatExit`).
- Calls to a registry return (the code gives some of them no deadline, `KeepAliveOnce` among
  them), and a heartbeat repeated for ever succeeds again and again. Nothing is assumed of
  the `Run` of a module or of the `Done` of an RPC server (`wg.Wait` and `Shutdown` have no
  deadline, and by `RpcServer` may wait for ever), and the close timeout need not come before the modules have stopped.
  `CacheConverges` further assumes that servers are looked up again and again; nothing is assumed
  of the `Done` of an RPC client that the selector's callback waits for.
- A write to the network ends, or a pack is read: the connection has a write deadline, but
  every pack read moves it (`pack_queue.go:180`). So only a client that never stops sending can keep
  a write waiting for ever. That is `Stalled`, which `WriterReturns` and `GateStops` except.
- Nothing is assumed of clients, callers, remote servers or the network: no call has to be made
  or answered, no client has to speak, nobody has to call Done or Close.

## 5. What is proved

TLAPS proves, for every value of the constants, all the invariants the runs check, an action
property and the refinement. Each proof module has the same shape: an invariant `IndInv` (`IInv` in the codec)
that every step keeps, lemmas with one step per action, and theorems that follow from it. TLC
checked each of these invariants on the instance of the run first.

| module | theorem | states | assumes |
|---|---|---|---|
| `RpcClientProofs` | `TypeCorrect`, `NeverBlocks`, `DeathCause`, `NoLeak`, `ClosedByDone` | `TypeOK`, `ReplyNeverBlocks`, `LoopDeathCause`, `NoEntryLeak`, `ClosedOnlyByDone` | `CallsAssumption` |
| `RpcServerProofs` | `TypeCorrect`, `Answered`, `LeakCause`, `Deaths`, `NothingAfterDone`, `Limited` | `TypeOK`, `AnsweredOnce`, `SlotLeakCause`, `DeathCause`, `QuietAfterDone`, `HandlersBounded` | `ServerAssumption` |
| `ApplicationProofs` | `TypeCorrect`, `Deregistered`, `WheelLast` | `TypeOK`, `StoppedIsDeregistered`, `WheelOutlivesModules` | `RegistryAssumption`, `LifecycleAssumption`, `ApplicationAssumption` |
| `DiscoveryProofs` | `TypeCorrect`, `NeverFindsClosed` | `TypeOK`, `ClosedOnlyWhileRemoved` | `WatcherAssumption`, `DiscoveryAssumption` |
| `TimeWheelProofs` | `TypeCorrect`, `Table`, `OnTime`, `Refinement` | `TypeOK`, `TableExact`, `FiresOnTime`, `ImplementsTimers` | `WheelAssumption` |
| `MqttConnectionProofs` | `TypeCorrect`, `Forgotten`, `Promise`, `Limited` | `TypeOK`, `NoSessionLeak`, `FlushPromised`, `WorkersLimited` | `QueueAssumption`, `AgentAssumption` |
| `GateSessionProofs` | `TypeCorrect`, `StorageKept` | `TypeOK`, `StorageCurrent` | `SessionAssumption` |
| `MqttCodecProofs` | `CodecReadsBack`, `LengthReadBack` | `ReadsBack`; what the reader makes of the digits of a length | `PacksAssumption` |

The assumptions say what kind of thing a constant is: sets, natural numbers that are not zero, a name
for "none" outside its set. Beyond that, `ApplicationAssumption` puts the service after the timer, which
is the first module, and `WatcherAssumption` has finitely many versions and Service objects, and at least
one version: `Fetch` compares their numbers. `PacksAssumption` says which packs there are: the gate writes
the types `DelayWritePack` knows, and lists with a topic at least; the strings of a client's pack fit the
16 bits MQTT has for their length, and its CONNECT has the strings its flags announce; no pack has 2^28
bytes, which `getRemainingLength` cannot encode. TLC evaluates it for the packs of the run.

**RPC client.** For any set of calls, any choice of those with a deadline and any number of answers. None
of the invariants is inductive alone: whether a send can block depends on who else may still
send, and that on what the loop holds in its hands. `IndInv` adds to the types and the properties

- `PhaseInv`: what the position of a caller says of its channel and its entry,
- `HandOverInv`: the loop holds an entry between Get and Close, and nobody else fills its channel,
- `CloseInv`: who may have closed a channel (timeout, hand-over, Done), and how each shows.

**RPC server.** For any number of requests, of any profile, and any limit. `AnsweredOnce` counts replies,
but which replies may still come depends on how far the request has got and whether it unwinds a
panic. `IndInv` says at each label of `runFunc` and `_runFunc`

- `Answers`: how many replies were published or tried in vain, and whether the handler ran,
- `Waiting`: one request at a time is about to release Done from `wg.Wait`, and what it means if the
  count has moved since,
- `Unwinding`: whether a panic is under way, and which kinds of request get as far as this label,
- `Slots`: who holds a goroutine slot and who is counted in the WaitGroup,
- `Owner`: the receive loop is inside `runFunc` exactly when it has a request, and it has every
  request that is not in a goroutine of its own. With `Returned` (Done returns after the loop) this is
  the reason why nothing moves after Done,
- `Bounded`: no more slots are taken than there are. `Limited` follows by counting: handlers that run
  hold slots.

**Application.** For any number of modules and any place of the service among them. What an entry in the
registry says depends on who may still be inside `Register`: `Callers` says that each of the three
goroutines is there only while its label says so, and that the service is up until it has ended.
`Stopping` follows `Destroy`, module by module from the last to the first: what comes after the
one it is at has returned, and the timer, the first, is signalled last. What the operations of the
registry clients do to the entry is stated once (`RegisterEffect` to `ExpireEffect`), for both of them.

**Discovery.** For any number of nodes, lookups, sessions and changes: a session that `serverList` finds
for a node is open, unless the watcher has just closed it and is about to delete the entry. Two
lookups that both miss and both store are what makes this worth proving. `SessionInv` says where each
goroutine stands: a lookup that is to store a session holds one of its own that is open, and the
watcher closes and deletes one node at a time. `TypeOK` concerns the watcher and the selector. Results
carry pointers, so its invariant `Types` has the whole of every record, with the results that are
still to be sent (`out`) and those not yet taken (`next`); `PutResult` and `TakeResult` are the two ends of
the channel, and `InjectionExists` the reason why `Fetch` finds objects for all versions.

**Time wheel.** For every number of slots, interval, delay and number of timers. All of it rests on one
number per timer, `Left`: turns times slots plus the distance of its slot from the position. It
is the delay in ticks after Add (`LeftAdd`, from the uniqueness of quotient and remainder), one less
after each tick (`LeftTick`), and zero exactly when the timer is due (`DueIsZero`). Then each step of the
wheel is a step of `Timers` or none, which is `Refinement`. `OnTime` needs `WillFireOnTime`, which
says of a pending timer how late it will be when the ticks left to it are over. `Table` needs `Lists`: exactly
the pending timers are in a slot, and two of them have one identifier only if it was given away while
in use.

**Gate connection.** For any number of writers and any capacities of `fch` and `agent.ch`. `Known` pairs
Connect and DisConnect of the handler with the label of the agent's goroutine; `Outside` says that a
goroutine leaves WritePack and Close before it does something else, `Before` that Flusher does not run
before Listen_loop. `FlushPromised` is then inductive: a writer buffers data and becomes the one that
is about to send a token in one step, and the token is taken only by a Flusher that goes on to flush.
`Bounded` counts the workers.

**Gate sessions.** For any number of sessions, copies, users, keys and calls. `StorageCurrent` speaks of
a session nobody works on; what holds before is `CurrentFor`, which is inductive together with the
types and `ReqInv` (what the label of a handler says of its request: only Bind and UnBind set the
user, UnBind to none). It says of a bound session: once no handler is left that has yet to read it for
Storage, some Storage under way carries the session as it is (`Carries`), or none has read it since the
last one ended (`NoneSince`), and that one failed, overlapped with another, or has stored the
session (`Kept`). The argument: steps outside the gate touch no session (`OutsideStep`); a handler of
another session can only make that session the last to store for the user (`OtherStep`); of this
one, the last handler that changes it either reads it for Storage or sees no user, and a Storage that
ends makes all those still under way late (`OwnStep`).

**Codec.** `LengthReadBack` is about the operators: for every length below 2^28, the reader goes on after a
marked digit and stops at the last or the third, and what it has added up is the length modulo 2^21
(`DigitSum`, from the quotients by 128). The run tries the lengths next to the boundaries only.

`CodecReadsBack` is about the whole codec: for any packs with any number of strings of any length, any number
of them on a stream, any limit, and a connection that breaks off anywhere. It has three parts.

- *Layout.* Where each number of a pack stands is a sum over a sequence of items (`Bytes`, `Offset`,
  `FlattenSeq`), so its facts go by induction over the sequence. `Induction` is the principle, for a set
  of numbers, from the least element of the numbers outside the set (`NatLessThanWellFounded`); `FoldExists` and
  `FlatExists` use it to show that the functions which the folds of the library choose exist. `BytesConcat`
  and `FlattenAt` then give `BodyConnect`, `BodyPublish`, `BodyList` and `BodyPlain`, type by type, and
  `LayoutFacts`, with the header before the body.
- *Stream.* `Stream` says that the packs lie one behind the other, only the last may be cut off, and every
  number of each is on the wire where its layout has it. It is inductive by itself (`StreamNext`).
- *Reader.* `Reading` says where ReadPack may stand within a pack, and what it knows there: after so many
  digits, at the body, at the flags of CONNECT, at the string that so many precede, at the message, at
  a topic. Nothing less is inductive: that the reader ends at the boundary of a pack depends on all
  it has counted on the way, such as `playload_len`, which leaves the two bytes before each string out
  (`NextAnnounced`: it never makes ReadPack skip a string the flags announce), and `vlen`, which is compared
  with 3 (`ListSizes`: in packs that are `Framed` the loop ends exactly behind the last topic). One lemma
  per step (`StepFixed` to `StepCut`) shows that the reader gets to the next such place, returns the
  pack, or fails for one of the reasons `ReadsBack` allows; `NotLost`, that it takes no content for
  a number; `Enough`, that it waits for no byte behind the pack.

The proof found one flaw of the model: the cases of `NextString` overlapped, where the code has one `if` after
the other. TLC takes the first case that applies, so the runs had checked what the code does, but the
formula allowed more.

**Only model-checked:**

- all liveness: fairness and ENABLED are outside the prover's logic;
- the runs that are expected to fail, which are about single behaviours.

## 6. Where code and text disagree, and exceptions the properties name

Shown by a run that is expected to fail:

1. **A late answer can end the receive loop** (`client_late_reply`). `nats_client.go:200` takes a
   late answer to be harmless. If the timeout closes the channel between Get (191) and the
   send (196), the send panics, the recovery ends the loop, and every later call times out.
   `DeathCause` proves that nothing else ends it but Done and a resubscription that failed.
2. **Done returns before requests do** (`server_done_waits`). `rpc_server.go:125` promises to wait;
   `wg.Add(1)` is made in the new goroutine, and the subscription is closed after `wg.Wait`.
3. **Sessions of nodes that never left are closed** (`discovery_closed`). `consul_watcher.go:165`
   reuses a Service object that may still be queued as an earlier event; see `app.go:307`.
4. **SetPush is not Set** (`set_push`). `define.go:100` says it does the same; it pushes the whole
   copy of the caller and brings back keys others have removed.

Seen while modelling; the models have the behaviour, and where a property must except it, it
says so:

- `cache.go:138` speaks of the expired cache as a last resort when the registry fails; line 124
  has overwritten the list by then, and the error is returned.
- `cache.go:118` stores the time plus ttl, line 144 compares the time since with ttl: an entry lives
  for twice its ttl.
- `cache.go:165`: when the last node of a service goes, the event has no nodes and the session is
  never closed (compare `app.go:307`).
- `rpc_server.go:398`: a request for a missing function, or with the wrong number of
  parameters, keeps its goroutine slot for good (`SlotLeakCause`, and the exception of
  `RequestServed`).
- `nats_server.go:90` closes done before 94 sets isClose: the loop may subscribe once more during
  shutdown. It still ends (`ShutdownCompletes`).
- `service.go:148`: a heartbeat under way registers the service again after it was deregistered;
  only the TTL removes it (`StoppedIsDeregistered` names it, `EventuallyGone` holds).
- `mqtt_agent.go:92` says that Wait blocks when ch is full; it returns an error, and `OnRecover` then
  takes any pack for a publish: a ping or subscription panics and Flusher is left behind
  (`Crashed` in `FlusherEnds`).
- `pack_queue.go:148`: a writer, which has released the lock by then, waits for room in fch while
  Flusher has ended after a failed write (`Jammed`).
- `pack_queue.go:180`: `SetDeadline` moves the write deadline too. A client that goes on sending
  and takes nothing keeps a write waiting, with the lock, and so writers, Close and the stop of the
  gate (`Stalled`).
- `nats_client.go:163`, `:177` and `nats_server.go:150`, `:161` assign the nil subscription of a failed
  `SubscribeSync` to the field; `IsValid` panics on it in the next round and the loop is over, even if
  the connection comes back (`LoopDeathCause`, `DeathCause`).
- `nats_client.go:81` sets the map to nil: a call between its nil check and Set (104), or a
  time-out on its way to Delete (55), panics in the goroutine of the caller (`CallReturns`).
- `rpc_server.go:163`: a reply that does not encode or publish is only logged, and the caller runs
  into its deadline (`unsent` in `AnsweredOnce`).
- `rpc_server.go:128`, `:210`: `wg.Wait` and `wg.Add` are not ordered. A request that starts when the
  last one leaves makes `Add` or `Wait` panic: the process ends, or Done does (`DeathCause`).
- `app.go:310`, under the lock of `cache.go:223`: the callback waits for `Done` of an RPC client, and
  with it every lookup (`InDone` in `CacheConverges`). Likewise `Stop` of a service waits for `Done`
  of its RPC server (`server/rpc_server.go:236`, `CloseHangCause`).
- `gate_handler.go:224`, `:246`, `:268`: `Storage` is called without a lock. When two of one session
  overlap, the older snapshot may be written last (`amiss` in `StorageCurrent`).
- A client that completes its handshake after `OnDestroy` went through the sessions is not closed,
  and the gate waits for it (`GateStops`).
- A DISCONNECT pack is ignored; the disconnection is reported when the connection closes.
- `timingwheel.go:153`: a second timer under a pending identifier hides the first (`reused`);
  `AddTimer` after Stop blocks for ever.
- `mqtt.go:335`: `ReadPack` reads three digits of the length where MQTT has up to four. A pack of
  2^21 bytes and more is not refused for its length if what the three digits say is within
  the limit; its fourth digit is taken for content (`Framed` in `ReadsBack` and `Delivered`).
- `mqtt.go:525`, `:573`: a SUBSCRIBE or UNSUBSCRIBE the connection broke off in is returned without an
  error (exception in `ReadsBack`).
- `mqtt.go:739`, `:777`: `DelayWritePack` leaves the identifier out of the length of a list of topics and
  writes one digit of it. `ReadPack`, which counts the identifier twice, reads such a pack back if it
  is shorter than 128 bytes and its last topic is not too short; another MQTT implementation would
  not. The framework itself never sends one.
- `mqtt.go:840`: the length of a topic wraps at 2^16.
- `DefaultModule.go:47`: after a module whose Run panics, the close hangs until its timeout panics
  (`CloseHangCause`).
- `etcdv3/watcher.go:72`: of several events in one response only the first is reported.
- `session.go:482`: `Remove` never reports an error, `errStr` is not set from the call.

## 7. What is not modelled

Simplifications of modelled parts: reads of a slice or a string that another goroutine replaces
are taken to be atomic; discovery has one service and one version in a run, a service that comes
back waits for the plan of its earlier life, and the two lines of the selector's Close are one step;
the gate has one connection, and several acknowledgements of one subscription are one write; ticks
are handled when due, and the interval of the wheel is in whole milliseconds
(`timingwheel.go:196` cuts off the rest of an interval, and divides by zero for one below a
millisecond); the counter `executing`, whose updates race, is left out; the fields of the
service that only decide what is logged are left out; a WebSocket connection has no mutex, where
the TCP connection that is modelled has one. `Bind` with an empty user id does what `UnBind` does
and is not a separate case. The codec leaves out dup and retain, which nothing in it depends on,
packs whose declared length does not fit their content, and packs of 2^28 bytes, for which
`getRemainingLength` runs out of its four bytes.

Hazards without a property, besides those in `PROJECT.json`: `tcp_server.go:97` raises the WaitGroup in
the new goroutine, so that Close can pass Wait before it (the model has this order); the plans of
a consul watcher outlive its Stop (`consul_watcher.go:265`, the model has it); `SessionLearner.Connect`
runs in a goroutine of its own and may come after `DisConnect` (`gate_handler.go:64`); `IsConnect` takes
the first session of a user it meets, which may be a closed one beside an open one
(`gate_handler.go:182`); of several events in one response the etcd watcher reports the first
(`etcdv3/watcher.go:72`).

Not modelled at all:

- **Pure functions over strings**: the routing of a topic or URI to a call (`mqtt_agent.go`,
  `uri_route.go`), the encoding of arguments (`argsutil.go`), base62. They have no state, and what can
  go wrong in them is in the characters a model leaves out.
- **Selector filters and strategies**: each filter keeps the nodes that pass a test; the strategies pick
  one of what is left at random, or in turn under a mutex. The default selector asks the registry
  every time and keeps no state.
- **The ring buffer** `utils/queue.go`: nothing in the framework uses it.
- **Kubernetes registry and the etcd watcher**: alternatives to what is modelled; the first talks to
  the API server through a client of its own.
- **Wiring and wrappers**: configuration, logging (vendored), option setters, generated protobuf code,
  the mock registry, AES, JSON, UUID, the HTTP gateway (one request, one call).
- **`98aa1845d65f6ebb3859c15175ba2856.js`**: the build artefact of a browser game. It is by far the
  largest file of the repository, but nothing in the framework refers to it, no source of it
  is here, and its names and structure are those a bundler left. The project is about the Go
  framework.

## 8. Plan

Done: the module groups above, in the order of their weight for the system: RPC client and server
first, since every other part relies on them, then registration, the process around it and
discovery, then the gate and its codec; and the proofs of what the runs check, apart from liveness.

Next, in this order:

1. **Gate sessions across connections**: two connections of one user, IsConnect and SendBatch, the order
   of the calls to the `SessionLearner`.
2. **etcd watcher** as a variant of `ConsulWatcher` under `Discovery`.
3. **WebSocket connection** as a variant of `MqttConnection`.
