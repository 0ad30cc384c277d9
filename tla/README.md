# TLA+ verification of up-transport-vsomeip

`up-transport-vsomeip` is a uProtocol transport over SOME/IP: an implementation
of `UTransport` that drives the C++ library vsomeip. This directory holds TLA+
modules that model its concurrent core, TLC configurations that check them on
small instances, and TLAPS proofs for every instance.

## The system

All paths below are relative to `src/`; `up/` abbreviates
`up-transport-vsomeip/src/`.

| component | source | state it keeps | operations |
|---|---|---|---|
| message handler registry | `up/storage/message_handler_registry.rs` | pool of extern "C" function ids and id → transport map (both process-wide), id ↔ listener configuration map (per transport) | get, release, look up, list |
| extern "C" callbacks | `vsomeip-proc-macro/src/lib.rs` | one generated function per id | `call_shared_extern_fn` |
| transport API | `up/lib.rs`, `up/transport.rs` | storage, engine handle, point-to-point listener | `new`, `register_listener`, `unregister_listener`, `send`, `drop` |
| engine | `up/transport_engine.rs` | a bounded command channel, one thread | `event_loop` and its five commands |
| filter classification | `up/determine_message_type.rs`, `up/utils.rs` | none | `determine_type`, splitting of ids |
| RPC correlation registry | `up/storage/rpc_correlation.rs` | session id per client, uE and mE correlations | retrieve, insert, remove |
| message conversion | `up/message_conversions.rs` | none (uses the two registries) | UMessage ↔ SOME/IP |
| offered/requested registry | `up/storage/vsomeip_offered_requested.rs` | four sets | is…, insert… |
| application state handlers | `up/storage/application_state_availability_handler_registry.rs`, proc macro | pool of ids, a channel per id | find, get, free |
| point-to-point listener | `up/lib.rs` | the one listener of a uStreamer | register, unregister, register on send |
| callback runtime | `up/lib.rs`, proc macro | a tokio runtime on a thread of its own, the shutdown channel | build, spawn a listener's task, shut down, join |
| storage, configuration, bindings | `up/storage.rs`, `up/vsomeip_config.rs`, `vsomeip-sys` | constant data, delegation, glue | – |

**How they interact.** An API call runs on the application's thread. It touches
the registry there (`register_listener` first takes a function,
`unregister_listener` finally releases one) and sends a command through a
channel to the engine thread, the only one that configures the vsomeip
application; the caller waits on a oneshot channel, at most three seconds. A
message arrives on a vsomeip dispatcher thread, which calls the extern function
registered for the address; the function finds its transport in the
process-wide map, converts the message (reading or writing correlations) and
then finds its listener in the transport's map.

**What is hard.** Ids are recycled while callbacks are between their two
look-ups; registry and engine are updated in two steps, in opposite orders on
registration and unregistration; a call that times out goes on without its
command, which runs later; a failed constructor runs `Drop`; an application name
is shared process-wide; the transport counts session ids in parallel with
vsomeip and relies on the two counts agreeing; responses are lost, late or
repeated; an application reports its state after the wait for it has given up;
one point-to-point call is many commands of which any may fail; sending,
receiving and installing handlers derive addresses in three places; `Drop` may
run in a task of the runtime it shuts down. `PROJECT.json` lists each hazard at
its line, with the properties that address it.

**What makes each part correct.** The registry: its three structures agree, no
id is lost or shared. Callbacks: a message reaches the listener it was meant
for. API and engine: every call returns, with its own result; vsomeip's handlers
are those of the registered listeners; a dropped transport leaves nothing
behind. RPC: an answer reaches the request it answers, at most once, with its
status; if nothing is lost, it does. Application start: no state handler is
lost, shared or called for another application, and every start ends. The
point-to-point listener: registered means every service is forwarded,
what an unregistration took back stays away, and no request leaves before its
response can come back. Addresses: what is sent to a listener's address calls its handler and
arrives unchanged. The runtime: it serves until `Drop`, which ends, and not
after.

## Modules

`HandlerRegistry` — the registry, the life of transports, and callbacks.
`freeIds`, `idToTransport` and `listenerConfigs` are the three structures.
`get_message_handler` and `release_message_handler` take all three write locks
before they touch anything and are single steps; the id is any free one, since
the pool is a `HashSet`. A `get_message_handler` that meets an occupied entry
runs the recorded rollback steps (`Rollback`). `New`, `Register`, `Unregister`
and the three steps of `Drop` are the callers. A callback is four steps
(`CallbackLookup`, `CallbackConvert`, `CallbackFetch`, `CallbackDeliver`): it
holds no lock between them, only an `Arc` of the storage until the listener has
been fetched (`Upgradable`). `handedOut` says which functions vsomeip may call;
`owner` is a history variable, the configuration that held the id when the
callback began.

`HandlerRegistryLocks` — the same registry lock by lock. A thread takes the
three write locks one after the other, changes the structures one by one and
drops the guards in the order of the path it is on; a rollback step owns the
guard of what it undoes, so the pool is unlocked while the transport map still
names a free id. Readers (callbacks, `Drop`'s listing) need the one lock they
read under. `Abstract` instantiates `HandlerRegistry` with a mapping that undoes
the changes of operations that have not made their last one: an id taken but not
yet configured counts as free, one being released as held. `RegistryAtomic` says
that the result is a behaviour of `HandlerRegistry!Spec`.

`HandlerRegistryProofs`, `HandlerRegistryLocksProofs`, `TransportEngineProofs`,
`PointToPointProofs`, `RpcCorrelationProofs`, `AppLifecycleProofs`,
`CallbackRuntimeProofs`, `AddressingProofs` — the theorems.
`TransportEngineProofs` extends `HandlerRegistryProofs`, and `PointToPointProofs`
extends it; `HandlerRegistryLocksProofs` instantiates `HandlerRegistryProofs`
with the mapping of `HandlerRegistryLocks`.

`Filters` — `determine_type` and the (service, instance, method) triples that
`register_listener_internal` and `unregister_listener_internal` derive from the
filters. A wildcard is the largest value of its field.

`TransportEngine` — extends the registry with the API's callers, the channel,
the engine threads and vsomeip (external: the set of application names, and the
handler installed for each address). A call is a record with a program counter:
`send` (waiting for room in the channel), `await` (waiting for the result),
`release` (the end of `unregister_listener`), `drop` (between two commands of
`Drop`). The registry's variables change only through the actions of
`HandlerRegistry`, so the engine implements its specification; the property
`RegistryImplemented` checks this step by step.

`PointToPoint` — extends `TransportEngine` with `send` and the point-to-point
listener. A *job* is a call of several commands: registering or unregistering
one service of the configuration file after the other, or registering a listener
for the response and then sending. Each command goes through the channel of
`TransportEngine`; `JobResult` is what the job does with its result. A job goes
over the services in any order, of which the order of the file is one. Ordinary
`register_listener` and `unregister_listener` calls, the constructor and `Drop`
(`PlainCall`) run next to the jobs, on the same pool and channel. The messages
vsomeip delivers are left to `TransportEngine`: a callback only reads the
registry, so the three structures and vsomeip's handlers, which the properties
here are about, change as they do without it. `p2p` is the stored listener, which
nothing clears. `status` and `takenBack` are history: the outcome of the
registration, and the services that unregistrations have taken back. What an
unregistration is held to is the field `owed` of its job: when it begins, the
services for which no registration under way has still to send its command
(`StillComes`); a service whose command fails leaves the set; what is left when
the job ends joins `takenBack`. `send_internal` is the engine's `Send` command: offered events for a
publish, an error for a notification, and for requests and responses any of the
outcomes that `RpcCorrelation` explains.

`AppLifecycle` — `create_app` step by step on the engines of several transports,
the process-wide pool of state handlers with a bounded channel for each, the
thread that starts an application (it finds it by name), states reported by
vsomeip, and `Drop`. `received` is a history variable. `MayFail` holds the
transports whose application may fail to be created or be late.

`CallbackRuntime` — the thread that owns the runtime, the hand-over of its handle
to the constructor, callbacks that spawn a task each, workers, listeners that
block for ever or drop the transport themselves, the shutdown signal, the forced
shutdown and the join. tokio is external: queued tasks are dropped at shutdown,
running ones where they yield.

`Addressing` — the addresses of one message on its way: from a UMessage to
SOME/IP, to the handlers installed for a listener's filters, back to a UMessage,
and the same for the response to a request.

`Conversions` — request ids and the two status-code tables.

`RpcCorrelation` — clients, a service and the network between them. The client's
engine converts a request (taking a session id and storing the correlation) and
then hands it to vsomeip, which numbers it on its own. The service's callback
stores the SOME/IP request id under the new message's id; its engine takes it
out again when the service responds. The client's callback takes the correlation
out when the response arrives. `asked`, `served`, `answers` and two fields of a
message are history.

Modules that begin with `MC` hold instances for TLC; `HandlerRegistryLocks` and
`CallbackRuntime` need none.

Definitions whose comment begins with *Mutant* are not part of any
specification. Each is a plausible defect of the definition that follows it;
with it in place the property that `PROJECT.json` names must fail, which shows
that the property depends on that code.

## Runs

| run | configuration | what it shows |
|---|---|---|
| `handler_registry` | 3 ids, 2 transports, 2 configurations, 2 callbacks, with symmetry | the registry's types and its five properties |
| `registry_locks` | 2 ids, 2 transports, 1 configuration, 2 threads, 1 callback | `RegistryAtomic` (refinement), `OperationsFinish` (no deadlock) |
| `engine_timely` | 2 transports, 2 ids, 2 callers, 2 request listeners, 1 dispatcher thread, channel of 1, no timeouts | `HandlersLeadToListeners`, `GrantedHandlerUnused`, `DeliveredToAddressee` |
| `engine_timeouts` | 1 transport, 2 callers, channel of 2, every wait may time out | `SettledAgreement`, `ReplyBelongsToCall`, `CallsReturn`, `DropStopsApp`, `RegistryImplemented` |
| `engine_recycled` | 1 transport, 1 id, response and publish listeners | **violation** of `GrantedHandlerUnused`, see Findings |
| `rpc_answered` | 2 clients, 4 requests, reordering, one repetition, session ids 0..3, overflow panics | `StoredUnderWireId`, `ResponseAnswersRequest`, `RequestsAnswered` |
| `rpc_wrap` | 1 client, 4 requests, loss, reordering, one repetition, session ids 0..2, wrapping | `CorrelationNotOverwritten`, `AnsweredAtMostOnce`, `StatusSurvives`, types |
| `rpc_wrap_diverges` | 1 client, 4 requests, session ids 0..2, wrapping | **violation** of `StoredUnderWireId`, see Findings |
| `app_lifecycle` | 3 transports, 2 with one name and late or failing starts, 2 state handlers, channels of 1 | `StateIdsAccounted`, `StateHandlerExclusive`, `WokenByOwnApp`, `StartsReturn`, `StartsSucceed` |
| `point_to_point` | 1 transport, 2 services, 2 ids with symmetry, 2 callers, of which one sends a request and the other a publish and a notification and has an ordinary listener, channel of 1, every wait may time out | `EveryServiceForwarded`, `UnregisteringTakesBack`, `ResponseHandlerFirst` |
| `addressing` | every valid message and every listener over small sets of addresses with wildcards | `ListenerReached`, `OnlyAskedFor`, `MessageSurvives`, `ResponseReturns` |
| `callback_runtime` | 3 messages, 2 workers, 1 listener that blocks, `Drop` from outside or from a listener | `CancelledOnlyByDrop`, `NoListenerAfterDrop`, `DropReturns`, `ListenersRun` |

**Bounds.** Three ids with two configurations let an id be recycled while
another is held and let a duplicate configuration find a free id; with one id
(`engine_recycled`), or two ids for four configurations (`point_to_point`), the
pool runs dry. Two services let a registration fail half way, and two callers let
an unregistration overtake a registration, or another unregistration, at every
step. That run leaves `announced`, which no guard and none of its properties
reads, out of the comparison of states (`VIEW`). Two callers and a channel of one
make a caller wait for room; a channel of two lets a command of a
call that gave up sit behind another. `HalfWord`, the number of values of a
`u16`, is 3 or 4, so the session counter reaches its end within four requests;
`MaxCopies` bounds repeated deliveries and `Uuids` the messages a service
receives. Two ids and one configuration for each of two transports let a
duplicate registration roll back while the other transport works on the pool.
`MaxStates` = 2 states of an application and channels of one (`ChannelCap`) let a
surplus state stay behind and a sender wait for room; with two state handlers for
three transports one is reused or missing. Two workers with one blocking listener
leave one for the rest. Each transport is created and dropped once, and the
services of a configuration file are distinct and do not change. None of these is
a bound on the theorems.

**Deadlock** is not checked: when every transport has been dropped, or every
request sent and answered, the system has nothing left to do. Progress is
checked by the liveness properties instead.

**Fairness.** `FairEngineSpec`: the engine thread executes commands while there
are any (weak fairness), a call's thread goes on when it can (weak), and a
sender that finds room in the channel again and again gets in (strong) — tokio's
bounded channel queues waiting senders in order. Nothing forces an application
to call, a wait to time out or a message to arrive; in particular no timeout is
fair, so `CallsReturn` holds because the engine answers. `FairLocksSpec`: a
thread that holds its locks goes on (weak) and one that waits for a lock gets it
if it is free again and again (strong), as the standard library's `RwLock` on a
fair operating system does. `AppLifecycle!FairSpec`: engines and starting threads
run, an application that was started reports its states, and the 50 ms wait ends
where it may. `CallbackRuntime!FairSpec`: the runtime's thread, `Drop` and the
tasks go on, and a shutdown that waits is cut off, which is what
`shutdown_timeout` does; neither registrations nor messages nor the end of a
blocking listener are fair. `RpcCorrelation!FairSpec`:
the engine sends what it converted, messages that are not lost arrive, and the
service answers what it receives; the last two are assumptions about the network
and the application, and without them no request need be answered.

**Scope of some properties.** `HandlersLeadToListeners`, `GrantedHandlerUnused`
and `SettledAgreement` are checked for request listeners, with every caller
registering configurations of its own; Findings and Observations say what happens
otherwise. `ResponseHandlerFirst` is checked with one caller sending the request:
a second one that sends a request with the same addresses takes the first one's
configuration for installed while its command may still be in the channel; it is
about sends whose caller still waits. `UnregisteringTakesBack` is about the
services an unregistration owes: not those whose command failed or timed out,
which it skips (the function stays taken, although the command may remove the
handler later), nor those a registration under way sends after it began, of which
Observations says what becomes.
`WokenByOwnApp` excepts applications that report more than one state: freeing a
state handler's id does not empty its channel, so that one surplus state ends the
wait of the next start with that id, whose own state is then the surplus.
`ListenersRun` holds while fewer listeners block than there are workers.

## Findings

1. `engine_recycled`. `unregister_listener_internal` removes a response handler
   under the address of the sink filter
   (`up/transport_engine.rs:701`), although it was installed under that of the
   source filter (`:564`); a publish handler is installed for instance 1
   (`:438`) and removed for `ANY_INSTANCE` (`:641`). The handler stays
   installed, its id returns to the pool, and the next `get_message_handler`
   hands out a function vsomeip still calls for the old address; the comment at
   `up/storage/message_handler_registry.rs:120` promises an unused one.
2. `rpc_wrap_diverges`. The session counter (`up/storage/rpc_correlation.rs:81`)
   wraps to 0 after 65535 requests of a client when overflow checks are off;
   vsomeip skips 0. From then on every request is stored under the session id
   before the one it is sent with. With overflow checks on, the engine thread
   panics instead (`SessionOverflow`).

**Observations** made with TLC while modelling, each a short behaviour of the
models that no run keeps:

- Two callers that register and unregister the *same* address of a transport:
  `register_listener` takes the handler first and then tells the engine
  (`up/transport.rs:105`), `unregister_listener` does the opposite
  (`up/lib.rs:323-351`), so an unregistration's command may be executed before
  the registration's, after which the id is released and its handler installed.
- A wait for the application's state that times out leaves the state handler
  with the application (`up/transport_engine.rs:220-225`), where the comment at
  `vsomeip-proc-macro/src/lib.rs:244` asks for it to be removed after a timeout
  too. Since the id is not freed either, `StateHandlerExclusive` still holds.
- `unregister_point_to_point_listener` (`up/lib.rs:532`) does not clear the
  stored listener: registering again is refused, and `send` keeps registering
  response listeners for it.
- An unregistration that overlaps the registration (`up/lib.rs:477-527` against
  `:553-618`) may be past a service before the registration gets to it. Both
  calls succeed, the service stays installed with its function, and as long as
  nobody unregisters again the listener goes on receiving its requests.

## Theorems

Proved by TLAPS in `HandlerRegistryProofs`, for arbitrary sets of ids,
transports, configurations and callbacks, from the single assumption that `None`
is none of them (`NoneAssumption`):

- `RegistryTypeCorrect` — `Spec => []TypeOK`;
- `RegistryAgreement` — `PoolPartition`, `RoutedToOwner`, `OneHandlerPerConfig`;
- `DropReturnsHandlers` — `NothingHeldAfterDrop`, `DropSnapshotCurrent`;
- `InFlightSafe` — `InFlightKeepsListener`;
- `HandoverOnlyThroughPool` — the action property `HandoverThroughPool`.

All follow from `RegistryInductive`: the conjunction `IInv` of the type
invariant, the shape of callback records (a callback before its fetch has a
transport and an id), the three agreements, the two drop invariants and
`InFlightKeepsListener` is inductive. None of these is inductive alone: that a
release returns everything needs the id to sit in the released transport's map
and nowhere else (`RoutedToOwner`), that a new grant disturbs no running
callback needs a free id to be in no map (`PoolPartition` and `RoutedToOwner`,
lemma `FreeIdIsUnused`), and that `Drop` ends with nothing held needs its
snapshot to be exact. A corollary of the same lemma is that two of the three
outcomes `get_message_handler` rolls back from cannot happen (lemma
`RefusalRollsBack`: only a duplicate configuration is refused, and the registry
is then unchanged).

Proved in `HandlerRegistryLocksProofs`, for any number of threads besides
(`ThreadsAssumption`: `None` is no thread):

- `LocksMakeAtomic` — `LocksSpec => RegistryAtomic`: the operations lock by lock
  implement `HandlerRegistry!Spec` under the mapping of `Abstract`;
- `LockLevelSafety` — hence `OneHandlerPerConfig`, `DropSnapshotCurrent` and
  `InFlightKeepsListener` hold at every step between the locks as well; they are
  about the configuration maps, which the mapping leaves as they are.

The lock of the transport map turns out to be the lock of the whole registry
(`MapLockSerialises`): it is taken first and kept until the last change on every
path, also where a rollback step has dropped the pool's guard already
(`MapLocked`), so that one thread at most is between its locks and its last
change. `LocksInv` says further which id that thread is half way with and how far
it has got (`Doing`), that the pool and the maps agree about every other id
(`Agreement`), that a transport whose configurations are being listed or that is
being dropped has one user (`Uses`), and that `Drop`'s listing, which takes the
read locks one after the other, misses nothing (`Lists`). An operation takes
effect at its last change, every earlier step being undone by the mapping; a
callback reads the transport map when it is unlocked, when nothing is half done,
and the configuration map, which only an operation's last change touches.

Proved in `TransportEngineProofs`, for arbitrary callers, channel capacity and
timeouts:

- `EngineImplementsRegistry` — `EngineSpec => Spec`, `RegistryImplemented`;
- `EngineKeepsRegistry` — hence `PoolPartition`, `RoutedToOwner` and
  `NothingHeldAfterDrop` in the transport.

The registry's variables are the same in both specifications, so the mapping is
the identity. What has to be known is that a call passes the registry a
transport and a configuration: `CallInv` says that a call under way has a
transport, that an unregistration has a configuration, and that only an
unregistration releases. It holds because an engine changes nothing of a call
but its reply (lemma `ReplyKeepsCallInv`), also when the reply comes late.

About the channel, in the same module and with timeouts:

- `RepliesReachTheirCalls` — `ReplyBelongsToCall`.

`CommandInv` says that a command whose caller has not given up is exactly what
that caller waits for and the only one of its in any channel
(`CommandsAwaited`), that a caller that waits has a command in the channel, and
that commands for listeners carry a configuration and a registration an id. The
delicate step is the timeout: dropping the receiver has to be the only thing
that lets a caller go on while its command stays.

About vsomeip's handlers, under the hypothesis `Undisturbed` (no timeouts, no two
threads that use the same configuration, one address for installing and
removing):

- `HandlersAlwaysLead` — `HandlersLeadToListeners`;
- `GrantedHandlersAreUnused` — the action property `GrantedHandlerUnused`;
- `MessagesReachAddressees` — `DeliveredToAddressee`.

Each hypothesis is needed: the run `engine_recycled` shows what a different
address for removing does, and Observations what timeouts and shared
configurations do. The invariant `HandlerInv` adds to `CommandInv` that nobody
but its user has a call on a transport being constructed or dropped
(`UsageInv`), that a registration under way still holds its id
(`RegisteringHolds`), and that once an unregistration has been answered no
handler leads to its configuration until the id is released
(`UnregisteringClears`). `AddressInv` carries the address of a message through
the steps of a callback, which may outlast the handler that started it.

About settled transports, in the same module, with timeouts, under the hypothesis
`OwnAddresses` (separate configurations, applications and addresses, and one
address for installing and removing):

- `SettledTransportsAgree` — `SettledAgreement`.

`EndsInv` looks at the last command about a configuration in the channel, or at
the handler when there is none: what it leaves is what the registry says, but
for a registration that has its id and is not in the channel yet and an
unregistration that is and has not released yet (`AheadOf`). That the channel is
in order is all it takes; whether anybody still waits is irrelevant. `StartedInv`
says that between constructor and `Drop` the application is known to vsomeip, so
that no command is refused.

Proved in `PointToPointProofs`, for any services, messages and callers, with
timeouts (`PointAssumption`: the filters of services and of responses are
configurations):

- `JobsKeepRegistry` — `PoolPartition`, `RoutedToOwner` and
  `NothingHeldAfterDrop`, although a job that fails takes nothing back.

As for the engine it follows from the lemma `JobsImplementRegistry`,
`PointSpec => Spec`. `PointInv` is `CallInv` for the larger set of calls, and that a job has only
services of a configuration file left to do and a send has its message.

In the same module, under the hypothesis `OwnServices` (transports with
applications of their own, and no response listener and no ordinary listener
under the address of a configured service, whose handler it would replace or
remove), which the constants of `point_to_point` satisfy:

- `UnregisteringTakesAllBack` — `UnregisteringTakesBack`, overlaps included;
- `EveryServiceIsForwarded` — `EveryServiceForwarded`, under the hypothesis
  `ServicesApart` too, which they also satisfy: services of one configuration
  file have different addresses. The address of a handler has the service id and
  not the instance of the filter, so of two instances of one service the second
  registration would replace the handler of the first.

`ChannelInv` is `CommandsAwaited` for the commands of jobs. `TakeBackInv` says
what each job has done: for every service it owes, nobody has a registration
still to send, and if the service is not to do any more, the unregistration has
either taken back everything or is at work on it (`Progress`). In the channel no
registration of a service that is owed follows one of its commands
(`InstalledBefore`), so that executing the command removes the handler for good
although a registration that timed out may have left its command there. That
nothing taken back returns (`DoneInv`) needs that nobody can begin to register
again: the flag that is stored first is never cleared, so one caller at most
registers (`OneRegisters`), it only goes through what it had still to send, and
all others register responses and ordinary listeners (`Own`). A step
of a caller is proved to respect its own part (`OwnPart`), and one lemma
(`MovesKeepTakeBack`) says that this disturbs no other caller's.

`ForwardInv` is about transports nobody disturbs (`Quiet`: not unregistered, not
dropped, registering has not failed). Every call that takes something back but
what an ordinary listener had (`Disturbs`) is for one that is not quiet
(`Leaves`), and so is every such command in its channel, where a service is registered only for a registration that still waits
(`QuietChannel`). A registration has an id in the registry for the service it is
at work on, and for those it is not to do any more vsomeip has the handler the
registry holds (`Registers`, `Standing`); hence all of them once it has succeeded
(`Forwarded`). A command that times out ends the registration as failed, so that
a late execution of it cannot be mistaken for one of a listener in use. As
before, a step respects its own part (`ForwardPart`), and `MovesKeepForwarding`
carries that to the others.

- `ResponsesCanReturn` — the action property `ResponseHandlerFirst`, under
  `OwnServices` and the hypothesis `OwnResponses`, which the constants of
  `point_to_point` satisfy too: no two callers send requests that are answered
  under the same configuration, and no ordinary listener has the address of a
  response. Without the first the property fails, as the scope of properties
  above says.

`LifeInv` is about transports nobody drops (`Open`): their application runs once
the constructor has had its answer (`Started`), a transport being constructed or
dropped has one user (`Users`), and no call and no command in the channel stops
the application or takes back anything but services and ordinary listeners
(`Serves`, `Spared`), so that
a registration of such a transport is never refused by its engine. On it rests
`AnswerInv`: what the registry holds for a response is installed, in the channel,
or about to be sent by the caller that took it (`Holding`) — by `OwnResponses`
never another caller, which is why a `send` that finds the configuration
registered may go ahead; a caller sends a request only when the handler for its
response is installed or in the channel (`Prepares`); and in the channel the
request comes after that registration (`InOrder`). A registration that timed out
stays in the channel and is executed there, before any later request.

Proved in `RpcCorrelationProofs`, for any clients, requests and messages and any
width `HalfWord` of the session counters (assumptions `HalfWordAssumption` and
`RpcAssumption`):

- `CorrelationTypeCorrect` — `TypeOK`;
- `AtMostOnce` — `AnsweredAtMostOnce`;
- `NeverOverwritten` — the action property `CorrelationNotOverwritten`;
- `CheckedCountersAgree`, under the hypothesis `OverflowChecks` —
  `StoredUnderWireId`;
- `CheckedResponsesAnswer`, under `OverflowChecks` — `ResponseAnswersRequest`;
- `StatusAcrossTheWire` — `StatusSurvives`, by cases on the two tables.

The first three follow from `IInv`: a request is stored under one id only and has
then not been answered (`OneCorrelation`), so taking its correlation out leaves
no second way to answer it; likewise a message that the service's map still
holds has not been responded to (`ServedInv`). The two under `OverflowChecks`
need more.
`CountersAgree` says that the transport's next session id is one ahead of the
last one vsomeip used, two between conversion and sending, and that nothing is
stored from there on; `WireIdsBelong` says that a request id on the network or
in a service's map is correlated with the request it was sent for, or with
nothing any more. Both rest on the two counters never wrapping, which is what
the overflow panic ensures, and on request ids being one-to-one: the lemmas
`RequestIdRoundTrip` and `RequestIdInjective`. Without the hypothesis the
counters diverge by one at each wrap, as the run `rpc_wrap_diverges` shows.

Proved in `AppLifecycleProofs`, for any number of state handlers, transports and
application names, any sharing of names and any failures (`LifecycleAssumption`):

- `StateIdAccounting` — `StateIdsAccounted`;
- `StateHandlersExclusive` — `StateHandlerExclusive`;
- `StartsWokenByOwnApp` — `WokenByOwnApp`.

The first two follow from `PoolInv`: types, that `create_app` holds an id exactly from the
moment it took one (`HeldWhileWaiting`), that every id is free or held by one
start (`FreeOrHeld`), and that an application's handler is its own start's id and
is gone when that id is about to be freed (`HandlerIsHeld`). The last is what
makes leaking the id of a late start harmless. The third needs the contents of
the channels as well: while no application has reported a second state, a
channel holds at most the state of the start that has its id.

Proved in `CallbackRuntimeProofs`, for any messages, workers and blocking
listeners (`RuntimeAssumption`), wherever `Drop` runs:

- `RuntimeServesTransport` — `CancelledOnlyByDrop`;
- `SilentAfterDrop` — the action property `NoListenerAfterDrop`.

`RuntimeInv` adds that nothing has happened before the constructor has its handle
(`NotYetUsed`), that the shutdown channel is untouched until `Drop` signals
(`ServesUntilSignalled`), and that a runtime on its way out has no task left to
start (`NothingQueuedAfterwards`), which is why the join matters.

Proved in `AddressingProofs`, for all addresses whose fields have the widths of
a `UUri` (`AddressAssumption`: 16-bit instance, service and resource ids, 8-bit
versions, a sink where the message type has one):

- `ListenersAreReached` — `ListenerReached`;
- `OthersAreNotReached` — `OnlyAskedFor`;
- `MessagesSurvive` — `MessageSurvives`;
- `ResponsesReturn` — `ResponseReturns`.

`PathInv` says what the message on the wire and the received one are in terms of
the sent one at every stage. The arithmetic is in the lemmas `FieldsFit`,
`WireFields` and `UriOfWire` (a field cut to the width SOME/IP gives it and put
back is the field, or a wildcard stays one), and `KeyCovers` relates the address
a listener's handler is installed for to the fields of a message.

**Only model-checked.** All liveness (`CallsReturn`, `DropStopsApp`,
`OperationsFinish`, `RequestsAnswered`, `StartsReturn`, `StartsSucceed`,
`DropReturns`, `ListenersRun`), since fairness is out of the prover's reach.

## Not modelled

Reading the JSON configuration file (its outcome is the constant `Services`);
payloads, which pass through unchanged; lock poisoning (a panic of the engine
ends that engine only); the arm of `await_engine` for a reply that is dropped
(`up/lib.rs:262-268`), since every path of the event loop answers and only an
engine thread that panicked drops the sender, after which callers panic at their
next command and `Drop` goes the way `CallbackRuntime` models; `receive`, which is unimplemented; a listener called on a
current-thread runtime of the application, where `block_in_place` panics; the
foreign function glue and the storage's delegating methods; generated extern
functions beyond the code they share. vsomeip and the network are external and
modelled from how the code uses them: `create_application` returns null for a
name that is taken (two engines may both pass `create_app`'s check of the name),
and may do so for other reasons, `stop` makes the application name unknown,
registering a handler replaces the previous one for the same address, a request
gets the next non-zero session id.

## What is left

Every component that keeps state is modelled, and every invariant, action property
and refinement of the passing runs is a theorem. Liveness stays with TLC. The
hypotheses of the theorems (`Undisturbed`, `OwnAddresses`, `OwnServices`,
`ServicesApart`, `OwnResponses`, `OverflowChecks`) mark where the guarantees of
the code end; Findings and Observations say what happens beyond them.
