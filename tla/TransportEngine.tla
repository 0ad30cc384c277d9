---------------------------- MODULE TransportEngine ----------------------------
(***************************************************************************)
(* The transport's API and its engine, on top of the handler registry.     *)
(*                                                                         *)
(* Every API call first or last touches the registry on the caller's       *)
(* thread and sends a command through a bounded channel to the engine      *)
(* thread, the only one that talks to the vsomeip application.  The caller *)
(* waits on a oneshot channel for the result, for at most                  *)
(* INTERNAL_FUNCTION_TIMEOUT; the command stays in the channel when the    *)
(* caller has given up, and is executed later.                             *)
(*                                                                         *)
(* The registry's variables change only by actions of HandlerRegistry, so  *)
(* this specification implements that one (RegistryImplemented).           *)
(***************************************************************************)
EXTENDS HandlerRegistry, Filters, Sequences

CONSTANTS
    Callers,      \* application threads that call the transport's API
    AppName,      \* the vsomeip application name each transport is given
    ConfigsFor,   \* the configurations each caller registers and unregisters
    QueueCap,     \* capacity of the command channel (10000 in the code)
    MayTimeout    \* whether a call can outlast INTERNAL_FUNCTION_TIMEOUT

\* The TransportCommands of this module (PointToPoint adds Send), and the status
\* codes the engine sends back for them.
Ops == {"RegisterListener", "UnregisterListener", "StartVsomeipApp", "StopVsomeipApp"}
Results == {"Ok", "INTERNAL", "ALREADY_EXISTS"}

ASSUME EngineAssumption ==
    /\ QueueCap \in Nat \ {0}
    /\ MayTimeout \in BOOLEAN
    /\ DOMAIN AppName = Transports
    /\ ConfigsFor \in [Callers -> SUBSET Configs]
    /\ None \notin Callers \cup Ops \cup Results

VARIABLES
    queue,       \* the command channel of each transport's engine
    call,        \* what each caller is doing
    apps,        \* external: names of the applications vsomeip knows
    handlers,    \* external: the handler vsomeip calls for an address, per app
    announced,   \* VsomeipOfferedRequestedRegistry of each transport
    dispatched   \* history: the address each running callback was called for

engineVars == <<queue, call, apps, handlers, announced>>
evars == <<vars, engineVars, dispatched>>

AppNames == {AppName[t] : t \in Transports}
Keys == {RegisterKey(c) : c \in Configs} \cup {UnregisterKey(c) : c \in Configs}
NoHandlers == [key \in Keys |-> None]

Returned == [pc |-> "idle", op |-> None, t |-> None, config |-> None, id |-> None, reply |-> None]

\* A call that has a command to send to the engine of t.
Sending(op, t, c, id) ==
    [pc |-> "send", op |-> op, t |-> t, config |-> c, id |-> id, reply |-> None]

\* Drop between two commands.
Dropping(t) == [Returned EXCEPT !.pc = "drop", !.t = t]

EngineInit ==
    /\ Init
    /\ queue = [t \in Transports |-> <<>>]
    /\ call = [k \in Callers |-> Returned]
    /\ apps = {}
    /\ handlers = [a \in AppNames |-> NoHandlers]
    /\ announced = [t \in Transports |-> {}]
    /\ dispatched = [k \in Callbacks |-> None]

-----------------------------------------------------------------------------
(* The API, on the callers' threads.                                       *)

\* A transport can be used once its constructor has returned and until its
\* owner drops it.
Usable(t) ==
    /\ phase[t] = "live"
    /\ \A k \in Callers : ~(call[k].t = t /\ call[k].op = "StartVsomeipApp")

UnusedByOthers(t) == \A k \in Callers : call[k].t # t

NewCall(k, t) ==
    /\ call[k].pc = "idle"
    /\ New(t)
    /\ call' = [call EXCEPT ![k] = Sending("StartVsomeipApp", t, None, None)]
    /\ UNCHANGED <<queue, apps, handlers, announced, dispatched>>

\* register_listener takes a handler before the engine hears of the listener.
RegisterCall(k, t, c) ==
    /\ call[k].pc = "idle" /\ Usable(t) /\ c \in ConfigsFor[k]
    /\ Register(t, c)
    /\ LET granted == {id \in Ids : listenerConfigs'[t][id] # listenerConfigs[t][id]} IN
       call' = IF granted = {} THEN call
               ELSE [call EXCEPT ![k] =
                       Sending("RegisterListener", t, c, CHOOSE id \in granted : TRUE)]
    /\ UNCHANGED <<queue, apps, handlers, announced, dispatched>>

\* Mutant: the handler is released before the engine is told.
UnregisterCallReleasesFirst(k, t, c) ==
    /\ call[k].pc = "idle" /\ Usable(t) /\ c \in ConfigsFor[k]
    /\ Unregister(t, c)
    /\ call' = [call EXCEPT ![k] = Sending("UnregisterListener", t, c, None)]
    /\ UNCHANGED <<queue, apps, handlers, announced, dispatched>>

\* unregister_listener tells the engine first, whether or not the
\* configuration is registered.
UnregisterCall(k, t, c) ==
    /\ call[k].pc = "idle" /\ Usable(t) /\ c \in ConfigsFor[k]
    /\ call' = [call EXCEPT ![k] = Sending("UnregisterListener", t, c, None)]
    /\ UNCHANGED <<vars, queue, apps, handlers, announced, dispatched>>

DropCall(k, t) ==
    /\ call[k].pc = "idle" /\ Usable(t) /\ UnusedByOthers(t)
    /\ DropBegin(t)
    /\ call' = [call EXCEPT ![k] = Dropping(t)]
    /\ UNCHANGED <<queue, apps, handlers, announced, dispatched>>

\* Drop unregisters each configuration it collected, then stops the app.
DropNext(k) ==
    /\ call[k].pc = "drop"
    /\ LET t == call[k].t IN
       \/ \E c \in pending[t] :
             call' = [call EXCEPT ![k] = Sending("UnregisterListener", t, c, None)]
       \/ /\ pending[t] = {}
          /\ call' = [call EXCEPT ![k] = Sending("StopVsomeipApp", t, None, None)]
    /\ UNCHANGED <<vars, queue, apps, handlers, announced, dispatched>>

\* send_to_engine_with_status waits for room in the channel.
Enqueue(k) ==
    /\ call[k].pc = "send"
    /\ LET t == call[k].t IN
       /\ Len(queue[t]) < QueueCap
       /\ queue' = [queue EXCEPT ![t] = Append(@,
             [op |-> call[k].op, config |-> call[k].config, id |-> call[k].id, caller |-> k])]
    /\ call' = [call EXCEPT ![k].pc = "await"]
    /\ UNCHANGED <<vars, apps, handlers, announced, dispatched>>

\* What a call does with its result.  A register_listener that failed returns
\* without releasing its handler; an unregister_listener goes on in any case;
\* a constructor that failed drops the transport.
Finish(k, reply) ==
    LET t == call[k].t IN
    \/ /\ call[k].op = "RegisterListener"
       /\ call' = [call EXCEPT ![k] = Returned]
       /\ UNCHANGED vars
    \/ /\ call[k].op = "UnregisterListener"
       /\ call' = [call EXCEPT ![k].pc = "release", ![k].reply = None]
       /\ UNCHANGED vars
    \/ /\ call[k].op = "StartVsomeipApp" /\ reply = "Ok"
       /\ call' = [call EXCEPT ![k] = Returned]
       /\ UNCHANGED vars
    \/ /\ call[k].op = "StartVsomeipApp" /\ reply # "Ok"
       /\ call' = [call EXCEPT ![k] = Dropping(t)]
       /\ DropBegin(t)
    \/ /\ call[k].op = "StopVsomeipApp"
       /\ call' = [call EXCEPT ![k] = Returned]
       /\ DropEnd(t)

\* await_engine with the engine's result.  That the sender of the oneshot is
\* dropped unused is not here: every branch of the event loop returns a result,
\* so it takes an engine thread that has panicked.
AwaitReply(k) ==
    /\ call[k].pc = "await" /\ call[k].reply # None
    /\ Finish(k, call[k].reply)
    /\ UNCHANGED <<queue, apps, handlers, announced, dispatched>>

\* Mutant: the late result still reaches the caller, whatever it does then.
AwaitTimeoutKeepsReceiver(k) ==
    /\ MayTimeout
    /\ call[k].pc = "await" /\ call[k].reply = None
    /\ Finish(k, "DEADLINE_EXCEEDED")
    /\ UNCHANGED <<queue, apps, handlers, announced, dispatched>>

\* Mutant: giving up takes the command out of the channel.
AwaitTimeoutCancels(k) ==
    /\ MayTimeout
    /\ call[k].pc = "await" /\ call[k].reply = None
    /\ Finish(k, "DEADLINE_EXCEEDED")
    /\ queue' = [queue EXCEPT ![call[k].t] = SelectSeq(@, LAMBDA cmd : cmd.caller # k)]
    /\ UNCHANGED <<apps, handlers, announced, dispatched>>

\* The receiver of the oneshot is dropped; the command stays in the channel.
AwaitTimeout(k) ==
    /\ MayTimeout
    /\ call[k].pc = "await" /\ call[k].reply = None
    /\ Finish(k, "DEADLINE_EXCEEDED")
    /\ LET t == call[k].t IN
       queue' = [queue EXCEPT ![t] = [i \in DOMAIN @ |->
                    IF @[i].caller = k THEN [@[i] EXCEPT !.caller = None] ELSE @[i]]]
    /\ UNCHANGED <<apps, handlers, announced, dispatched>>

\* Mutant: the id goes back to the pool and stays in the two maps.
ReleaseHandlerPoolOnly(k) ==
    /\ call[k].pc = "release"
    /\ LET t == call[k].t IN
       /\ freeIds' = freeIds \cup {id \in Ids : listenerConfigs[t][id] = call[k].config}
       /\ call' = [call EXCEPT ![k] = IF phase[t] = "live" THEN Returned ELSE Dropping(t)]
    /\ UNCHANGED <<idToTransport, listenerConfigs, lifecycle, handedOut, cb, owner>>
    /\ UNCHANGED <<queue, apps, handlers, announced, dispatched>>

\* The end of unregister_listener, called by the application or by Drop.
ReleaseHandler(k) ==
    /\ call[k].pc = "release"
    /\ LET t == call[k].t
           c == call[k].config
       IN \/ /\ phase[t] = "live"
             /\ Unregister(t, c)
             /\ call' = [call EXCEPT ![k] = Returned]
          \/ /\ DropRelease(t, c)
             /\ call' = [call EXCEPT ![k] = Dropping(t)]
    /\ UNCHANGED <<queue, apps, handlers, announced, dispatched>>

-----------------------------------------------------------------------------
(* The engine thread of a transport: one command at a time.                *)

\* return_oneshot_result: the caller may have given up.
TakeAndReply(t, ops, reply) ==
    /\ queue[t] # <<>>
    /\ Head(queue[t]).op \in ops
    /\ queue' = [queue EXCEPT ![t] = Tail(@)]
    /\ LET k == Head(queue[t]).caller IN
       call' = IF k = None THEN call ELSE [call EXCEPT ![k].reply = reply]
    /\ UNCHANGED <<vars, dispatched>>

\* VsomeipOfferedRequestedRegistry: is_... and insert_...; nothing is removed.
Announce(t, c) == announced' = [announced EXCEPT ![t] = @ \cup {Announcement(c)}]

\* register_message_handler replaces whatever handler the address had.
register_listener_internal(t) ==
    /\ AppName[t] \in apps
    /\ TakeAndReply(t, {"RegisterListener"}, "Ok")
    /\ LET cmd == Head(queue[t]) IN
       /\ Announce(t, cmd.config)
       /\ handlers' = [handlers EXCEPT ![AppName[t]][RegisterKey(cmd.config)] = cmd.id]
    /\ UNCHANGED apps

unregister_listener_internal(t) ==
    /\ AppName[t] \in apps
    /\ TakeAndReply(t, {"UnregisterListener"}, "Ok")
    /\ handlers' = [handlers EXCEPT ![AppName[t]][UnregisterKey(Head(queue[t]).config)] = None]
    /\ UNCHANGED <<apps, announced>>

\* Mutant: the application's name is kept.
stop_vsomeip_app_internal_keeps_app(t) ==
    /\ AppName[t] \in apps
    /\ TakeAndReply(t, {"StopVsomeipApp"}, "Ok")
    /\ handlers' = [handlers EXCEPT ![AppName[t]] = NoHandlers]
    /\ UNCHANGED <<apps, announced>>

stop_vsomeip_app_internal(t) ==
    /\ AppName[t] \in apps
    /\ TakeAndReply(t, {"StopVsomeipApp"}, "Ok")
    /\ apps' = apps \ {AppName[t]}
    /\ handlers' = [handlers EXCEPT ![AppName[t]] = NoHandlers]
    /\ UNCHANGED announced

\* Mutant: without the application the command is put off until there is one.
EngineWithoutAppPutsOff(t) ==
    /\ AppName[t] \notin apps
    /\ queue[t] # <<>>
    /\ Head(queue[t]).op \in {"RegisterListener", "UnregisterListener", "StopVsomeipApp"}
    /\ queue' = [queue EXCEPT ![t] = Append(Tail(@), Head(@))]
    /\ UNCHANGED <<vars, call, apps, handlers, announced, dispatched>>

\* The application has not been created, or was stopped under its name.
EngineWithoutApp(t) ==
    /\ AppName[t] \notin apps
    /\ TakeAndReply(t, {"RegisterListener", "UnregisterListener", "StopVsomeipApp"}, "INTERNAL")
    /\ UNCHANGED <<apps, handlers, announced>>

\* create_app: there may be no state handler left, or vsomeip may create no
\* application; otherwise the application exists by the time the wait for its
\* state can time out.
start_vsomeip_app_internal(t) ==
    /\ \/ /\ AppName[t] \in apps
          /\ TakeAndReply(t, {"StartVsomeipApp"}, "ALREADY_EXISTS")
          /\ UNCHANGED apps
       \/ /\ AppName[t] \notin apps
          /\ TakeAndReply(t, {"StartVsomeipApp"}, "INTERNAL")
          /\ UNCHANGED apps
       \/ /\ AppName[t] \notin apps
          /\ \/ TakeAndReply(t, {"StartVsomeipApp"}, "Ok")
             \/ MayTimeout /\ TakeAndReply(t, {"StartVsomeipApp"}, "INTERNAL")
          /\ apps' = apps \cup {AppName[t]}
    /\ UNCHANGED <<handlers, announced>>

EngineStep(t) ==
    \/ register_listener_internal(t) \/ unregister_listener_internal(t)
    \/ start_vsomeip_app_internal(t) \/ stop_vsomeip_app_internal(t)
    \/ EngineWithoutApp(t)

-----------------------------------------------------------------------------
(* Messages: vsomeip calls the handler installed for an address.           *)

Dispatch(k, a, key) ==
    /\ handlers[a][key] # None
    /\ CallbackLookup(k, handlers[a][key])
    /\ dispatched' = [dispatched EXCEPT ![k] = IF cb'[k].pc = "idle" THEN None ELSE key]
    /\ UNCHANGED engineVars

CallbackStep(k) ==
    /\ CallbackConvert(k) \/ CallbackFetch(k) \/ CallbackDeliver(k)
    /\ dispatched' = [dispatched EXCEPT ![k] = IF cb'[k].pc = "idle" THEN None ELSE @]
    /\ UNCHANGED engineVars

CallStep(k) == DropNext(k) \/ AwaitReply(k) \/ ReleaseHandler(k)

EngineNext ==
    \/ \E k \in Callers :
          \/ \E t \in Transports :
                \/ NewCall(k, t) \/ DropCall(k, t)
                \/ \E c \in Configs : RegisterCall(k, t, c) \/ UnregisterCall(k, t, c)
          \/ Enqueue(k) \/ CallStep(k) \/ AwaitTimeout(k)
    \/ \E t \in Transports : EngineStep(t)
    \/ \E k \in Callbacks :
          CallbackStep(k) \/ \E a \in AppNames, key \in Keys : Dispatch(k, a, key)

\* The engine thread and the callers' threads run; tokio's channel serves
\* waiting senders in order, so a sender that is let in again and again gets in.
\* A timeout may come at any moment but nothing relies on it.
Fairness ==
    /\ \A t \in Transports : WF_evars(EngineStep(t))
    /\ \A k \in Callers : WF_evars(CallStep(k)) /\ SF_evars(Enqueue(k))

EngineSpec == EngineInit /\ [][EngineNext]_evars

FairEngineSpec == EngineSpec /\ Fairness

-----------------------------------------------------------------------------
(* Properties.                                                             *)

\* Every interleaving of callers, engines and dispatcher threads is a behaviour
\* of the registry's specification.
RegistryImplemented == Spec

\* A handler vsomeip has installed for an address belongs to a listener that is
\* registered for that address, at every moment of every call: unregistering
\* removes the handler before it releases the id.
HandlersLeadToListeners ==
    \A a \in AppNames, key \in Keys :
        handlers[a][key] # None =>
            \E t \in Transports :
                /\ AppName[t] = a
                /\ LET c == listenerConfigs[t][handlers[a][key]] IN
                   c # None /\ RegisterKey(c) = key

\* A transport nobody is calling and whose engine has nothing to do.
Settled(t) == Usable(t) /\ UnusedByOthers(t) /\ queue[t] = <<>>

\* Once a transport has settled, vsomeip's handlers are exactly those of its
\* registered listeners, whatever calls timed out on the way there.
SettledAgreement ==
    \A t \in Transports : Settled(t) =>
        \A key \in Keys, id \in Ids :
            handlers[AppName[t]][key] = id <=>
                listenerConfigs[t][id] # None /\ RegisterKey(listenerConfigs[t][id]) = key

\* get_message_handler hands over a function pointer that vsomeip is not using
\* for anything, in any application of the process.
GrantedHandlerUnused ==
    [][\A id \in Ids :
          id \in freeIds /\ id \notin freeIds' =>
              \A a \in AppNames, key \in Keys : handlers[a][key] # id]_evars

\* A message reaches a listener registered for the address it was sent to,
\* unless the listener it was meant for was unregistered while the message was
\* being converted.
DeliveredToAddressee ==
    \A k \in Callbacks :
        cb[k].pc = "deliver" /\ owner[k] # None => RegisterKey(cb[k].listener) = dispatched[k]

\* A reply is only ever given to the call whose command was executed: a caller
\* with a reply waits for one and has no command left in the channel.
ReplyBelongsToCall ==
    \A k \in Callers :
        /\ call[k].reply # None => call[k].pc = "await"
        /\ call[k].pc = "await" =>
              (call[k].reply = None
                 <=> \E i \in DOMAIN queue[call[k].t] : queue[call[k].t][i].caller = k)

\* Every call returns, also when the channel is full, the application is
\* missing, other callers keep calling or some of them give up: the engine
\* answers every command, so that no caller depends on its timeout.
CallsReturn == \A k \in Callers : call[k].pc # "idle" ~> call[k].pc = "idle"

\* A transport that is dropped ends up without handlers and its application is
\* stopped, even if Drop gave up waiting for the engine.
DropStopsApp ==
    \A t \in Transports : phase[t] = "dropping" ~> phase[t] = "gone" /\ AppName[t] \notin apps

=============================================================================
