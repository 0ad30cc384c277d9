---------------------------- MODULE HandlerRegistry ----------------------------
(***************************************************************************)
(* The message handler registry of the transport and the extern "C"        *)
(* callbacks that use it.                                                  *)
(*                                                                         *)
(* vsomeip calls plain C functions, so the proc macro generates a fixed    *)
(* number of them, each standing for one MessageHandlerId.  A process-wide *)
(* pool (FREE_MESSAGE_HANDLER_IDS) says which are unused, a process-wide   *)
(* map (MESSAGE_HANDLER_ID_TO_TRANSPORT_STORAGE) says which transport each *)
(* used one belongs to, and every transport keeps a bidirectional map      *)
(* between its ids and its listener configurations (source filter, sink    *)
(* filter, listener).  get_message_handler and release_message_handler     *)
(* hold the write locks of all three for their whole duration, so each is  *)
(* one step here.  A callback reads the process-wide map, releases the     *)
(* lock, converts the message and only then reads the transport's map:     *)
(* three separate steps between which ids may be released and recycled.    *)
(***************************************************************************)
EXTENDS FiniteSets

CONSTANTS
    Ids,         \* MessageHandlerIds, one per generated extern "C" function
    Transports,  \* UPTransportVsomeip instances of the process, over its life
    Configs,     \* listener configurations (source, sink, listener)
    Callbacks,   \* vsomeip dispatcher threads that run message handlers
    None         \* Option::None, also an absent entry of a map

ASSUME NoneAssumption == None \notin Ids \cup Transports \cup Configs

VARIABLES
    freeIds,          \* FREE_MESSAGE_HANDLER_IDS
    idToTransport,    \* MESSAGE_HANDLER_ID_TO_TRANSPORT_STORAGE
    listenerConfigs,  \* message_handler_id_and_listener_config, per transport
    phase,            \* life of each UPTransportVsomeip: absent .. gone
    pending,          \* configurations a running Drop has still to unregister
    handedOut,        \* ids whose function pointer some caller has received
    cb,               \* the callback each dispatcher thread is running
    owner             \* history: the configuration that held the id when its
                      \* callback began, None once that has been released

registry == <<freeIds, idToTransport, listenerConfigs>>
lifecycle == <<phase, pending>>
vars == <<registry, lifecycle, handedOut, cb, owner>>

GetErrors == {"OtherError", "ListenerIdAlreadyExists", "ListenerConfigAlreadyExists"}
GetResults == GetErrors \cup {"Ok"}

Idle == [pc |-> "idle", id |-> None, transport |-> None, listener |-> None]

\* Mutant: slots without a configuration are collected too.
ConfigsOfAllSlots(t) == {listenerConfigs[t][id] : id \in Ids}

ConfigsOf(t) == {listenerConfigs[t][id] : id \in Ids} \ {None}

Init ==
    /\ freeIds = Ids
    /\ idToTransport = [id \in Ids |-> None]
    /\ listenerConfigs = [t \in Transports |-> [id \in Ids |-> None]]
    /\ phase = [t \in Transports |-> "absent"]
    /\ pending = [t \in Transports |-> {}]
    /\ handedOut = {}
    /\ cb = [k \in Callbacks |-> Idle]
    /\ owner = [k \in Callbacks |-> None]

-----------------------------------------------------------------------------
(* The registry operations.  The pool, the transport map and the           *)
(* configuration map change together, under their three write locks.       *)

\* Mutant: the configuration is not looked for.
GetOutcomeIdOnly(t, c, id) ==
    IF idToTransport[id] # None THEN "OtherError"
    ELSE IF listenerConfigs[t][id] # None THEN "ListenerIdAlreadyExists"
    ELSE "Ok"

\* BiMap::insert_no_overwrite refuses an id or a configuration it already has;
\* the transport map refuses an id it already has.
GetOutcome(t, c, id) ==
    IF idToTransport[id] # None THEN "OtherError"
    ELSE IF listenerConfigs[t][id] # None THEN "ListenerIdAlreadyExists"
    ELSE IF c \in ConfigsOf(t) THEN "ListenerConfigAlreadyExists"
    ELSE "Ok"

\* Mutant: the rollback forgets the pool.
RollbackLeaksId(id, res) ==
    /\ freeIds' = freeIds \ {id}
    /\ idToTransport' = IF res = "OtherError"
                        THEN idToTransport
                        ELSE [idToTransport EXCEPT ![id] = None]
    /\ UNCHANGED listenerConfigs

\* The recorded rollback steps run in order: the id goes back to the pool and,
\* if it had been given to the transport, is taken away again.
Rollback(id, res) ==
    /\ freeIds' = (freeIds \ {id}) \cup {id}
    /\ idToTransport' = IF res = "OtherError"
                        THEN idToTransport
                        ELSE [idToTransport EXCEPT ![id] = None]
    /\ UNCHANGED listenerConfigs

\* Mutant: BiMap::insert, which moves a configuration to its new id.
get_message_handler_overwrites(t, c, id, res) ==
    /\ id \in freeIds /\ res = "Ok"
    /\ freeIds' = freeIds \ {id}
    /\ idToTransport' = [idToTransport EXCEPT ![id] = t]
    /\ listenerConfigs' = [listenerConfigs EXCEPT ![t] =
          [i \in Ids |-> IF i = id THEN c ELSE IF @[i] = c THEN None ELSE @[i]]]

\* Mutant: the id is taken without asking the pool or the maps.
get_message_handler_any(t, c, id, res) ==
    /\ res = "Ok"
    /\ freeIds' = freeIds \ {id}
    /\ idToTransport' = [idToTransport EXCEPT ![id] = t]
    /\ listenerConfigs' = [listenerConfigs EXCEPT ![t][id] = c]

\* Any free id may be picked: the pool is a HashSet iterated in arbitrary order.
get_message_handler(t, c, id, res) ==
    /\ id \in freeIds
    /\ res = GetOutcome(t, c, id)
    /\ \/ /\ res = "Ok"
          /\ freeIds' = freeIds \ {id}
          /\ idToTransport' = [idToTransport EXCEPT ![id] = t]
          /\ listenerConfigs' = [listenerConfigs EXCEPT ![t][id] = c]
       \/ res # "Ok" /\ Rollback(id, res)

get_message_handler_exhausted ==
    /\ freeIds = {}
    /\ UNCHANGED registry

\* Mutant: the transport keeps the listener of the released id.
release_message_handler_keeps_listener(t, c, id) ==
    /\ listenerConfigs[t][id] = c
    /\ freeIds' = freeIds \cup {id}
    /\ idToTransport' = [idToTransport EXCEPT ![id] = None]
    /\ UNCHANGED listenerConfigs

release_message_handler(t, c, id) ==
    /\ listenerConfigs[t][id] = c
    /\ freeIds' = freeIds \cup {id}
    /\ idToTransport' = [idToTransport EXCEPT ![id] = None]
    /\ listenerConfigs' = [listenerConfigs EXCEPT ![t][id] = None]

release_message_handler_not_found(t, c) ==
    /\ c \notin ConfigsOf(t)
    /\ UNCHANGED registry

\* History: callbacks already running for a released id lose their owner.
Disown(id) == owner' = [k \in Callbacks |-> IF cb[k].id = id THEN None ELSE owner[k]]

-----------------------------------------------------------------------------
(* Callers: the transport's API, and its Drop, which has exclusive access. *)

New(t) ==
    /\ phase[t] = "absent"
    /\ phase' = [phase EXCEPT ![t] = "live"]
    /\ UNCHANGED <<registry, pending, handedOut, cb, owner>>

Register(t, c) ==
    /\ phase[t] = "live"
    /\ UNCHANGED <<lifecycle, cb, owner>>
    /\ \/ get_message_handler_exhausted /\ UNCHANGED handedOut
       \/ \E id \in Ids, res \in GetResults :
             /\ get_message_handler(t, c, id, res)
             /\ handedOut' = IF res = "Ok" THEN handedOut \cup {id} ELSE handedOut

Unregister(t, c) ==
    /\ phase[t] = "live"
    /\ UNCHANGED <<lifecycle, handedOut, cb>>
    /\ \/ release_message_handler_not_found(t, c) /\ UNCHANGED owner
       \/ \E id \in Ids : release_message_handler(t, c, id) /\ Disown(id)

\* Drop first collects every configuration, then unregisters them one by one.
DropBegin(t) ==
    /\ phase[t] = "live"
    /\ phase' = [phase EXCEPT ![t] = "dropping"]
    /\ pending' = [pending EXCEPT ![t] = ConfigsOf(t)]
    /\ UNCHANGED <<registry, handedOut, cb, owner>>

DropRelease(t, c) ==
    /\ phase[t] = "dropping"
    /\ c \in pending[t]
    /\ pending' = [pending EXCEPT ![t] = @ \ {c}]
    /\ \E id \in Ids : release_message_handler(t, c, id) /\ Disown(id)
    /\ UNCHANGED <<phase, handedOut, cb>>

DropEnd(t) ==
    /\ phase[t] = "dropping"
    /\ pending[t] = {}
    /\ phase' = [phase EXCEPT ![t] = "gone"]
    /\ UNCHANGED <<registry, pending, handedOut, cb, owner>>

-----------------------------------------------------------------------------
(* call_shared_extern_fn: one callback of a dispatcher thread.             *)

\* Weak::upgrade succeeds while the transport or another callback that has
\* upgraded it, and not yet finished converting, holds the storage.
Upgradable(t) ==
    \/ phase[t] \in {"live", "dropping"}
    \/ \E k \in Callbacks : cb[k].transport = t

\* vsomeip may call any function it was ever given.
CallbackLookup(k, id) ==
    /\ cb[k].pc = "idle"
    /\ id \in handedOut
    /\ LET t == idToTransport[id] IN
       IF t # None /\ Upgradable(t)
       THEN /\ cb' = [cb EXCEPT ![k] = [pc |-> "convert", id |-> id,
                                        transport |-> t, listener |-> None]]
            /\ owner' = [owner EXCEPT ![k] = listenerConfigs[t][id]]
       ELSE UNCHANGED <<cb, owner>>
    /\ UNCHANGED <<registry, lifecycle, handedOut>>

\* convert_vsomeip_msg_to_umsg: an error ends the callback.
CallbackConvert(k) ==
    /\ cb[k].pc = "convert"
    /\ \/ /\ cb' = [cb EXCEPT ![k].pc = "fetch"]
          /\ UNCHANGED owner
       \/ /\ cb' = [cb EXCEPT ![k] = Idle]
          /\ owner' = [owner EXCEPT ![k] = None]
    /\ UNCHANGED <<registry, lifecycle, handedOut>>

\* get_listener_for_message_handler_id: without a listener the message is lost.
\* The storage is let go in either case.
CallbackFetch(k) ==
    /\ cb[k].pc = "fetch"
    /\ LET c == listenerConfigs[cb[k].transport][cb[k].id] IN
       IF c # None
       THEN /\ cb' = [cb EXCEPT ![k] = [pc |-> "deliver", id |-> cb[k].id,
                                        transport |-> None, listener |-> c]]
            /\ UNCHANGED owner
       ELSE /\ cb' = [cb EXCEPT ![k] = Idle]
            /\ owner' = [owner EXCEPT ![k] = None]
    /\ UNCHANGED <<registry, lifecycle, handedOut>>

\* The listener's on_receive is spawned on the transport's runtime.
CallbackDeliver(k) ==
    /\ cb[k].pc = "deliver"
    /\ cb' = [cb EXCEPT ![k] = Idle]
    /\ owner' = [owner EXCEPT ![k] = None]
    /\ UNCHANGED <<registry, lifecycle, handedOut>>

TransportNext ==
    \E t \in Transports :
        \/ New(t) \/ DropBegin(t) \/ DropEnd(t)
        \/ \E c \in Configs : Register(t, c) \/ Unregister(t, c) \/ DropRelease(t, c)

CallbackNext ==
    \E k \in Callbacks :
        \/ \E id \in Ids : CallbackLookup(k, id)
        \/ CallbackConvert(k) \/ CallbackFetch(k) \/ CallbackDeliver(k)

Next == TransportNext \/ CallbackNext

Spec == Init /\ [][Next]_vars

-----------------------------------------------------------------------------
(* Properties.                                                             *)

CallbackStates ==
    [pc : {"idle", "convert", "fetch", "deliver"}, id : Ids \cup {None},
     transport : Transports \cup {None}, listener : Configs \cup {None}]

\* Every variable has the type its declaration names.
TypeOK ==
    /\ freeIds \in SUBSET Ids
    /\ idToTransport \in [Ids -> Transports \cup {None}]
    /\ listenerConfigs \in [Transports -> [Ids -> Configs \cup {None}]]
    /\ phase \in [Transports -> {"absent", "live", "dropping", "gone"}]
    /\ pending \in [Transports -> SUBSET Configs]
    /\ handedOut \in SUBSET Ids
    /\ cb \in [Callbacks -> CallbackStates]
    /\ owner \in [Callbacks -> Configs \cup {None}]

\* The pool and the process-wide transport map never disagree: an id is free
\* exactly when it belongs to no transport, so none leaks out of the pool (also
\* when get_message_handler rolls back) and none is handed out twice.
PoolPartition == \A id \in Ids : id \in freeIds <=> idToTransport[id] = None

\* The process-wide map and the per-transport maps agree: an id has a listener
\* in exactly the transport a callback would be routed to.
RoutedToOwner ==
    \A id \in Ids, t \in Transports :
        listenerConfigs[t][id] # None <=> idToTransport[id] = t

\* One listener configuration holds at most one id of a transport, so releasing
\* it releases everything get_message_handler took for it.
OneHandlerPerConfig ==
    \A t \in Transports : \A i, j \in Ids :
        listenerConfigs[t][i] # None /\ listenerConfigs[t][i] = listenerConfigs[t][j] => i = j

\* A transport that has been dropped holds no handler, although callbacks that
\* upgraded its storage earlier may still be running: its ids all went back.
NothingHeldAfterDrop ==
    \A t \in Transports : phase[t] \in {"absent", "gone"} =>
        \A id \in Ids : idToTransport[id] # t /\ listenerConfigs[t][id] = None

\* What a running Drop has still to unregister is exactly what the transport
\* still holds: the snapshot taken at its start does not go stale.
DropSnapshotCurrent ==
    \A t \in Transports : phase[t] = "dropping" => pending[t] = ConfigsOf(t)

\* A callback between its two reads still finds the listener that held its id
\* when it began, unless that very listener was released in between: a message
\* is lost or goes to another listener only through such a release.
InFlightKeepsListener ==
    \A k \in Callbacks :
        cb[k].pc \in {"convert", "fetch"} /\ owner[k] # None =>
            listenerConfigs[cb[k].transport][cb[k].id] = owner[k]

\* An id changes hands only by way of the pool: no step moves it from one
\* transport to another, or from one configuration to another.
HandoverThroughPool ==
    [][\A id \in Ids :
          /\ idToTransport[id] # None /\ idToTransport'[id] # None
                => idToTransport'[id] = idToTransport[id]
          /\ \A t \in Transports :
                listenerConfigs[t][id] # None /\ listenerConfigs'[t][id] # None
                    => listenerConfigs'[t][id] = listenerConfigs[t][id]]_vars

=============================================================================
