-------------------------- MODULE HandlerRegistryLocks --------------------------
(***************************************************************************)
(* The message handler registry at the level of its locks.                 *)
(*                                                                         *)
(* HandlerRegistry takes get_message_handler and release_message_handler   *)
(* as single steps.  Here each is what the code does: it write-locks the   *)
(* transport map, the pool and the transport's configuration map, in that  *)
(* order, changes them one after the other, and gives the locks back in an *)
(* order that differs from path to path.  A rollback step owns the guard   *)
(* of what it undoes, so the pool is unlocked while the transport map      *)
(* still names an id that is free again.  Drop lists the configurations    *)
(* with one read lock for the ids and another for each of them.            *)
(*                                                                         *)
(* A reader holds its lock for a single look-up and is one step, possible  *)
(* while no writer holds the lock.                                         *)
(***************************************************************************)
EXTENDS HandlerRegistry, Sequences

CONSTANT Threads     \* application threads that use the transports

ASSUME ThreadsAssumption == None \notin Threads

VARIABLES
    mapLock,      \* writer of MESSAGE_HANDLER_ID_TO_TRANSPORT_STORAGE
    poolLock,     \* writer of FREE_MESSAGE_HANDLER_IDS
    configsLock,  \* writer of each transport's message_handler_id_and_listener_config
    thread        \* the operation each thread is executing

locks == <<mapLock, poolLock, configsLock>>
lvars == <<vars, locks, thread>>

\* Mutant: a release locks in the opposite order.
LockOrderByOperation(op) ==
    IF op = "get" THEN <<"map", "pool", "configs">> ELSE <<"configs", "pool", "map">>

\* The write locks an operation takes before it touches anything.
LockOrder(op) == <<"map", "pool", "configs">>

AtRest == [pc |-> "idle", op |-> None, t |-> None, c |-> None, id |-> None,
           ids |-> {}, found |-> {}, guards |-> <<>>]

LocksInit ==
    /\ Init
    /\ mapLock = None
    /\ poolLock = None
    /\ configsLock = [t \in Transports |-> None]
    /\ thread = [k \in Threads |-> AtRest]

Goto(k, pc) == thread' = [thread EXCEPT ![k].pc = pc]

\* The locks in the order in which a path out of an operation drops its guards.
Unlocking(k, order) == thread' = [thread EXCEPT ![k].pc = "unlock", ![k].guards = order]

-----------------------------------------------------------------------------
(* Calls.  Drop has exclusive access to its transport.                     *)

Unused(t) == \A k \in Threads : thread[k].t # t

Usable(t) ==
    phase[t] = "live" /\ \A k \in Threads : ~(thread[k].t = t /\ thread[k].op = "list")

Start(k, op, t, c) ==
    /\ thread[k].pc = "idle"
    /\ thread' = [thread EXCEPT ![k] =
          [AtRest EXCEPT !.pc = IF op = "list" THEN "ids" ELSE "lock",
                         !.op = op, !.t = t, !.c = c, !.guards = LockOrder(op)]]
    /\ UNCHANGED <<vars, locks>>

StartGet(k, t, c) == Usable(t) /\ Start(k, "get", t, c)

StartRelease(k, t, c) ==
    /\ \/ Usable(t)
       \/ phase[t] = "dropping" /\ Unused(t) /\ c \in pending[t]
    /\ Start(k, "release", t, c)

StartDrop(k, t) == Usable(t) /\ Unused(t) /\ Start(k, "list", t, None)

NewTransport(t) == New(t) /\ UNCHANGED <<locks, thread>>

EndDrop(t) == Unused(t) /\ DropEnd(t) /\ UNCHANGED <<locks, thread>>

-----------------------------------------------------------------------------
(* Taking and dropping the write locks.                                    *)

Holder(lock, t) ==
    CASE lock = "map" -> mapLock [] lock = "pool" -> poolLock [] lock = "configs" -> configsLock[t]

SetHolder(lock, t, k) ==
    /\ mapLock' = IF lock = "map" THEN k ELSE mapLock
    /\ poolLock' = IF lock = "pool" THEN k ELSE poolLock
    /\ configsLock' = IF lock = "configs" THEN [configsLock EXCEPT ![t] = k] ELSE configsLock

Lock(k) ==
    /\ thread[k].pc = "lock"
    /\ LET lock == Head(thread[k].guards)
           rest == Tail(thread[k].guards)
       IN /\ Holder(lock, thread[k].t) = None
          /\ SetHolder(lock, thread[k].t, k)
          /\ thread' = [thread EXCEPT ![k].guards = rest,
                ![k].pc = IF rest # <<>> THEN @
                          ELSE IF thread[k].op = "get" THEN "find" ELSE "lookup"]
    /\ UNCHANGED vars

Unlock(k) ==
    /\ thread[k].pc = "unlock"
    /\ LET rest == Tail(thread[k].guards) IN
       /\ SetHolder(Head(thread[k].guards), thread[k].t, None)
       /\ thread' = [thread EXCEPT ![k] =
             IF rest = <<>> THEN AtRest ELSE [@ EXCEPT !.guards = rest]]
    /\ UNCHANGED vars

-----------------------------------------------------------------------------
(* get_message_handler.                                                    *)

find_available_message_handler_id(k) ==
    /\ thread[k].pc = "find"
    /\ \/ /\ freeIds = {}
          /\ Unlocking(k, <<"configs", "pool", "map">>)
          /\ UNCHANGED freeIds
       \/ \E id \in freeIds :
             /\ freeIds' = freeIds \ {id}
             /\ thread' = [thread EXCEPT ![k].pc = "insertTransport", ![k].id = id]
    /\ UNCHANGED <<idToTransport, listenerConfigs, lifecycle, handedOut, cb, owner, locks>>

\* An entry that is occupied already ends in the first rollback step only.
insert_message_handler_id_transport(k) ==
    /\ thread[k].pc = "insertTransport"
    /\ LET id == thread[k].id IN
       IF idToTransport[id] # None
       THEN /\ thread' = [thread EXCEPT ![k].pc = "rollbackPool",
                                        ![k].guards = <<"configs", "map">>]
            /\ UNCHANGED idToTransport
       ELSE /\ idToTransport' = [idToTransport EXCEPT ![id] = thread[k].t]
            /\ Goto(k, "insertConfig")
    /\ UNCHANGED <<freeIds, listenerConfigs, lifecycle, handedOut, cb, owner, locks>>

\* On success the rollback steps are dropped unused, with the guards they own.
insert_message_handler_id_and_listener_config(k) ==
    /\ thread[k].pc = "insertConfig"
    /\ LET id == thread[k].id
           t == thread[k].t
           c == thread[k].c
       IN IF listenerConfigs[t][id] # None \/ c \in ConfigsOf(t)
          THEN Goto(k, "rollbackPool") /\ UNCHANGED <<listenerConfigs, handedOut>>
          ELSE /\ listenerConfigs' = [listenerConfigs EXCEPT ![t][id] = c]
               /\ handedOut' = handedOut \cup {id}
               /\ Unlocking(k, <<"pool", "map", "configs">>)
    /\ UNCHANGED <<freeIds, idToTransport, lifecycle, cb, owner, locks>>

\* Mutant: the first rollback step also owns the guard of the transport map.
RollbackPoolUnlocksMap(k) ==
    /\ thread[k].pc = "rollbackPool"
    /\ freeIds' = freeIds \cup {thread[k].id}
    /\ poolLock' = None /\ mapLock' = None
    /\ Goto(k, IF thread[k].guards = <<>> THEN "rollbackTransport" ELSE "unlock")
    /\ UNCHANGED <<idToTransport, listenerConfigs, lifecycle, handedOut, cb, owner, configsLock>>

\* The closure that frees the id owns the pool's guard and drops it.
RollbackPool(k) ==
    /\ thread[k].pc = "rollbackPool"
    /\ freeIds' = freeIds \cup {thread[k].id}
    /\ poolLock' = None
    /\ Goto(k, IF thread[k].guards = <<>> THEN "rollbackTransport" ELSE "unlock")
    /\ UNCHANGED <<idToTransport, listenerConfigs, lifecycle, handedOut, cb, owner,
                   mapLock, configsLock>>

RollbackTransport(k) ==
    /\ thread[k].pc = "rollbackTransport"
    /\ idToTransport' = [idToTransport EXCEPT ![thread[k].id] = None]
    /\ mapLock' = None
    /\ Unlocking(k, <<"configs">>)
    /\ UNCHANGED <<freeIds, listenerConfigs, lifecycle, handedOut, cb, owner,
                   poolLock, configsLock>>

-----------------------------------------------------------------------------
(* release_message_handler.                                                *)

get_message_handler_id_for_listener_config(k) ==
    /\ thread[k].pc = "lookup"
    /\ LET held == {id \in Ids : listenerConfigs[thread[k].t][id] = thread[k].c} IN
       \/ held = {} /\ Unlocking(k, <<"configs", "pool", "map">>)
       \/ \E id \in held :
             thread' = [thread EXCEPT ![k].pc = "free", ![k].id = id]
    /\ UNCHANGED <<vars, locks>>

free_message_handler_id(k) ==
    /\ thread[k].pc = "free"
    /\ freeIds' = freeIds \cup {thread[k].id}
    /\ Goto(k, "removeTransport")
    /\ UNCHANGED <<idToTransport, listenerConfigs, lifecycle, handedOut, cb, owner, locks>>

remove_message_handler_id_transport(k) ==
    /\ thread[k].pc = "removeTransport"
    /\ idToTransport' = [idToTransport EXCEPT ![thread[k].id] = None]
    /\ Goto(k, "removeConfig")
    /\ UNCHANGED <<freeIds, listenerConfigs, lifecycle, handedOut, cb, owner, locks>>

\* The last change of a release, which the caller of Drop notes too.
remove_message_handler_id_and_listener_config(k) ==
    /\ thread[k].pc = "removeConfig"
    /\ LET t == thread[k].t IN
       /\ listenerConfigs' = [listenerConfigs EXCEPT ![t][thread[k].id] = None]
       /\ pending' = [pending EXCEPT ![t] = @ \ {thread[k].c}]
    /\ Disown(thread[k].id)
    /\ Unlocking(k, <<"configs", "pool", "map">>)
    /\ UNCHANGED <<freeIds, idToTransport, phase, handedOut, cb, locks>>

-----------------------------------------------------------------------------
(* get_all_listener_configs, for Drop.                                     *)

get_message_handler_ids(k) ==
    /\ thread[k].pc = "ids"
    /\ LET t == thread[k].t IN
       /\ configsLock[t] = None
       /\ thread' = [thread EXCEPT ![k].pc = "configs",
                        ![k].ids = {id \in Ids : listenerConfigs[t][id] # None}]
    /\ UNCHANGED <<vars, locks>>

get_listener_config_for_message_handler_id(k) ==
    /\ thread[k].pc = "configs"
    /\ LET t == thread[k].t IN
       /\ configsLock[t] = None
       /\ \E id \in thread[k].ids :
             thread' = [thread EXCEPT ![k].ids = @ \ {id},
                           ![k].found = @ \cup ({listenerConfigs[t][id]} \ {None})]
    /\ UNCHANGED <<vars, locks>>

\* Every configuration has been read: Drop begins to unregister them.
Listed(k) ==
    /\ thread[k].pc = "configs" /\ thread[k].ids = {}
    /\ LET t == thread[k].t IN
       /\ phase' = [phase EXCEPT ![t] = "dropping"]
       /\ pending' = [pending EXCEPT ![t] = thread[k].found]
    /\ thread' = [thread EXCEPT ![k] = AtRest]
    /\ UNCHANGED <<registry, handedOut, cb, owner, locks>>

-----------------------------------------------------------------------------
(* Callbacks read under a lock of their own.                               *)

get_message_handler_id_transport(k, id) ==
    /\ mapLock = None
    /\ CallbackLookup(k, id)
    /\ UNCHANGED <<locks, thread>>

get_listener_for_message_handler_id(k) ==
    /\ cb[k].pc = "fetch" /\ configsLock[cb[k].transport] = None
    /\ CallbackFetch(k)
    /\ UNCHANGED <<locks, thread>>

ConvertOrDeliver(k) ==
    /\ CallbackConvert(k) \/ CallbackDeliver(k)
    /\ UNCHANGED <<locks, thread>>

Acquire(k) ==
    Lock(k) \/ get_message_handler_ids(k) \/ get_listener_config_for_message_handler_id(k)

Work(k) ==
    \/ find_available_message_handler_id(k) \/ insert_message_handler_id_transport(k)
    \/ insert_message_handler_id_and_listener_config(k)
    \/ RollbackPool(k) \/ RollbackTransport(k)
    \/ get_message_handler_id_for_listener_config(k) \/ free_message_handler_id(k)
    \/ remove_message_handler_id_transport(k)
    \/ remove_message_handler_id_and_listener_config(k)
    \/ Listed(k) \/ Unlock(k)

LocksNext ==
    \/ \E t \in Transports : NewTransport(t) \/ EndDrop(t)
    \/ \E k \in Threads :
          \/ \E t \in Transports :
                StartDrop(k, t) \/ \E c \in Configs : StartGet(k, t, c) \/ StartRelease(k, t, c)
          \/ Acquire(k) \/ Work(k)
    \/ \E k \in Callbacks :
          \/ \E id \in Ids : get_message_handler_id_transport(k, id)
          \/ get_listener_for_message_handler_id(k) \/ ConvertOrDeliver(k)

LocksSpec == LocksInit /\ [][LocksNext]_lvars

\* A thread that holds its locks goes on; one that waits for a lock which is
\* free again and again gets it.
LocksFairness == \A k \in Threads : WF_lvars(Work(k)) /\ SF_lvars(Acquire(k))

FairLocksSpec == LocksSpec /\ LocksFairness

-----------------------------------------------------------------------------
(* The refinement: an operation happens with its last change.  Until then  *)
(* the registry is what it would be if the operation had not begun.        *)

\* Ids of operations under way, by how far they have got.
IdsAt(pcs) == {thread[k].id : k \in {j \in Threads : thread[j].pc \in pcs}}

Taken == IdsAt({"insertTransport", "insertConfig", "rollbackPool", "rollbackTransport"})
Given == IdsAt({"insertConfig", "rollbackPool", "rollbackTransport"})
Freed == IdsAt({"removeTransport", "removeConfig"})
Withdrawn == IdsAt({"removeConfig"})

HolderOf(id) == CHOOSE t \in Transports : listenerConfigs[t][id] # None

PoolSeen == (freeIds \cup Taken) \ Freed

MapSeen ==
    [id \in Ids |-> IF id \in Given THEN None
                    ELSE IF id \in Withdrawn THEN HolderOf(id)
                    ELSE idToTransport[id]]

Abstract == INSTANCE HandlerRegistry WITH freeIds <- PoolSeen, idToTransport <- MapSeen

\* Operations that lock, change and unlock three structures one by one, next to
\* readers that lock one of them, look to everyone like the single steps of
\* HandlerRegistry: no callback, registration or Drop sees half of one.
RegistryAtomic == Abstract!Spec

\* Every operation comes to its end: no order in which threads lock and unlock
\* makes them wait for each other.
OperationsFinish == \A k \in Threads : thread[k].pc # "idle" ~> thread[k].pc = "idle"

=============================================================================
