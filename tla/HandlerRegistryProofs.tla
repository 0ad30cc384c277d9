------------------------- MODULE HandlerRegistryProofs -------------------------
(***************************************************************************)
(* The invariants of HandlerRegistry for every number of ids, transports,  *)
(* configurations and dispatcher threads.                                  *)
(***************************************************************************)
EXTENDS HandlerRegistry, TLAPS

\* A callback between its two reads knows its id and its transport.
CallbackShape ==
    \A k \in Callbacks :
        cb[k].pc \in {"convert", "fetch"} => cb[k].id \in Ids /\ cb[k].transport \in Transports

\* Agreement of the pool, the transport map and the configuration maps.
RegistryInv == PoolPartition /\ RoutedToOwner /\ OneHandlerPerConfig

\* The inductive invariant.
IInv ==
    /\ TypeOK
    /\ CallbackShape
    /\ RegistryInv
    /\ NothingHeldAfterDrop
    /\ DropSnapshotCurrent
    /\ InFlightKeepsListener

-----------------------------------------------------------------------------
(* The registry operations, apart from who calls them.                     *)

\* With an agreeing registry a free id is refused for one reason only, that
\* the transport already has the configuration; get_message_handler's checks
\* for an id that is already in use never fire.
LEMMA FreeIdIsUnused ==
  ASSUME TypeOK, RegistryInv,
         NEW t \in Transports, NEW c \in Configs, NEW id \in freeIds
  PROVE  /\ id \in Ids
         /\ idToTransport[id] = None
         /\ \A u \in Transports : listenerConfigs[u][id] = None
         /\ GetOutcome(t, c, id) \in {"Ok", "ListenerConfigAlreadyExists"}
         /\ GetOutcome(t, c, id) = "Ok" => c \notin ConfigsOf(t)
<1>1. id \in Ids /\ idToTransport[id] = None
  BY DEF TypeOK, RegistryInv, PoolPartition
<1>2. \A u \in Transports : listenerConfigs[u][id] = None
  BY <1>1, NoneAssumption DEF TypeOK, RegistryInv, RoutedToOwner
<1>3. QED
  BY <1>1, <1>2 DEF GetOutcome

\* A refused get_message_handler leaves the registry as it found it: the
\* rollback undoes exactly what had been done.
LEMMA RefusalRollsBack ==
  ASSUME TypeOK, RegistryInv,
         NEW t \in Transports, NEW c \in Configs, NEW id \in Ids, NEW res \in GetErrors,
         get_message_handler(t, c, id, res)
  PROVE  UNCHANGED registry
<1>1. id \in freeIds /\ res # "Ok" /\ Rollback(id, res)
  BY DEF get_message_handler, GetErrors
<1>2. idToTransport[id] = None
  BY <1>1, FreeIdIsUnused
<1>3. freeIds' = freeIds /\ listenerConfigs' = listenerConfigs
  BY <1>1 DEF Rollback
<1>4. idToTransport' = idToTransport
  BY <1>1, <1>2 DEF Rollback, TypeOK
<1>5. QED
  BY <1>3, <1>4 DEF registry

\* What a granted handler changes.
LEMMA GrantKeepsRegistryInv ==
  ASSUME TypeOK, RegistryInv,
         NEW t \in Transports, NEW c \in Configs, NEW id \in Ids,
         get_message_handler(t, c, id, "Ok")
  PROVE  /\ RegistryInv'
         /\ freeIds' \in SUBSET Ids
         /\ idToTransport' \in [Ids -> Transports \cup {None}]
         /\ listenerConfigs' \in [Transports -> [Ids -> Configs \cup {None}]]
         /\ listenerConfigs[t][id] = None /\ idToTransport[id] = None
         /\ idToTransport' = [idToTransport EXCEPT ![id] = t]
         /\ listenerConfigs' = [listenerConfigs EXCEPT ![t][id] = c]
<1>1. /\ id \in freeIds
      /\ "Ok" = GetOutcome(t, c, id)
      /\ freeIds' = freeIds \ {id}
      /\ idToTransport' = [idToTransport EXCEPT ![id] = t]
      /\ listenerConfigs' = [listenerConfigs EXCEPT ![t][id] = c]
  BY DEF get_message_handler
<1>2. /\ idToTransport[id] = None
      /\ \A u \in Transports : listenerConfigs[u][id] = None
      /\ c \notin ConfigsOf(t)
  BY <1>1, FreeIdIsUnused
<1>3. /\ freeIds' \in SUBSET Ids
      /\ idToTransport' \in [Ids -> Transports \cup {None}]
      /\ listenerConfigs' \in [Transports -> [Ids -> Configs \cup {None}]]
  BY <1>1 DEF TypeOK
<1>4. PoolPartition'
  BY <1>1, NoneAssumption DEF TypeOK, RegistryInv, PoolPartition
<1>5. RoutedToOwner'
  BY <1>1, <1>2, NoneAssumption DEF TypeOK, RegistryInv, RoutedToOwner
<1>6. OneHandlerPerConfig'
  BY <1>1, <1>2, NoneAssumption DEF TypeOK, RegistryInv, OneHandlerPerConfig, ConfigsOf
<1>7. QED
  BY <1>1, <1>2, <1>3, <1>4, <1>5, <1>6 DEF RegistryInv

\* What releasing a configuration changes.
LEMMA ReleaseKeepsRegistryInv ==
  ASSUME TypeOK, RegistryInv,
         NEW t \in Transports, NEW c \in Configs, NEW id \in Ids,
         release_message_handler(t, c, id)
  PROVE  /\ RegistryInv'
         /\ freeIds' \in SUBSET Ids
         /\ idToTransport' \in [Ids -> Transports \cup {None}]
         /\ listenerConfigs' \in [Transports -> [Ids -> Configs \cup {None}]]
         /\ listenerConfigs[t][id] = c /\ idToTransport[id] = t
         /\ idToTransport' = [idToTransport EXCEPT ![id] = None]
         /\ listenerConfigs' = [listenerConfigs EXCEPT ![t][id] = None]
         /\ (ConfigsOf(t))' = ConfigsOf(t) \ {c}
<1>1. /\ listenerConfigs[t][id] = c
      /\ freeIds' = freeIds \cup {id}
      /\ idToTransport' = [idToTransport EXCEPT ![id] = None]
      /\ listenerConfigs' = [listenerConfigs EXCEPT ![t][id] = None]
  BY DEF release_message_handler
<1>2. idToTransport[id] = t
  BY <1>1, NoneAssumption DEF TypeOK, RegistryInv, RoutedToOwner
<1>3. /\ freeIds' \in SUBSET Ids
      /\ idToTransport' \in [Ids -> Transports \cup {None}]
      /\ listenerConfigs' \in [Transports -> [Ids -> Configs \cup {None}]]
  BY <1>1 DEF TypeOK
<1>4. PoolPartition'
  BY <1>1 DEF TypeOK, RegistryInv, PoolPartition
<1>5. RoutedToOwner'
  BY <1>1, <1>2, NoneAssumption DEF TypeOK, RegistryInv, RoutedToOwner
<1>6. OneHandlerPerConfig'
  BY <1>1 DEF TypeOK, RegistryInv, OneHandlerPerConfig
<1>7. (ConfigsOf(t))' = ConfigsOf(t) \ {c}
  <2>1. \A i \in Ids : i # id => listenerConfigs[t][i] # c
    BY <1>1, NoneAssumption DEF RegistryInv, OneHandlerPerConfig
  <2>2. \A i \in Ids : listenerConfigs'[t][i] = IF i = id THEN None ELSE listenerConfigs[t][i]
    BY <1>1 DEF TypeOK
  <2>3. QED
    BY <1>1, <2>1, <2>2 DEF ConfigsOf
<1>8. QED
  BY <1>1, <1>2, <1>3, <1>4, <1>5, <1>6, <1>7 DEF RegistryInv

-----------------------------------------------------------------------------
(* The inductive invariant.                                                *)

LEMMA InitEstablishesIInv == Init => IInv
<1> SUFFICES ASSUME Init PROVE IInv
  OBVIOUS
<1>1. TypeOK
  BY DEF Init, TypeOK, Idle, CallbackStates
<1>2. CallbackShape /\ InFlightKeepsListener
  BY DEF Init, CallbackShape, InFlightKeepsListener, Idle
<1>3. RegistryInv
  BY NoneAssumption
  DEF Init, RegistryInv, PoolPartition, RoutedToOwner, OneHandlerPerConfig
<1>4. NothingHeldAfterDrop /\ DropSnapshotCurrent
  BY NoneAssumption DEF Init, NothingHeldAfterDrop, DropSnapshotCurrent
<1>5. QED
  BY <1>1, <1>2, <1>3, <1>4 DEF IInv

\* Register, whichever way it ends.
LEMMA RegisterKeepsIInv ==
  ASSUME IInv, NEW t \in Transports, NEW c \in Configs, Register(t, c)
  PROVE  IInv'
<1>0. /\ phase[t] = "live"
      /\ UNCHANGED <<phase, pending, cb, owner>>
  BY DEF Register, lifecycle
<1>1. CASE UNCHANGED registry /\ handedOut' \in SUBSET Ids
  <2>1. UNCHANGED <<freeIds, idToTransport, listenerConfigs>>
    BY <1>1 DEF registry
  <2>2. QED
    BY <1>0, <1>1, <2>1
    DEF IInv, TypeOK, CallbackShape, RegistryInv, PoolPartition, RoutedToOwner,
        OneHandlerPerConfig, NothingHeldAfterDrop, DropSnapshotCurrent,
        InFlightKeepsListener, ConfigsOf
<1>2. ASSUME NEW id \in Ids, get_message_handler(t, c, id, "Ok"),
             handedOut' = handedOut \cup {id}
      PROVE  IInv'
  <2>1. /\ RegistryInv'
        /\ freeIds' \in SUBSET Ids
        /\ idToTransport' \in [Ids -> Transports \cup {None}]
        /\ listenerConfigs' \in [Transports -> [Ids -> Configs \cup {None}]]
        /\ listenerConfigs[t][id] = None /\ idToTransport[id] = None
        /\ idToTransport' = [idToTransport EXCEPT ![id] = t]
        /\ listenerConfigs' = [listenerConfigs EXCEPT ![t][id] = c]
    BY <1>2, GrantKeepsRegistryInv DEF IInv
  <2>2. TypeOK'
    BY <1>0, <1>2, <2>1 DEF IInv, TypeOK
  <2>3. CallbackShape'
    BY <1>0 DEF IInv, CallbackShape
  <2>4. NothingHeldAfterDrop'
    BY <1>0, <2>1 DEF IInv, TypeOK, NothingHeldAfterDrop
  <2>5. DropSnapshotCurrent'
    <3> SUFFICES ASSUME NEW u \in Transports, phase[u] = "dropping"
                 PROVE  pending[u] = (ConfigsOf(u))'
      BY <1>0 DEF DropSnapshotCurrent
    <3>1. u # t
      BY <1>0
    <3>2. listenerConfigs'[u] = listenerConfigs[u]
      BY <2>1, <3>1 DEF IInv, TypeOK
    <3>3. QED
      BY <3>2 DEF IInv, DropSnapshotCurrent, ConfigsOf
  <2>6. InFlightKeepsListener'
    <3> SUFFICES ASSUME NEW k \in Callbacks, cb[k].pc \in {"convert", "fetch"}, owner[k] # None
                 PROVE  listenerConfigs'[cb[k].transport][cb[k].id] = owner[k]
      BY <1>0 DEF InFlightKeepsListener
    <3>1. /\ cb[k].id \in Ids /\ cb[k].transport \in Transports
          /\ listenerConfigs[cb[k].transport][cb[k].id] = owner[k]
      BY DEF IInv, CallbackShape, InFlightKeepsListener
    <3>2. ~(cb[k].transport = t /\ cb[k].id = id)
      BY <2>1, <3>1
    <3>3. QED
      BY <2>1, <3>1, <3>2 DEF IInv, TypeOK
  <2>7. QED
    BY <2>1, <2>2, <2>3, <2>4, <2>5, <2>6 DEF IInv
<1>3. CASE get_message_handler_exhausted /\ UNCHANGED handedOut
  BY <1>1, <1>3 DEF get_message_handler_exhausted, IInv, TypeOK
<1>4. ASSUME NEW id \in Ids, NEW res \in GetResults, get_message_handler(t, c, id, res),
             handedOut' = IF res = "Ok" THEN handedOut \cup {id} ELSE handedOut
      PROVE  IInv'
  <2>1. CASE res = "Ok"
    BY <1>2, <1>4, <2>1
  <2>2. CASE res \in GetErrors
    <3>1. UNCHANGED registry
      BY <1>4, <2>2, RefusalRollsBack DEF IInv
    <3>2. handedOut' = handedOut
      BY <1>4, <2>2 DEF GetErrors
    <3>3. QED
      BY <1>1, <3>1, <3>2 DEF IInv, TypeOK
  <2>3. QED
    BY <2>1, <2>2 DEF GetResults
<1>5. QED
  BY <1>3, <1>4 DEF Register

\* Releasing a configuration, by the API or by Drop: everything but the
\* agreement of a running Drop with what is left.
LEMMA ReleaseKeepsIInv ==
  ASSUME IInv, NEW t \in Transports, NEW c \in Configs, NEW id \in Ids,
         release_message_handler(t, c, id), Disown(id),
         UNCHANGED <<phase, handedOut, cb>>,
         pending' \in [Transports -> SUBSET Configs]
  PROVE  /\ TypeOK' /\ CallbackShape' /\ RegistryInv'
         /\ NothingHeldAfterDrop' /\ InFlightKeepsListener'
         /\ (ConfigsOf(t))' = ConfigsOf(t) \ {c}
         /\ \A u \in Transports : u # t => (ConfigsOf(u))' = ConfigsOf(u)
<1>1. /\ RegistryInv'
      /\ freeIds' \in SUBSET Ids
      /\ idToTransport' \in [Ids -> Transports \cup {None}]
      /\ listenerConfigs' \in [Transports -> [Ids -> Configs \cup {None}]]
      /\ idToTransport' = [idToTransport EXCEPT ![id] = None]
      /\ listenerConfigs' = [listenerConfigs EXCEPT ![t][id] = None]
      /\ (ConfigsOf(t))' = ConfigsOf(t) \ {c}
  BY ReleaseKeepsRegistryInv DEF IInv
<1>2. owner' = [k \in Callbacks |-> IF cb[k].id = id THEN None ELSE owner[k]]
  BY DEF Disown
<1>3. TypeOK'
  <2>1. owner' \in [Callbacks -> Configs \cup {None}]
    BY <1>2 DEF IInv, TypeOK
  <2>2. QED
    BY <1>1, <2>1 DEF IInv, TypeOK
<1>4. CallbackShape'
  BY DEF IInv, CallbackShape
<1>5. NothingHeldAfterDrop'
  BY <1>1, NoneAssumption DEF IInv, TypeOK, NothingHeldAfterDrop
<1>6. InFlightKeepsListener'
  <2> SUFFICES ASSUME NEW k \in Callbacks, cb[k].pc \in {"convert", "fetch"}, owner'[k] # None
               PROVE  listenerConfigs'[cb[k].transport][cb[k].id] = owner'[k]
    BY DEF InFlightKeepsListener
  <2>1. cb[k].id # id /\ owner'[k] = owner[k]
    BY <1>2
  <2>2. /\ cb[k].id \in Ids /\ cb[k].transport \in Transports
        /\ listenerConfigs[cb[k].transport][cb[k].id] = owner[k]
    BY <2>1 DEF IInv, CallbackShape, InFlightKeepsListener
  <2>3. QED
    BY <1>1, <2>1, <2>2 DEF IInv, TypeOK
<1>7. ASSUME NEW u \in Transports, u # t
      PROVE  (ConfigsOf(u))' = ConfigsOf(u)
  <2>1. listenerConfigs'[u] = listenerConfigs[u]
    BY <1>1, <1>7 DEF IInv, TypeOK
  <2>2. QED
    BY <2>1 DEF ConfigsOf
<1>8. QED
  BY <1>1, <1>3, <1>4, <1>5, <1>6, <1>7

\* The steps of a callback change neither the registry nor a transport's life.
LEMMA CallbackKeepsIInv ==
  ASSUME IInv, NEW k \in Callbacks,
         UNCHANGED <<registry, lifecycle, handedOut>>,
         NEW st \in CallbackStates, NEW o \in Configs \cup {None},
         cb' = [cb EXCEPT ![k] = st], owner' = [owner EXCEPT ![k] = o],
         st.pc \in {"convert", "fetch"} =>
            /\ st.id \in Ids /\ st.transport \in Transports
            /\ o # None => listenerConfigs[st.transport][st.id] = o
  PROVE  IInv'
<1>1. UNCHANGED <<freeIds, idToTransport, listenerConfigs, phase, pending, handedOut>>
  BY DEF registry, lifecycle
<1>2. TypeOK'
  BY <1>1 DEF IInv, TypeOK
<1>3. \A j \in Callbacks : /\ cb'[j] = IF j = k THEN st ELSE cb[j]
                           /\ owner'[j] = IF j = k THEN o ELSE owner[j]
  BY DEF IInv, TypeOK
<1>4. CallbackShape' /\ InFlightKeepsListener'
  BY <1>1, <1>3 DEF IInv, CallbackShape, InFlightKeepsListener
<1>5. RegistryInv' /\ NothingHeldAfterDrop' /\ DropSnapshotCurrent'
  BY <1>1 DEF IInv, RegistryInv, PoolPartition, RoutedToOwner, OneHandlerPerConfig,
              NothingHeldAfterDrop, DropSnapshotCurrent, ConfigsOf
<1>6. QED
  BY <1>2, <1>4, <1>5 DEF IInv

LEMMA NextKeepsIInv == IInv /\ [Next]_vars => IInv'
<1> SUFFICES ASSUME IInv, [Next]_vars PROVE IInv'
  OBVIOUS
<1>1. ASSUME NEW t \in Transports, New(t) PROVE IInv'
  <2>1. /\ UNCHANGED <<freeIds, idToTransport, listenerConfigs, pending, handedOut, cb, owner>>
        /\ phase' = [phase EXCEPT ![t] = "live"]
    BY <1>1 DEF New, registry
  <2>2. QED
    BY <2>1
    DEF IInv, TypeOK, CallbackShape, RegistryInv, PoolPartition, RoutedToOwner,
        OneHandlerPerConfig, NothingHeldAfterDrop, DropSnapshotCurrent,
        InFlightKeepsListener, ConfigsOf
<1>2. ASSUME NEW t \in Transports, DropBegin(t) PROVE IInv'
  <2>1. /\ UNCHANGED <<freeIds, idToTransport, listenerConfigs, handedOut, cb, owner>>
        /\ phase' = [phase EXCEPT ![t] = "dropping"]
        /\ pending' = [pending EXCEPT ![t] = ConfigsOf(t)]
    BY <1>2 DEF DropBegin, registry
  <2>2. TypeOK'
    BY <2>1 DEF IInv, TypeOK, ConfigsOf
  <2>3. DropSnapshotCurrent'
    BY <2>1 DEF IInv, TypeOK, DropSnapshotCurrent, ConfigsOf
  <2>4. QED
    BY <2>1, <2>2, <2>3
    DEF IInv, TypeOK, CallbackShape, RegistryInv, PoolPartition, RoutedToOwner,
        OneHandlerPerConfig, NothingHeldAfterDrop, InFlightKeepsListener
<1>3. ASSUME NEW t \in Transports, DropEnd(t) PROVE IInv'
  <2>1. /\ UNCHANGED <<freeIds, idToTransport, listenerConfigs, pending, handedOut, cb, owner>>
        /\ phase' = [phase EXCEPT ![t] = "gone"]
        /\ phase[t] = "dropping" /\ pending[t] = {}
    BY <1>3 DEF DropEnd, registry
  <2>2. \A id \in Ids : listenerConfigs[t][id] = None
    BY <2>1 DEF IInv, DropSnapshotCurrent, ConfigsOf
  <2>3. NothingHeldAfterDrop'
    BY <2>1, <2>2 DEF IInv, TypeOK, RegistryInv, RoutedToOwner, NothingHeldAfterDrop
  <2>4. QED
    BY <2>1, <2>3
    DEF IInv, TypeOK, CallbackShape, RegistryInv, PoolPartition, RoutedToOwner,
        OneHandlerPerConfig, DropSnapshotCurrent, InFlightKeepsListener, ConfigsOf
<1>4. ASSUME NEW t \in Transports, NEW c \in Configs, Register(t, c) PROVE IInv'
  BY <1>4, RegisterKeepsIInv
<1>5. ASSUME NEW t \in Transports, NEW c \in Configs, Unregister(t, c) PROVE IInv'
  <2>0. UNCHANGED <<phase, pending, handedOut, cb>> /\ phase[t] = "live"
    BY <1>5 DEF Unregister, lifecycle
  <2>1. CASE release_message_handler_not_found(t, c) /\ UNCHANGED owner
    BY <2>0, <2>1
    DEF release_message_handler_not_found, registry, IInv, TypeOK, CallbackShape,
        RegistryInv, PoolPartition, RoutedToOwner, OneHandlerPerConfig,
        NothingHeldAfterDrop, DropSnapshotCurrent, InFlightKeepsListener, ConfigsOf
  <2>2. ASSUME NEW id \in Ids, release_message_handler(t, c, id), Disown(id) PROVE IInv'
    <3>1. /\ TypeOK' /\ CallbackShape' /\ RegistryInv'
          /\ NothingHeldAfterDrop' /\ InFlightKeepsListener'
          /\ \A u \in Transports : u # t => (ConfigsOf(u))' = ConfigsOf(u)
      BY <2>0, <2>2, ReleaseKeepsIInv DEF IInv, TypeOK
    <3>2. DropSnapshotCurrent'
      BY <2>0, <3>1 DEF IInv, DropSnapshotCurrent
    <3>3. QED
      BY <3>1, <3>2 DEF IInv
  <2>3. QED
    BY <1>5, <2>1, <2>2 DEF Unregister
<1>6. ASSUME NEW t \in Transports, NEW c \in Configs, DropRelease(t, c) PROVE IInv'
  <2>0. /\ UNCHANGED <<phase, handedOut, cb>> /\ phase[t] = "dropping"
        /\ pending' = [pending EXCEPT ![t] = @ \ {c}]
    BY <1>6 DEF DropRelease
  <2>1. PICK id \in Ids : release_message_handler(t, c, id) /\ Disown(id)
    BY <1>6 DEF DropRelease
  <2>2. pending' \in [Transports -> SUBSET Configs]
    BY <2>0 DEF IInv, TypeOK
  <2>3. /\ TypeOK' /\ CallbackShape' /\ RegistryInv'
        /\ NothingHeldAfterDrop' /\ InFlightKeepsListener'
        /\ (ConfigsOf(t))' = ConfigsOf(t) \ {c}
        /\ \A u \in Transports : u # t => (ConfigsOf(u))' = ConfigsOf(u)
    BY <2>0, <2>1, <2>2, ReleaseKeepsIInv
  <2>4. DropSnapshotCurrent'
    BY <2>0, <2>3 DEF IInv, TypeOK, DropSnapshotCurrent
  <2>5. QED
    BY <2>3, <2>4 DEF IInv
<1>7. ASSUME NEW k \in Callbacks, NEW id \in Ids, CallbackLookup(k, id) PROVE IInv'
  <2>0. UNCHANGED <<registry, lifecycle, handedOut>>
    BY <1>7 DEF CallbackLookup
  <2>1. CASE UNCHANGED <<cb, owner>>
    BY <2>0, <2>1
    DEF registry, lifecycle, IInv, TypeOK, CallbackShape, RegistryInv, PoolPartition,
        RoutedToOwner, OneHandlerPerConfig, NothingHeldAfterDrop, DropSnapshotCurrent,
        InFlightKeepsListener, ConfigsOf
  <2>2. CASE ~ UNCHANGED <<cb, owner>>
    <3> DEFINE t == idToTransport[id]
               st == [pc |-> "convert", id |-> id, transport |-> t, listener |-> None]
               o == listenerConfigs[t][id]
    <3>1. /\ t # None
          /\ cb' = [cb EXCEPT ![k] = st]
          /\ owner' = [owner EXCEPT ![k] = o]
      BY <1>7, <2>2 DEF CallbackLookup
    <3>2. t \in Transports
      BY <3>1 DEF IInv, TypeOK
    <3>3. st \in CallbackStates /\ o \in Configs \cup {None}
      BY <3>2 DEF IInv, TypeOK, CallbackStates
    <3>4. st.pc \in {"convert", "fetch"} =>
            /\ st.id \in Ids /\ st.transport \in Transports
            /\ o # None => listenerConfigs[st.transport][st.id] = o
      BY <3>2
    <3> HIDE DEF t, st, o
    <3>5. QED
      BY <2>0, <3>1, <3>3, <3>4, CallbackKeepsIInv
  <2>3. QED
    BY <2>1, <2>2
<1>8. ASSUME NEW k \in Callbacks, UNCHANGED <<registry, lifecycle, handedOut>>,
             cb' = [cb EXCEPT ![k] = Idle], owner' = [owner EXCEPT ![k] = None]
      PROVE  IInv'
  <2>1. Idle \in CallbackStates /\ Idle.pc = "idle"
    BY DEF Idle, CallbackStates
  <2> HIDE DEF Idle
  <2>2. QED
    BY <1>8, <2>1, CallbackKeepsIInv
<1>9. ASSUME NEW k \in Callbacks, CallbackConvert(k) PROVE IInv'
  <2>0. UNCHANGED <<registry, lifecycle, handedOut>> /\ cb[k].pc = "convert"
    BY <1>9 DEF CallbackConvert
  <2>1. CASE cb' = [cb EXCEPT ![k].pc = "fetch"] /\ UNCHANGED owner
    <3> DEFINE st == [cb[k] EXCEPT !.pc = "fetch"]
    <3>1. cb' = [cb EXCEPT ![k] = st] /\ owner' = [owner EXCEPT ![k] = owner[k]]
      BY <2>1 DEF IInv, TypeOK
    <3>2. st \in CallbackStates /\ owner[k] \in Configs \cup {None}
      BY DEF IInv, TypeOK, CallbackStates
    <3>3. /\ st.id \in Ids /\ st.transport \in Transports
          /\ owner[k] # None => listenerConfigs[st.transport][st.id] = owner[k]
      BY <2>0 DEF IInv, TypeOK, CallbackStates, CallbackShape, InFlightKeepsListener
    <3> HIDE DEF st
    <3>4. QED
      BY <2>0, <3>1, <3>2, <3>3, CallbackKeepsIInv
  <2>2. CASE cb' = [cb EXCEPT ![k] = Idle] /\ owner' = [owner EXCEPT ![k] = None]
    BY <1>8, <2>0, <2>2
  <2>3. QED
    BY <1>9, <2>1, <2>2 DEF CallbackConvert
<1>10. ASSUME NEW k \in Callbacks, CallbackFetch(k) PROVE IInv'
  <2> DEFINE c == listenerConfigs[cb[k].transport][cb[k].id]
             st == [pc |-> "deliver", id |-> cb[k].id, transport |-> None, listener |-> c]
  <2>0. UNCHANGED <<registry, lifecycle, handedOut>> /\ cb[k].pc = "fetch"
    BY <1>10 DEF CallbackFetch
  <2>1. CASE cb' = [cb EXCEPT ![k] = st] /\ UNCHANGED owner
    <3>1. owner' = [owner EXCEPT ![k] = owner[k]] /\ owner[k] \in Configs \cup {None}
      BY <2>1 DEF IInv, TypeOK
    <3>2. cb[k].id \in Ids /\ cb[k].transport \in Transports
      BY <2>0 DEF IInv, CallbackShape
    <3>3. c \in Configs \cup {None}
      BY <3>2 DEF IInv, TypeOK
    <3>4. st \in CallbackStates /\ st.pc = "deliver"
      BY <3>2, <3>3 DEF CallbackStates
    <3> HIDE DEF st
    <3>5. QED
      BY <2>0, <2>1, <3>1, <3>4, CallbackKeepsIInv
  <2>2. CASE cb' = [cb EXCEPT ![k] = Idle] /\ owner' = [owner EXCEPT ![k] = None]
    BY <1>8, <2>0, <2>2
  <2>3. QED
    BY <1>10, <2>1, <2>2 DEF CallbackFetch
<1>11. ASSUME NEW k \in Callbacks, CallbackDeliver(k) PROVE IInv'
  BY <1>8, <1>11 DEF CallbackDeliver
<1>12. CASE UNCHANGED vars
  BY <1>12
  DEF vars, registry, lifecycle, IInv, TypeOK, CallbackShape, RegistryInv, PoolPartition,
      RoutedToOwner, OneHandlerPerConfig, NothingHeldAfterDrop, DropSnapshotCurrent,
      InFlightKeepsListener, ConfigsOf
<1>13. QED
  BY <1>1, <1>2, <1>3, <1>4, <1>5, <1>6, <1>7, <1>9, <1>10, <1>11, <1>12
  DEF Next, TransportNext, CallbackNext

-----------------------------------------------------------------------------
(* The theorems.                                                           *)

\* Every reachable state satisfies the inductive invariant.
THEOREM RegistryInductive == Spec => []IInv
<1>1. QED
  BY InitEstablishesIInv, NextKeepsIInv, PTL DEF Spec

\* Type correctness of the registry and its callbacks.
THEOREM RegistryTypeCorrect == Spec => []TypeOK
<1>1. IInv => TypeOK
  BY DEF IInv
<1>2. QED
  BY <1>1, RegistryInductive, PTL

\* However many transports register, fail to register, unregister and drop, the
\* pool, the transport map and the configuration maps agree.
THEOREM RegistryAgreement ==
    Spec => [](PoolPartition /\ RoutedToOwner /\ OneHandlerPerConfig)
<1>1. IInv => PoolPartition /\ RoutedToOwner /\ OneHandlerPerConfig
  BY DEF IInv, RegistryInv
<1>2. QED
  BY <1>1, RegistryInductive, PTL

\* Dropping a transport gives back every handler it held.
THEOREM DropReturnsHandlers == Spec => [](NothingHeldAfterDrop /\ DropSnapshotCurrent)
<1>1. IInv => NothingHeldAfterDrop /\ DropSnapshotCurrent
  BY DEF IInv
<1>2. QED
  BY <1>1, RegistryInductive, PTL

\* A callback loses its listener only to a release of that listener.
THEOREM InFlightSafe == Spec => []InFlightKeepsListener
<1>1. IInv => InFlightKeepsListener
  BY DEF IInv
<1>2. QED
  BY <1>1, RegistryInductive, PTL

\* No step moves an id from one holder to another: it is freed in between.
THEOREM HandoverOnlyThroughPool == Spec => HandoverThroughPool
<1> DEFINE Stays ==
      \A id \in Ids :
          /\ idToTransport[id] # None /\ idToTransport'[id] # None
                => idToTransport'[id] = idToTransport[id]
          /\ \A t \in Transports :
                listenerConfigs[t][id] # None /\ listenerConfigs'[t][id] # None
                    => listenerConfigs'[t][id] = listenerConfigs[t][id]
<1>1. ASSUME IInv, [Next]_vars PROVE Stays
  <2>1. CASE UNCHANGED registry
    BY <2>1 DEF registry
  <2>2. ASSUME NEW t \in Transports, NEW c \in Configs, NEW id \in Ids,
               get_message_handler(t, c, id, "Ok")
        PROVE  Stays
    <3>1. /\ listenerConfigs[t][id] = None /\ idToTransport[id] = None
          /\ idToTransport' = [idToTransport EXCEPT ![id] = t]
          /\ listenerConfigs' = [listenerConfigs EXCEPT ![t][id] = c]
      BY <1>1, <2>2, GrantKeepsRegistryInv DEF IInv
    <3>2. QED
      BY <1>1, <3>1 DEF IInv, TypeOK
  <2>3. ASSUME NEW t \in Transports, NEW c \in Configs, NEW id \in Ids,
               release_message_handler(t, c, id)
        PROVE  Stays
    <3>1. /\ idToTransport' = [idToTransport EXCEPT ![id] = None]
          /\ listenerConfigs' = [listenerConfigs EXCEPT ![t][id] = None]
      BY <1>1, <2>3, ReleaseKeepsRegistryInv DEF IInv
    <3>2. QED
      BY <1>1, <3>1 DEF IInv, TypeOK
  <2>4. ASSUME NEW t \in Transports, NEW c \in Configs, Register(t, c) PROVE Stays
    <3>1. CASE get_message_handler_exhausted
      BY <2>1, <3>1 DEF get_message_handler_exhausted
    <3>2. ASSUME NEW id \in Ids, NEW res \in GetResults, get_message_handler(t, c, id, res)
          PROVE  Stays
      <4>1. CASE res = "Ok"
        BY <2>2, <3>2, <4>1
      <4>2. CASE res \in GetErrors
        BY <1>1, <2>1, <3>2, <4>2, RefusalRollsBack DEF IInv
      <4>3. QED
        BY <4>1, <4>2 DEF GetResults
    <3>3. QED
      BY <2>4, <3>1, <3>2 DEF Register
  <2>5. ASSUME NEW t \in Transports, NEW c \in Configs, Unregister(t, c) \/ DropRelease(t, c)
        PROVE  Stays
    BY <2>1, <2>3, <2>5 DEF Unregister, DropRelease, release_message_handler_not_found
  <2>6. ASSUME NEW t \in Transports, New(t) \/ DropBegin(t) \/ DropEnd(t)
        PROVE  UNCHANGED registry
    BY <2>6 DEF New, DropBegin, DropEnd
  <2>7. ASSUME CallbackNext PROVE UNCHANGED registry
    BY <2>7 DEF CallbackNext, CallbackLookup, CallbackConvert, CallbackFetch, CallbackDeliver
  <2>8. ASSUME UNCHANGED vars PROVE UNCHANGED registry
    BY <2>8 DEF vars
  <2> HIDE DEF Stays
  <2>9. QED
    BY <1>1, <2>1, <2>4, <2>5, <2>6, <2>7, <2>8 DEF Next, TransportNext
<1>2. QED
  BY <1>1, RegistryInductive, PTL DEF Spec, HandoverThroughPool

=============================================================================
