------------------------ MODULE HandlerRegistryLocksProofs ------------------------
(***************************************************************************)
(* The operations on the message handler registry, lock by lock, implement *)
(* the single steps of HandlerRegistry, for any number of threads, ids,    *)
(* transports, configurations and dispatcher threads.                      *)
(***************************************************************************)
EXTENDS HandlerRegistryLocks, TLAPS

\* Between taking the last lock and the last change.
GetSteps == {"find", "insertTransport", "insertConfig", "rollbackPool", "rollbackTransport"}
ReleaseSteps == {"lookup", "free", "removeTransport", "removeConfig"}
ListSteps == {"ids", "configs"}
Inside == GetSteps \cup ReleaseSteps

\* The steps at which the pool and the maps may disagree about the thread's id.
HalfWay == {"insertTransport", "insertConfig", "rollbackPool", "rollbackTransport",
            "removeTransport", "removeConfig"}

Waits == {<<"map", "pool", "configs">>, <<"pool", "configs">>, <<"configs">>}
Drops == {<<"configs", "pool", "map">>, <<"pool", "map">>, <<"map">>, <<"pool", "map", "configs">>,
          <<"map", "configs">>, <<"configs">>}

ThreadStates ==
    [pc : {"idle", "lock", "unlock"} \cup Inside \cup ListSteps,
     op : {None, "get", "release", "list"}, t : Transports \cup {None},
     c : Configs \cup {None}, id : Ids \cup {None}, ids : SUBSET Ids, found : SUBSET Configs,
     guards : {<<>>} \cup Waits \cup Drops]

\* What the program counter tells of the rest of the state of a thread.
Shape(k) ==
    /\ thread[k] \in ThreadStates
    /\ thread[k].pc = "idle" => thread[k] = AtRest
    /\ thread[k].pc # "idle" => thread[k].t \in Transports
    /\ thread[k].pc \in ListSteps <=> thread[k].pc # "idle" /\ thread[k].op = "list"
    /\ thread[k].pc \in {"lock", "unlock"} => thread[k].op \in {"get", "release"}
    /\ thread[k].pc \in GetSteps => thread[k].op = "get"
    /\ thread[k].pc \in ReleaseSteps => thread[k].op = "release"
    /\ thread[k].pc \in {"lock"} \cup Inside => thread[k].c \in Configs
    /\ thread[k].pc = "lock" => thread[k].guards \in Waits
    /\ thread[k].pc \in Inside => thread[k].guards = <<>>
    /\ thread[k].pc = "unlock" => thread[k].guards \in Drops

\* A thread has the transport map from its second lock on, until it drops that guard.
HasMap(k) ==
    \/ thread[k].pc = "lock" /\ thread[k].guards # <<"map", "pool", "configs">>
    \/ thread[k].pc \in Inside
    \/ thread[k].pc = "unlock" /\ thread[k].guards # <<"configs">>

MapLocked == \A k \in Threads : HasMap(k) => mapLock = k

\* How far the operation of a thread has got with its id.
Doing(k) ==
    LET id == thread[k].id
        t == thread[k].t
        held == \E u \in Transports : listenerConfigs[u][id] # None
    IN
    /\ thread[k].pc \in HalfWay \cup {"free"} => id \in Ids
    /\ thread[k].pc = "insertTransport" => id \notin freeIds /\ idToTransport[id] = None /\ ~held
    /\ thread[k].pc \in {"insertConfig", "rollbackPool"} =>
          id \notin freeIds /\ idToTransport[id] = t /\ ~held
    /\ thread[k].pc = "rollbackTransport" => id \in freeIds /\ idToTransport[id] = t /\ ~held
    /\ thread[k].pc \in {"free", "removeTransport", "removeConfig"} =>
          /\ listenerConfigs[t][id] = thread[k].c
          /\ \A u \in Transports : listenerConfigs[u][id] # None => u = t
    /\ thread[k].pc = "removeTransport" => id \in freeIds /\ idToTransport[id] = t
    /\ thread[k].pc = "removeConfig" => id \in freeIds /\ idToTransport[id] = None

\* The pool and the maps agree about an id nobody is at work on.
Agree(id) ==
    /\ id \in freeIds <=> idToTransport[id] = None
    /\ \A t \in Transports : listenerConfigs[t][id] # None <=> idToTransport[id] = t

Agreement ==
    \A id \in Ids :
        Agree(id) \/ \E k \in Threads : thread[k].pc \in HalfWay /\ thread[k].id = id

\* Who may use a transport: anybody while it lives, one thread once it is listed.
Alone(k) == \A j \in Threads : thread[j].t = thread[k].t => j = k

Uses(k) ==
    /\ thread[k].pc # "idle" /\ thread[k].op # "release" => phase[thread[k].t] = "live"
    /\ thread[k].pc \in {"lock"} \cup ReleaseSteps /\ thread[k].op = "release" =>
          \/ phase[thread[k].t] = "live"
          \/ phase[thread[k].t] = "dropping" /\ thread[k].c \in pending[thread[k].t]
    /\ thread[k].pc # "idle" /\ (phase[thread[k].t] # "live" \/ thread[k].op = "list") => Alone(k)

\* What Drop has listed so far and what it has still to look up.
Lists(k) ==
    LET held == {id \in Ids : listenerConfigs[thread[k].t][id] # None} IN
    /\ thread[k].pc \in ListSteps => thread[k].found \subseteq ConfigsOf(thread[k].t)
    /\ thread[k].pc = "configs" =>
          /\ thread[k].ids \subseteq held
          /\ \A id \in held : id \in thread[k].ids
                \/ listenerConfigs[thread[k].t][id] \in thread[k].found

\* The types of what the operations read.
DataTypes ==
    /\ freeIds \in SUBSET Ids
    /\ idToTransport \in [Ids -> Transports \cup {None}]
    /\ listenerConfigs \in [Transports -> [Ids -> Configs \cup {None}]]
    /\ phase \in [Transports -> {"absent", "live", "dropping", "gone"}]
    /\ pending \in [Transports -> SUBSET Configs]
    /\ thread \in [Threads -> ThreadStates]

NothingPending == \A t \in Transports : phase[t] # "dropping" => pending[t] = {}

\* The inductive invariant.
LocksInv ==
    /\ DataTypes /\ NothingPending /\ MapLocked /\ Agreement
    /\ \A k \in Threads : Shape(k) /\ Doing(k) /\ Uses(k) /\ Lists(k)

-----------------------------------------------------------------------------
(* The transport map's lock is the lock of the whole registry.             *)

\* Only k is between its locks and its last change.
Only(k) == \A j \in Threads : j # k => thread[j].pc \notin Inside

\* Whoever has the transport map is the only one at work.
LEMMA MapExcludes ==
  ASSUME LocksInv, NEW k \in Threads, HasMap(k)
  PROVE  Only(k)
<1>1. ASSUME NEW j \in Threads, j # k PROVE ~HasMap(j)
  BY <1>1 DEF LocksInv, MapLocked
<1>2. QED
  BY <1>1 DEF Only, HasMap

\* The ids at given steps when k is alone there.
LEMMA OneAtWork ==
  ASSUME NEW th, NEW k \in Threads, NEW pcs, \A j \in Threads : j # k => th[j].pc \notin pcs
  PROVE  {th[j].id : j \in {i \in Threads : th[i].pc \in pcs}}
            = IF th[k].pc \in pcs THEN {th[k].id} ELSE {}
  OBVIOUS

\* What the mapping takes for pending when only k is at work.
LEMMA SeenNow ==
  ASSUME NEW k \in Threads, Only(k)
  PROVE  /\ Taken = IF thread[k].pc \in GetSteps \ {"find"} THEN {thread[k].id} ELSE {}
         /\ Given = IF thread[k].pc \in GetSteps \ {"find", "insertTransport"}
                    THEN {thread[k].id} ELSE {}
         /\ Freed = IF thread[k].pc \in {"removeTransport", "removeConfig"}
                    THEN {thread[k].id} ELSE {}
         /\ Withdrawn = IF thread[k].pc = "removeConfig" THEN {thread[k].id} ELSE {}
<1>1. ASSUME NEW pcs, pcs \subseteq Inside
      PROVE  IdsAt(pcs) = IF thread[k].pc \in pcs THEN {thread[k].id} ELSE {}
  BY <1>1, OneAtWork DEF Only, IdsAt
<1>2. /\ GetSteps \ {"find"} =
            {"insertTransport", "insertConfig", "rollbackPool", "rollbackTransport"}
      /\ GetSteps \ {"find", "insertTransport"} =
            {"insertConfig", "rollbackPool", "rollbackTransport"}
  BY DEF GetSteps
<1>3. /\ GetSteps \ {"find"} \subseteq Inside /\ GetSteps \ {"find", "insertTransport"} \subseteq Inside
      /\ {"removeTransport", "removeConfig"} \subseteq Inside /\ {"removeConfig"} \subseteq Inside
  BY DEF Inside, GetSteps, ReleaseSteps
<1>4. QED
  BY <1>1, <1>2, <1>3 DEF Taken, Given, Freed, Withdrawn

\* The same after a step.
LEMMA SeenNext ==
  ASSUME NEW k \in Threads, Only(k)'
  PROVE  /\ Taken' = IF thread'[k].pc \in GetSteps \ {"find"} THEN {thread'[k].id} ELSE {}
         /\ Given' = IF thread'[k].pc \in GetSteps \ {"find", "insertTransport"}
                     THEN {thread'[k].id} ELSE {}
         /\ Freed' = IF thread'[k].pc \in {"removeTransport", "removeConfig"}
                     THEN {thread'[k].id} ELSE {}
         /\ Withdrawn' = IF thread'[k].pc = "removeConfig" THEN {thread'[k].id} ELSE {}
<1>1. ASSUME NEW pcs \in SUBSET Inside
      PROVE  {thread'[j].id : j \in {i \in Threads : thread'[i].pc \in pcs}}
               = IF thread'[k].pc \in pcs THEN {thread'[k].id} ELSE {}
  BY <1>1, OneAtWork DEF Only
<1>2. /\ GetSteps \ {"find"} =
            {"insertTransport", "insertConfig", "rollbackPool", "rollbackTransport"}
      /\ GetSteps \ {"find", "insertTransport"} =
            {"insertConfig", "rollbackPool", "rollbackTransport"}
  BY DEF GetSteps
<1>3. /\ GetSteps \ {"find"} \subseteq Inside /\ GetSteps \ {"find", "insertTransport"} \subseteq Inside
      /\ {"removeTransport", "removeConfig"} \subseteq Inside /\ {"removeConfig"} \subseteq Inside
  BY DEF Inside, GetSteps, ReleaseSteps
<1>4. QED
  BY <1>1, <1>2, <1>3 DEF Taken, Given, Freed, Withdrawn, IdsAt

\* A step that leaves the registry and the work of everyone half way alone.
LEMMA SameSeen ==
  ASSUME UNCHANGED registry,
         \A j \in Threads : thread[j].pc \in HalfWay \/ thread'[j].pc \in HalfWay =>
            thread'[j].pc = thread[j].pc /\ thread'[j].id = thread[j].id
  PROVE  UNCHANGED <<PoolSeen, MapSeen>>
<1>1. ASSUME NEW pcs, pcs \subseteq HalfWay
      PROVE  {thread'[j].id : j \in {i \in Threads : thread'[i].pc \in pcs}}
               = {thread[j].id : j \in {i \in Threads : thread[i].pc \in pcs}}
  <2>1. {i \in Threads : thread'[i].pc \in pcs} = {i \in Threads : thread[i].pc \in pcs}
    BY <1>1
  <2>2. \A i \in {l \in Threads : thread[l].pc \in pcs} : thread'[i].id = thread[i].id
    BY <1>1
  <2>3. QED
    BY <2>1, <2>2
<1>2. /\ {"insertTransport", "insertConfig", "rollbackPool", "rollbackTransport"} \subseteq HalfWay
      /\ {"insertConfig", "rollbackPool", "rollbackTransport"} \subseteq HalfWay
      /\ {"removeTransport", "removeConfig"} \subseteq HalfWay /\ {"removeConfig"} \subseteq HalfWay
  BY DEF HalfWay
<1>3. UNCHANGED <<Taken, Given, Freed, Withdrawn>>
  BY <1>1, <1>2 DEF Taken, Given, Freed, Withdrawn, IdsAt
<1>4. QED
  BY <1>3 DEF PoolSeen, MapSeen, HolderOf, registry

-----------------------------------------------------------------------------
(* What a step of one thread leaves of the others.                         *)

\* Thread k moves; it changes the registry only with the transport map locked, and
\* only for its own transport, whose life it changes only alone.
Moves(k) ==
    /\ thread' \in [Threads -> ThreadStates]
    /\ \A j \in Threads : j # k => thread'[j] = thread[j]
    /\ HasMap(k) \/ UNCHANGED registry
    /\ \A u \in Transports : u # thread[k].t => listenerConfigs'[u] = listenerConfigs[u]
    /\ \A u \in Transports : u # thread[k].t \/ ~Alone(k) =>
          phase'[u] = phase[u] /\ pending'[u] = pending[u]
    /\ \/ mapLock' = mapLock
       \/ mapLock' = None /\ HasMap(k)
       \/ mapLock' = k /\ mapLock = None
    /\ \/ thread'[k].t \in {thread[k].t, None}
       \/ \A j \in Threads : j # k /\ thread[j].t = thread'[k].t =>
             phase[thread'[k].t] = "live" /\ thread[j].op # "list"

\* The others keep their part of the invariant.
LEMMA OthersKeep ==
  ASSUME LocksInv, NEW k \in Threads, Moves(k), NEW j \in Threads, j # k
  PROVE  /\ Shape(j)' /\ Doing(j)' /\ Uses(j)' /\ Lists(j)'
         /\ HasMap(j)' => mapLock' = j
<1>1. thread'[j] = thread[j]
  BY DEF Moves
<1>2. Shape(j) /\ Doing(j) /\ Uses(j) /\ Lists(j)
  BY DEF LocksInv
<1>3. Shape(j)'
  BY <1>1, <1>2 DEF Shape
<1>4. HasMap(j)' => mapLock' = j
  <2>1. SUFFICES ASSUME HasMap(j) PROVE mapLock' = j
    BY <1>1 DEF HasMap
  <2>2. mapLock = j
    BY <2>1 DEF LocksInv, MapLocked
  <2>3. ~HasMap(k)
    BY <2>2 DEF LocksInv, MapLocked
  <2>4. QED
    BY <2>2, <2>3, ThreadsAssumption DEF Moves
<1>5. Doing(j)'
  <2>1. CASE HasMap(k)
    <3>1. thread'[j].pc \notin Inside
      BY <1>1, <2>1, MapExcludes DEF Only
    <3>2. QED
      BY <3>1 DEF Doing, Inside, GetSteps, ReleaseSteps, HalfWay
  <2>2. CASE UNCHANGED registry
    BY <1>1, <1>2, <2>2 DEF Doing, registry
  <2>3. QED
    BY <2>1, <2>2 DEF Moves
<1>6. CASE thread[j].pc = "idle"
  BY <1>1, <1>3, <1>4, <1>5, <1>6 DEF Uses, Lists, ListSteps, ReleaseSteps
<1>7. CASE thread[j].pc # "idle"
  <2>1. PICK t \in Transports : t = thread[j].t
    BY <1>2, <1>7 DEF Shape
  <2>2. phase'[t] = phase[t] /\ pending'[t] = pending[t]
    BY <2>1 DEF Moves, Alone
  <2>3. Alone(j) /\ (phase[t] # "live" \/ thread[j].op = "list") => Alone(j)'
    BY <1>1, <2>1, NoneAssumption DEF Moves, Alone
  <2>4. Uses(j)'
    BY <1>1, <1>2, <2>1, <2>2, <2>3 DEF Uses
  <2>5. Lists(j)'
    <3>1. CASE thread[j].pc \notin ListSteps
      BY <1>1, <3>1 DEF Lists, ListSteps
    <3>2. CASE thread[j].pc \in ListSteps
      <4>1. Alone(j)
        BY <1>2, <1>7, <3>2 DEF Uses, Shape
      <4>2. listenerConfigs'[t] = listenerConfigs[t]
        BY <2>1, <4>1 DEF Alone, Moves
      <4>3. QED
        BY <1>1, <1>2, <2>1, <4>2 DEF Lists, ConfigsOf
    <3>3. QED
      BY <3>1, <3>2
  <2>6. QED
    BY <1>3, <1>4, <1>5, <2>4, <2>5
<1>8. QED
  BY <1>6, <1>7

\* What is left to show of a step of thread k.
OwnPart(k) ==
    /\ Moves(k) /\ DataTypes' /\ NothingPending' /\ Agreement'
    /\ Shape(k)' /\ Doing(k)' /\ Uses(k)' /\ Lists(k)'
    /\ HasMap(k)' => mapLock' = k

\* That is all.
LEMMA OwnPartSuffices ==
  ASSUME LocksInv, NEW k \in Threads, OwnPart(k)
  PROVE  LocksInv'
<1>1. \A j \in Threads : /\ Shape(j)' /\ Doing(j)' /\ Uses(j)' /\ Lists(j)'
                         /\ HasMap(j)' => mapLock' = j
  BY OthersKeep DEF OwnPart
<1>2. MapLocked'
  BY <1>1 DEF MapLocked
<1>3. QED
  BY <1>1, <1>2 DEF OwnPart, LocksInv

-----------------------------------------------------------------------------
(* Steps that touch no data.                                               *)

\* Thread k goes on without touching anything, and not half way.
Idles(k) ==
    /\ UNCHANGED vars
    /\ thread[k].pc \notin HalfWay /\ thread'[k].pc \notin HalfWay
    /\ \A j \in Threads : j # k => thread'[j] = thread[j]

\* Such a step is none of the registry.
LEMMA IdlingIsUnseen ==
  ASSUME LocksInv, NEW k \in Threads, Idles(k)
  PROVE  UNCHANGED Abstract!vars /\ Agreement' /\ NothingPending'
<1>1. UNCHANGED <<registry, lifecycle, handedOut, cb, owner>>
  BY DEF Idles, vars
<1>2. UNCHANGED <<PoolSeen, MapSeen>>
  BY <1>1, SameSeen DEF Idles
<1>3. UNCHANGED Abstract!vars
  BY <1>1, <1>2 DEF Abstract!vars, Abstract!registry, Abstract!lifecycle, registry, lifecycle
<1>4. Agreement'
  <2> SUFFICES ASSUME NEW id \in Ids
               PROVE  \/ Agree(id)'
                      \/ \E j \in Threads : thread'[j].pc \in HalfWay /\ thread'[j].id = id
    BY DEF Agreement
  <2>1. CASE Agree(id)
    BY <1>1, <2>1 DEF Agree, registry
  <2>2. ASSUME NEW j \in Threads, thread[j].pc \in HalfWay, thread[j].id = id
        PROVE  thread'[j].pc \in HalfWay /\ thread'[j].id = id
    BY <2>2 DEF Idles
  <2>3. QED
    BY <2>1, <2>2 DEF LocksInv, Agreement
<1>5. NothingPending'
  BY <1>1 DEF LocksInv, NothingPending, lifecycle
<1>6. QED
  BY <1>3, <1>4, <1>5

\* A step of a thread that idles has only its own record to account for.
LEMMA IdlingKeeps ==
  ASSUME LocksInv, NEW k \in Threads, Idles(k), NEW r \in ThreadStates,
         thread' = [thread EXCEPT ![k] = r],
         \/ mapLock' = mapLock
         \/ mapLock' = None /\ HasMap(k)
         \/ mapLock' = k /\ mapLock = None,
         \/ r.t \in {thread[k].t, None}
         \/ \A j \in Threads : j # k /\ thread[j].t = r.t =>
               phase[r.t] = "live" /\ thread[j].op # "list",
         Shape(k)', Doing(k)', Uses(k)', Lists(k)', HasMap(k)' => mapLock' = k
  PROVE  LocksInv' /\ UNCHANGED Abstract!vars
<1>1. UNCHANGED <<registry, lifecycle>>
  BY DEF Idles, vars
<1>2. thread'[k] = r /\ thread' \in [Threads -> ThreadStates]
  BY DEF LocksInv, DataTypes
<1>3. Moves(k)
  BY <1>1, <1>2 DEF Moves, Idles, registry, lifecycle
<1>4. DataTypes'
  BY <1>1, <1>2 DEF LocksInv, DataTypes, registry, lifecycle
<1>5. QED
  BY <1>3, <1>4, IdlingIsUnseen, OwnPartSuffices DEF OwnPart

\* The sequences of locks, from their heads.
LEMMA Guards ==
  /\ Head(<<"map", "pool", "configs">>) = "map"
  /\ Tail(<<"map", "pool", "configs">>) = <<"pool", "configs">>
  /\ Head(<<"pool", "configs">>) = "pool" /\ Tail(<<"pool", "configs">>) = <<"configs">>
  /\ Head(<<"configs">>) = "configs" /\ Tail(<<"configs">>) = <<>>
  /\ Head(<<"configs", "pool", "map">>) = "configs"
  /\ Tail(<<"configs", "pool", "map">>) = <<"pool", "map">>
  /\ Head(<<"pool", "map">>) = "pool" /\ Tail(<<"pool", "map">>) = <<"map">>
  /\ Head(<<"map">>) = "map" /\ Tail(<<"map">>) = <<>>
  /\ Head(<<"pool", "map", "configs">>) = "pool"
  /\ Tail(<<"pool", "map", "configs">>) = <<"map", "configs">>
  /\ Head(<<"map", "configs">>) = "map" /\ Tail(<<"map", "configs">>) = <<"configs">>
  OBVIOUS

\* A call begins.
LEMMA StartKeeps ==
  ASSUME LocksInv, NEW k \in Threads, NEW op \in {"get", "release", "list"},
         NEW t \in Transports, NEW c \in Configs \cup {None}, Start(k, op, t, c),
         \/ op # "list" /\ c \in Configs /\ Usable(t)
         \/ op = "list" /\ c = None /\ Usable(t) /\ Unused(t)
         \/ op = "release" /\ phase[t] = "dropping" /\ Unused(t) /\ c \in pending[t]
  PROVE  LocksInv' /\ UNCHANGED Abstract!vars
<1> DEFINE pc == IF op = "list" THEN "ids" ELSE "lock"
           r == [AtRest EXCEPT !.pc = pc, !.op = op, !.t = t, !.c = c, !.guards = LockOrder(op)]
<1>1. /\ thread[k].pc = "idle" /\ thread' = [thread EXCEPT ![k] = r]
      /\ UNCHANGED <<vars, locks>>
  BY DEF Start
<1>2. /\ r.pc = pc /\ r.op = op /\ r.t = t /\ r.c = c /\ r.ids = {} /\ r.found = {}
      /\ r.guards = <<"map", "pool", "configs">> /\ r \in ThreadStates
  BY DEF AtRest, LockOrder, ThreadStates, Waits, Inside, ListSteps
<1>3. /\ pc \in {"ids", "lock"} /\ (pc = "ids" <=> op = "list")
      /\ c \in Configs \/ op = "list"
  BY DEF LocksInv, DataTypes
<1> HIDE DEF r, pc
<1>4. thread'[k] = r /\ \A j \in Threads : j # k => thread'[j] = thread[j]
  BY <1>1 DEF LocksInv, DataTypes
<1>5. Idles(k)
  BY <1>1, <1>2, <1>3, <1>4 DEF Idles, HalfWay
<1>6. UNCHANGED <<phase, pending, mapLock>> /\ UNCHANGED listenerConfigs
  BY <1>1 DEF vars, registry, lifecycle, locks
<1>7. Shape(k)' /\ Doing(k)' /\ Lists(k)' /\ ~HasMap(k)'
  BY <1>2, <1>3, <1>4
  DEF Shape, Doing, Lists, HasMap, ListSteps, GetSteps, ReleaseSteps, Inside, Waits, HalfWay
<1>8. Unused(t) => Alone(k)'
  BY <1>2, <1>4 DEF Unused, Alone
<1>9. Uses(k)'
  BY <1>2, <1>3, <1>4, <1>6, <1>8 DEF Uses, Usable, ReleaseSteps
<1>10. \A j \in Threads : j # k /\ thread[j].t = t => phase[t] = "live" /\ thread[j].op # "list"
  BY DEF Usable, Unused
<1>11. QED
  BY <1>1, <1>2, <1>5, <1>6, <1>7, <1>9, <1>10, IdlingKeeps

\* A thread that goes on with other guards keeps its type.
LEMMA GoesOn ==
  ASSUME NEW x \in ThreadStates, NEW pc \in {"idle", "lock", "unlock"} \cup Inside \cup ListSteps,
         NEW gs \in {<<>>} \cup Waits \cup Drops
  PROVE  [x EXCEPT !.guards = gs, !.pc = pc] \in ThreadStates
  BY DEF ThreadStates

\* A lock is taken.
LEMMA LockKeeps ==
  ASSUME LocksInv, NEW k \in Threads, Lock(k)
  PROVE  LocksInv' /\ UNCHANGED Abstract!vars
<1> DEFINE gs == thread[k].guards
           pc == IF Tail(gs) # <<>> THEN "lock"
                 ELSE IF thread[k].op = "get" THEN "find" ELSE "lookup"
           r == [thread[k] EXCEPT !.guards = Tail(gs), !.pc = pc]
<1>1. /\ thread[k].pc = "lock" /\ UNCHANGED vars
      /\ Holder(Head(gs), thread[k].t) = None /\ SetHolder(Head(gs), thread[k].t, k)
  BY DEF Lock
<1>2. thread' = [thread EXCEPT ![k] = r]
  BY <1>1 DEF Lock, LocksInv, DataTypes, ThreadStates
<1>3. Shape(k) /\ Uses(k) /\ thread[k] \in ThreadStates
  BY DEF LocksInv, Shape
<1>4. gs \in Waits /\ thread[k].op \in {"get", "release"} /\ thread[k].c \in Configs
  BY <1>1, <1>3 DEF Shape
<1>5. /\ r.pc = pc /\ r.op = thread[k].op /\ r.t = thread[k].t /\ r.c = thread[k].c
      /\ r.guards = Tail(gs) /\ r.id = thread[k].id /\ r.t \in Transports
  BY <1>1, <1>3 DEF ThreadStates, Shape
<1>6. /\ Tail(gs) \in Waits \cup {<<>>}
      /\ Tail(gs) # <<>> => pc = "lock" /\ Tail(gs) \in Waits
      /\ Tail(gs) = <<>> => pc = IF thread[k].op = "get" THEN "find" ELSE "lookup"
      /\ Tail(gs) # <<"map", "pool", "configs">>
  <2>1. CASE gs = <<"map", "pool", "configs">>
    BY <2>1, Guards DEF Waits
  <2>2. CASE gs = <<"pool", "configs">>
    BY <2>2, Guards DEF Waits
  <2>3. CASE gs = <<"configs">>
    BY <2>3, Guards DEF Waits
  <2>4. QED
    BY <1>4, <2>1, <2>2, <2>3 DEF Waits
<1>7. r \in ThreadStates
  <2>1. pc \in {"lock", "find", "lookup"}
    OBVIOUS
  <2>2. pc \in {"idle", "lock", "unlock"} \cup Inside \cup ListSteps
    BY <2>1 DEF Inside, GetSteps, ReleaseSteps
  <2>3. Tail(gs) \in {<<>>} \cup Waits \cup Drops
    BY <1>6
  <2> HIDE DEF pc, gs
  <2>4. QED
    BY <1>3, <2>2, <2>3, GoesOn
<1>8. IF gs = <<"map", "pool", "configs">> THEN mapLock' = k /\ mapLock = None
      ELSE mapLock' = mapLock /\ HasMap(k)
  BY <1>1, <1>4, Guards DEF Waits, Holder, SetHolder, HasMap
<1>9. mapLock' = k
  BY <1>8 DEF LocksInv, MapLocked
<1> HIDE DEF r, pc, gs
<1>10. thread'[k] = r /\ \A j \in Threads : j # k => thread'[j] = thread[j]
  BY <1>2 DEF LocksInv, DataTypes
<1>11. pc \in {"lock", "find", "lookup"} /\ (pc = "find" => thread[k].op = "get")
       /\ (pc = "lookup" => thread[k].op = "release") /\ (pc = "lock" => Tail(gs) \in Waits)
       /\ (pc # "lock" => Tail(gs) = <<>>)
  BY <1>4, <1>6
<1>12. Idles(k)
  BY <1>1, <1>5, <1>10, <1>11 DEF Idles, HalfWay
<1>13. UNCHANGED <<phase, pending>> /\ UNCHANGED listenerConfigs
  BY <1>1 DEF vars, registry, lifecycle
<1>14. Shape(k)'
  BY <1>4, <1>5, <1>7, <1>10, <1>11
  DEF Shape, ListSteps, GetSteps, ReleaseSteps, Inside
<1>15. Doing(k)' /\ Lists(k)'
  BY <1>5, <1>10, <1>11 DEF Doing, Lists, ListSteps, HalfWay
<1>16. Alone(k) => Alone(k)'
  BY <1>5, <1>10 DEF Alone
<1>17. Uses(k)'
  BY <1>1, <1>3, <1>5, <1>10, <1>11, <1>13, <1>16 DEF Uses, ReleaseSteps
<1>18. QED
  BY <1>2, <1>5, <1>7, <1>8, <1>9, <1>12, <1>14, <1>15, <1>17, IdlingKeeps

\* A guard is dropped; with the last one the operation ends.
LEMMA UnlockKeeps ==
  ASSUME LocksInv, NEW k \in Threads, Unlock(k)
  PROVE  LocksInv' /\ UNCHANGED Abstract!vars
<1> DEFINE gs == thread[k].guards
           r == IF Tail(gs) = <<>> THEN AtRest ELSE [thread[k] EXCEPT !.guards = Tail(gs)]
<1>1. /\ thread[k].pc = "unlock" /\ UNCHANGED vars
      /\ SetHolder(Head(gs), thread[k].t, None)
  BY DEF Unlock
<1>2. thread' = [thread EXCEPT ![k] = r]
  BY <1>1 DEF Unlock, LocksInv, DataTypes
<1>3. Shape(k) /\ Uses(k) /\ thread[k] \in ThreadStates
  BY DEF LocksInv, Shape
<1>4. gs \in Drops /\ thread[k].op \in {"get", "release"} /\ thread[k].t \in Transports
  BY <1>1, <1>3 DEF Shape
<1>5. UNCHANGED <<phase, pending>> /\ UNCHANGED listenerConfigs
  BY <1>1 DEF vars, registry, lifecycle
<1>6. /\ Tail(gs) \in Drops \cup {<<>>}
      /\ Tail(gs) # <<>> => Tail(gs) \in Drops
      /\ Tail(gs) # <<>> /\ Tail(gs) # <<"configs">> => HasMap(k) /\ mapLock' = mapLock
      /\ mapLock' = mapLock \/ (mapLock' = None /\ HasMap(k))
  <2>1. CASE gs = <<"configs", "pool", "map">>
    BY <1>1, <2>1, Guards DEF Drops, SetHolder, HasMap
  <2>2. CASE gs = <<"pool", "map">>
    BY <1>1, <2>2, Guards DEF Drops, SetHolder, HasMap
  <2>3. CASE gs = <<"map">>
    BY <1>1, <2>3, Guards DEF Drops, SetHolder, HasMap
  <2>4. CASE gs = <<"pool", "map", "configs">>
    BY <1>1, <2>4, Guards DEF Drops, SetHolder, HasMap
  <2>5. CASE gs = <<"map", "configs">>
    BY <1>1, <2>5, Guards DEF Drops, SetHolder, HasMap
  <2>6. CASE gs = <<"configs">>
    BY <1>1, <2>6, Guards DEF Drops, SetHolder, HasMap
  <2>7. QED
    BY <1>4, <2>1, <2>2, <2>3, <2>4, <2>5, <2>6 DEF Drops
<1>7. thread'[k] = r /\ \A j \in Threads : j # k => thread'[j] = thread[j]
  BY <1>2 DEF LocksInv, DataTypes
<1>8. CASE Tail(gs) = <<>>
  <2>1. r = AtRest
    BY <1>8
  <2>2. /\ AtRest \in ThreadStates /\ AtRest.pc = "idle" /\ AtRest.t = None
    BY DEF AtRest, ThreadStates
  <2> HIDE DEF r
  <2>3. Shape(k)' /\ Doing(k)' /\ Uses(k)' /\ Lists(k)' /\ ~HasMap(k)'
    BY <1>7, <2>1, <2>2
    DEF Shape, Doing, Uses, Lists, HasMap, ListSteps, GetSteps, ReleaseSteps, Inside, HalfWay
  <2>4. Idles(k)
    BY <1>1, <1>7, <2>1, <2>2 DEF Idles, HalfWay
  <2>5. QED
    BY <1>2, <1>6, <2>1, <2>2, <2>3, <2>4, IdlingKeeps
<1>9. CASE Tail(gs) # <<>>
  <2>1. r = [thread[k] EXCEPT !.guards = Tail(gs)] /\ Tail(gs) \in Drops
    BY <1>6, <1>9
  <2>2. /\ r.pc = "unlock" /\ r.op = thread[k].op /\ r.t = thread[k].t /\ r.guards = Tail(gs)
        /\ r \in ThreadStates
    BY <1>1, <1>3, <2>1 DEF ThreadStates
  <2> HIDE DEF r
  <2>3. Shape(k)'
    BY <1>4, <1>7, <2>1, <2>2 DEF Shape, ListSteps, GetSteps, ReleaseSteps, Inside
  <2>4. Doing(k)' /\ Lists(k)'
    BY <1>7, <2>2 DEF Doing, Lists, ListSteps, HalfWay
  <2>5. Alone(k) => Alone(k)'
    BY <1>7, <2>2 DEF Alone
  <2>6. Uses(k)'
    BY <1>1, <1>3, <1>5, <1>7, <2>2, <2>5 DEF Uses, ReleaseSteps
  <2>7. HasMap(k)' => mapLock' = k
    <3>1. HasMap(k)' => HasMap(k) /\ mapLock' = mapLock
      BY <1>6, <1>7, <1>9, <2>2 DEF HasMap, Inside, GetSteps, ReleaseSteps
    <3>2. QED
      BY <3>1 DEF LocksInv, MapLocked
  <2>8. Idles(k)
    BY <1>1, <1>7, <2>2 DEF Idles, HalfWay
  <2>9. QED
    BY <1>2, <1>6, <2>2, <2>3, <2>4, <2>6, <2>7, <2>8, IdlingKeeps
<1>10. QED
  BY <1>8, <1>9

\* Drop lists the ids of its transport and looks their configurations up, one by one.
LEMMA ListingKeeps ==
  ASSUME LocksInv, NEW k \in Threads,
         get_message_handler_ids(k) \/ get_listener_config_for_message_handler_id(k)
  PROVE  LocksInv' /\ UNCHANGED Abstract!vars
<1>1. /\ thread[k].pc \in ListSteps /\ UNCHANGED <<vars, locks>>
  BY DEF get_message_handler_ids, get_listener_config_for_message_handler_id, ListSteps
<1>2. Shape(k) /\ Uses(k) /\ Lists(k) /\ thread[k] \in ThreadStates
  BY DEF LocksInv, Shape
<1>3. PICK t \in Transports : t = thread[k].t
  BY <1>1, <1>2 DEF Shape, ListSteps
<1>4. UNCHANGED <<phase, pending, mapLock>> /\ UNCHANGED listenerConfigs
  BY <1>1 DEF vars, registry, lifecycle, locks
<1>5. \A id \in Ids : listenerConfigs[t][id] \in Configs \cup {None}
  BY DEF LocksInv, DataTypes
<1>6. PICK r : /\ r \in ThreadStates /\ thread' = [thread EXCEPT ![k] = r]
               /\ r.pc = "configs" /\ r.op = thread[k].op /\ r.t = t
               /\ r.found \subseteq ConfigsOf(t)
               /\ r.ids \subseteq {id \in Ids : listenerConfigs[t][id] # None}
               /\ \A id \in Ids : listenerConfigs[t][id] # None =>
                     id \in r.ids \/ listenerConfigs[t][id] \in r.found
  <2>1. CASE get_message_handler_ids(k)
    <3> DEFINE r == [thread[k] EXCEPT !.pc = "configs",
                                      !.ids = {id \in Ids : listenerConfigs[t][id] # None}]
    <3>1. thread' = [thread EXCEPT ![k] = r]
      BY <1>3, <2>1 DEF get_message_handler_ids, LocksInv, DataTypes
    <3>2. r \in ThreadStates
      BY <1>2 DEF ThreadStates, ListSteps
    <3>3. r.pc = "configs" /\ r.op = thread[k].op /\ r.t = t /\ r.found = thread[k].found
          /\ r.ids = {id \in Ids : listenerConfigs[t][id] # None}
      BY <1>2, <1>3 DEF ThreadStates
    <3>4. QED
      BY <1>1, <1>2, <1>3, <3>1, <3>2, <3>3 DEF Lists
  <2>2. CASE get_listener_config_for_message_handler_id(k)
    <3>1. PICK i \in thread[k].ids :
            thread' = [thread EXCEPT ![k].ids = @ \ {i},
                           ![k].found = @ \cup ({listenerConfigs[t][i]} \ {None})]
      BY <1>3, <2>2 DEF get_listener_config_for_message_handler_id
    <3> DEFINE r == [thread[k] EXCEPT !.ids = @ \ {i},
                           !.found = @ \cup ({listenerConfigs[t][i]} \ {None})]
    <3>2. thread' = [thread EXCEPT ![k] = r]
      BY <3>1 DEF LocksInv, DataTypes, ThreadStates
    <3>3. r.pc = "configs" /\ r.op = thread[k].op /\ r.t = t
          /\ r.found = thread[k].found \cup ({listenerConfigs[t][i]} \ {None})
          /\ r.ids = thread[k].ids \ {i} /\ i \in Ids
      BY <1>2, <1>3, <2>2 DEF ThreadStates, get_listener_config_for_message_handler_id
    <3>4. r \in ThreadStates
      BY <1>2, <1>5, <3>3 DEF ThreadStates
    <3> HIDE DEF r
    <3>5. /\ thread[k].ids \subseteq {id \in Ids : listenerConfigs[t][id] # None}
          /\ \A id \in Ids : listenerConfigs[t][id] # None =>
                     id \in thread[k].ids \/ listenerConfigs[t][id] \in thread[k].found
          /\ thread[k].found \subseteq ConfigsOf(t)
      BY <1>1, <1>2, <1>3, <2>2 DEF Lists, get_listener_config_for_message_handler_id
    <3>6. r.found \subseteq ConfigsOf(t)
      BY <3>3, <3>5 DEF ConfigsOf
    <3>7. QED
      BY <3>2, <3>3, <3>4, <3>5, <3>6
  <2>3. QED
    BY <2>1, <2>2
<1>7. thread'[k] = r /\ \A j \in Threads : j # k => thread'[j] = thread[j]
  BY <1>6 DEF LocksInv, DataTypes
<1>8. thread[k].op = "list" /\ phase[t] = "live" /\ Alone(k)
  BY <1>1, <1>2, <1>3 DEF Shape, Uses, ListSteps
<1>9. Shape(k)' /\ Doing(k)' /\ ~HasMap(k)'
  BY <1>6, <1>7, <1>8
  DEF Shape, Doing, HasMap, ListSteps, GetSteps, ReleaseSteps, Inside, HalfWay
<1>10. Lists(k)'
  BY <1>4, <1>6, <1>7 DEF Lists, ConfigsOf
<1>11. Alone(k)'
  BY <1>3, <1>6, <1>7, <1>8 DEF Alone
<1>12. Uses(k)'
  BY <1>4, <1>6, <1>7, <1>8, <1>11 DEF Uses, ReleaseSteps
<1>13. Idles(k)
  BY <1>1, <1>6, <1>7 DEF Idles, HalfWay, ListSteps
<1>14. QED
  BY <1>3, <1>4, <1>6, <1>9, <1>10, <1>12, <1>13, IdlingKeeps

-----------------------------------------------------------------------------
(* Steps under the locks.                                                  *)

\* What is known of a thread that has all it needs.
LEMMA AtWork ==
  ASSUME LocksInv, NEW k \in Threads, thread[k].pc \in Inside
  PROVE  /\ thread[k] \in ThreadStates /\ thread[k].t \in Transports /\ thread[k].c \in Configs
         /\ thread[k].guards = <<>> /\ thread[k].op \in {"get", "release"}
         /\ HasMap(k) /\ mapLock = k /\ Only(k)
         /\ \A id \in Ids : Agree(id) \/ (thread[k].pc \in HalfWay /\ id = thread[k].id)
         /\ freeIds \in SUBSET Ids /\ idToTransport \in [Ids -> Transports \cup {None}]
         /\ listenerConfigs \in [Transports -> [Ids -> Configs \cup {None}]]
<1>1. Shape(k) /\ HasMap(k)
  BY DEF LocksInv, HasMap
<1>2. Only(k) /\ mapLock = k
  BY <1>1, MapExcludes DEF LocksInv, MapLocked
<1>3. \A j \in Threads : thread[j].pc \in HalfWay => j = k
  BY <1>2 DEF Only, HalfWay, Inside, GetSteps, ReleaseSteps
<1>4. \A id \in Ids : Agree(id) \/ (thread[k].pc \in HalfWay /\ id = thread[k].id)
  BY <1>3 DEF LocksInv, Agreement
<1>5. thread[k].op \in {"get", "release"}
  BY <1>1 DEF Shape, Inside
<1>6. thread[k].pc # "idle"
  BY DEF Inside, GetSteps, ReleaseSteps
<1>7. QED
  BY <1>1, <1>2, <1>4, <1>5, <1>6 DEF Shape, LocksInv, DataTypes

\* The thread and the transport map lock after a step of an operation: it stays
\* inside, or begins to drop its guards.
Continues(k, r) ==
    /\ r \in ThreadStates /\ thread' = [thread EXCEPT ![k] = r]
    /\ r.op = thread[k].op /\ r.t = thread[k].t /\ r.c = thread[k].c
    /\ r.pc \in Inside \cup {"unlock"}
    /\ r.pc \in GetSteps => thread[k].op = "get"
    /\ r.pc \in ReleaseSteps => thread[k].op = "release"
    /\ r.pc \in Inside => r.guards = <<>>
    /\ r.pc = "unlock" => r.guards \in Drops
    /\ mapLock' = mapLock \/ (mapLock' = None /\ r.pc = "unlock" /\ r.guards = <<"configs">>)

\* A configuration taken out of one transport's pending set.
LEMMA TakenOut ==
  ASSUME NEW p \in [Transports -> SUBSET Configs], NEW t \in Transports, NEW c,
         NEW q, q = [p EXCEPT ![t] = @ \ {c}]
  PROVE  /\ q \in [Transports -> SUBSET Configs]
         /\ q[t] = p[t] \ {c}
         /\ \A u \in Transports : u # t => q[u] = p[u]
  OBVIOUS

\* A thread that continues, and leaves the pool and the maps agreeing about all ids
\* but the one it is at work on, keeps the invariant.
LEMMA WorkKeeps ==
  ASSUME LocksInv, NEW k \in Threads, thread[k].pc \in Inside, NEW r, Continues(k, r),
         freeIds' \in SUBSET Ids, idToTransport' \in [Ids -> Transports \cup {None}],
         listenerConfigs' \in [Transports -> [Ids -> Configs \cup {None}]],
         \A u \in Transports : u # thread[k].t => listenerConfigs'[u] = listenerConfigs[u],
         UNCHANGED phase,
         \/ UNCHANGED pending
         \/ /\ pending' = [pending EXCEPT ![thread[k].t] = @ \ {thread[k].c}]
            /\ r.pc = "unlock",
         \A id \in Ids : Agree(id)' \/ (r.pc \in HalfWay /\ id = r.id),
         Doing(k)'
  PROVE  LocksInv' /\ Only(k)'
<1>1. /\ thread[k].t \in Transports /\ thread[k].c \in Configs /\ HasMap(k) /\ mapLock = k
      /\ Only(k) /\ thread[k].op \in {"get", "release"}
  BY AtWork
<1>2. thread'[k] = r /\ \A j \in Threads : j # k => thread'[j] = thread[j]
  BY DEF Continues, LocksInv, DataTypes
<1>3. Only(k)'
  BY <1>1, <1>2 DEF Only
<1>4. PICK t \in Transports : t = thread[k].t
  BY <1>1
<1>5. Uses(k) /\ NothingPending
  BY DEF LocksInv
<1>6. thread[k].pc # "idle" /\ thread[k].pc \notin {"lock", "unlock"} \cup ListSteps
  BY DEF Inside, GetSteps, ReleaseSteps, ListSteps
<1>7. /\ pending' \in [Transports -> SUBSET Configs]
      /\ \A u \in Transports : u # t => pending'[u] = pending[u]
      /\ phase[t] = "live" => pending'[t] = pending[t]
      /\ r.pc # "unlock" => pending' = pending
      /\ NothingPending'
  <2>1. pending \in [Transports -> SUBSET Configs]
    BY DEF LocksInv, DataTypes
  <2>2. CASE pending' = pending
    <3>1. NothingPending'
      BY <1>5, <2>2 DEF NothingPending
    <3>2. QED
      BY <2>1, <2>2, <3>1
  <2>3. CASE pending' = [pending EXCEPT ![t] = @ \ {thread[k].c}] /\ r.pc = "unlock"
    <3>1. /\ pending' \in [Transports -> SUBSET Configs]
          /\ pending'[t] = pending[t] \ {thread[k].c}
          /\ \A u \in Transports : u # t => pending'[u] = pending[u]
      BY <2>1, <2>3, TakenOut
    <3>2. \A u \in Transports : pending[u] = {} => pending'[u] = {}
      BY <3>1
    <3>3. NothingPending'
      BY <1>5, <3>2 DEF NothingPending
    <3>4. phase[t] = "live" => pending'[t] = pending[t]
      BY <1>5, <3>2 DEF NothingPending
    <3>5. QED
      BY <2>3, <3>1, <3>3, <3>4
  <2>4. QED
    BY <1>4, <2>2, <2>3
<1>8. ~Alone(k) => phase[t] = "live"
  BY <1>4, <1>5, <1>6 DEF Uses
<1>9. thread' \in [Threads -> ThreadStates] /\ DataTypes'
  BY <1>7 DEF Continues, LocksInv, DataTypes
<1>10. Moves(k)
  <2>1. \A u \in Transports : u # thread[k].t \/ ~Alone(k) =>
          phase'[u] = phase[u] /\ pending'[u] = pending[u]
    BY <1>4, <1>7, <1>8
  <2>2. \/ mapLock' = mapLock
        \/ mapLock' = None /\ HasMap(k)
    BY <1>1 DEF Continues
  <2>3. thread'[k].t = thread[k].t
    BY <1>2 DEF Continues
  <2>4. QED
    BY <1>1, <1>2, <1>9, <2>1, <2>2, <2>3 DEF Moves
<1>11. Agreement'
  BY <1>2 DEF Agreement
<1>12. r.pc \notin {"idle", "lock"} \cup ListSteps
  BY DEF Continues, Inside, GetSteps, ReleaseSteps, ListSteps
<1>13. Shape(k)'
  BY <1>1, <1>2, <1>12 DEF Continues, Shape, Inside
<1>14. Lists(k)'
  BY <1>2, <1>12 DEF Lists, ListSteps
<1>15. HasMap(k)' => mapLock' = k
  BY <1>1, <1>2 DEF Continues, HasMap, Inside, GetSteps, ReleaseSteps
<1>16. Alone(k) => Alone(k)'
  BY <1>2 DEF Alone, Continues
<1>17. Uses(k)'
  <2>1. thread'[k].t = t /\ thread'[k].op = thread[k].op /\ thread'[k].c = thread[k].c
        /\ thread'[k].pc = r.pc
    BY <1>2, <1>4 DEF Continues
  <2>2. phase'[t] = phase[t]
    OBVIOUS
  <2>3. thread[k].op = "get" => phase[t] = "live"
    BY <1>4, <1>5, <1>6 DEF Uses
  <2>4. r.pc \in ReleaseSteps => thread[k].pc \in ReleaseSteps /\ pending' = pending
    <3>1. r.pc \in ReleaseSteps => thread[k].op = "release" /\ r.pc # "unlock"
      BY DEF Continues, ReleaseSteps
    <3>2. thread[k].pc \in GetSteps => thread[k].op = "get"
      BY DEF LocksInv, Shape
    <3>3. QED
      BY <1>7, <3>1, <3>2 DEF Inside
  <2>5. thread[k].op # "list" /\ r.pc # "lock"
    BY <1>1, <1>12
  <2>6. QED
    BY <1>1, <1>4, <1>5, <1>6, <1>16, <2>1, <2>2, <2>3, <2>4, <2>5 DEF Uses
<1>18. QED
  BY <1>3, <1>7, <1>9, <1>10, <1>11, <1>13, <1>14, <1>15, <1>17, OwnPartSuffices DEF OwnPart

\* Thread k goes to pc, with an id and the guards it has to drop.
Goes(k, pc, id, gs) ==
    thread' = [thread EXCEPT ![k] = [thread[k] EXCEPT !.pc = pc, !.id = id, !.guards = gs]]

\* A step to another place, with no guard to drop.
LEMMA GotoGoes ==
  ASSUME NEW k \in Threads, thread \in [Threads -> ThreadStates], thread[k].guards = <<>>,
         NEW pc, Goto(k, pc)
  PROVE  Goes(k, pc, thread[k].id, <<>>)
<1>1. thread[k] \in ThreadStates /\ thread' = [thread EXCEPT ![k] = [thread[k] EXCEPT !.pc = pc]]
  BY DEF Goto
<1>2. \A x \in ThreadStates : x.guards = <<>> =>
        [x EXCEPT !.pc = pc] = [x EXCEPT !.pc = pc, !.id = x.id, !.guards = <<>>]
  BY DEF ThreadStates
<1>3. QED
  BY <1>1, <1>2 DEF Goes

\* What its record is then.
LEMMA NextRecord ==
  ASSUME LocksInv, NEW k \in Threads, thread[k].pc \in Inside,
         NEW pc \in Inside \cup {"unlock"}, NEW id \in Ids \cup {None},
         NEW gs \in {<<>>} \cup Drops,
         pc \in GetSteps => thread[k].op = "get", pc \in ReleaseSteps => thread[k].op = "release",
         pc \in Inside => gs = <<>>, pc = "unlock" => gs \in Drops,
         Goes(k, pc, id, gs),
         mapLock' = mapLock \/ (mapLock' = None /\ pc = "unlock" /\ gs = <<"configs">>)
  PROVE  /\ Continues(k, thread'[k])
         /\ thread'[k].pc = pc /\ thread'[k].id = id /\ thread'[k].t = thread[k].t
         /\ thread'[k].c = thread[k].c
<1> DEFINE r == [thread[k] EXCEPT !.pc = pc, !.id = id, !.guards = gs]
<1>1. thread[k] \in ThreadStates
  BY AtWork
<1>2. r \in ThreadStates /\ r.pc = pc /\ r.id = id /\ r.guards = gs /\ r.t = thread[k].t
      /\ r.c = thread[k].c /\ r.op = thread[k].op
  BY <1>1 DEF ThreadStates
<1> HIDE DEF r
<1>3. thread'[k] = r /\ thread' = [thread EXCEPT ![k] = r]
  BY DEF r, Goes, LocksInv, DataTypes
<1>4. QED
  BY <1>2, <1>3 DEF Continues

\* The registry's variables as the lock-level specification shows them.
Unseen ==
    /\ UNCHANGED <<PoolSeen, MapSeen, listenerConfigs>>
    /\ UNCHANGED <<phase, pending>> /\ UNCHANGED <<handedOut, cb, owner>>

\* A step it does not show is a stutter of the registry.
LEMMA UnseenIsStutter ==
  ASSUME Unseen
  PROVE  UNCHANGED Abstract!vars
  BY DEF Unseen, Abstract!vars, Abstract!registry, Abstract!lifecycle

\* An operation that stops before it has changed anything.
LEMMA RefusalKeeps ==
  ASSUME LocksInv, NEW k \in Threads, thread[k].pc \in {"find", "lookup"}, UNCHANGED vars,
         UNCHANGED locks, Unlocking(k, <<"configs", "pool", "map">>)
  PROVE  LocksInv' /\ UNCHANGED Abstract!vars
<1>1. thread[k].pc \in Inside /\ thread[k].pc \notin HalfWay
  BY DEF Inside, GetSteps, ReleaseSteps, HalfWay
<1>2. thread[k] \in ThreadStates /\ thread[k].id \in Ids \cup {None}
  BY <1>1, AtWork DEF ThreadStates
<1>3. Goes(k, "unlock", thread[k].id, <<"configs", "pool", "map">>)
  BY <1>2 DEF Goes, Unlocking, LocksInv, DataTypes, ThreadStates
<1>4. <<"configs", "pool", "map">> \in Drops /\ "unlock" \notin Inside \cup HalfWay
  BY DEF Drops, Inside, GetSteps, ReleaseSteps, HalfWay
<1>5. "unlock" \notin GetSteps /\ "unlock" \notin ReleaseSteps /\ UNCHANGED mapLock
  BY DEF GetSteps, ReleaseSteps, locks
<1>6. Continues(k, thread'[k]) /\ thread'[k].pc = "unlock"
  BY <1>1, <1>2, <1>3, <1>4, <1>5, NextRecord
<1>7. UNCHANGED <<freeIds, idToTransport, listenerConfigs, phase, pending>>
  BY DEF vars, registry, lifecycle
<1>8. \A id \in Ids : Agree(id)'
  BY <1>1, <1>7, AtWork DEF Agree
<1>9. Doing(k)'
  BY <1>6 DEF Doing, HalfWay
<1>10. Idles(k)
  BY <1>1, <1>3, <1>4, <1>6 DEF Goes, Idles, LocksInv, DataTypes
<1>11. LocksInv'
  BY <1>1, <1>6, <1>7, <1>8, <1>9, AtWork, WorkKeeps
<1>12. QED
  BY <1>10, <1>11, IdlingIsUnseen

\* get_message_handler takes an id from the pool: nobody has it.
LEMMA FindKeeps ==
  ASSUME LocksInv, NEW k \in Threads, find_available_message_handler_id(k)
  PROVE  LocksInv' /\ UNCHANGED Abstract!vars
<1>1. /\ thread[k].pc = "find"
      /\ UNCHANGED <<idToTransport, listenerConfigs, lifecycle, handedOut, cb, owner, locks>>
  BY DEF find_available_message_handler_id
<1>2. thread[k].pc \in Inside /\ thread[k].pc \notin HalfWay
  BY <1>1 DEF Inside, GetSteps, HalfWay
<1>3. CASE Unlocking(k, <<"configs", "pool", "map">>) /\ UNCHANGED freeIds
  BY <1>1, <1>3, RefusalKeeps DEF vars, registry
<1>4. ASSUME NEW id \in freeIds, freeIds' = freeIds \ {id},
             thread' = [thread EXCEPT ![k].pc = "insertTransport", ![k].id = id]
      PROVE  LocksInv' /\ UNCHANGED Abstract!vars
  <2>1. /\ thread[k] \in ThreadStates /\ thread[k].guards = <<>> /\ Only(k)
        /\ \A i \in Ids : Agree(i)
        /\ freeIds \in SUBSET Ids /\ idToTransport \in [Ids -> Transports \cup {None}]
        /\ listenerConfigs \in [Transports -> [Ids -> Configs \cup {None}]]
    BY <1>2, AtWork
  <2>2. id \in Ids /\ Agree(id) /\ thread[k].op = "get"
    BY <1>1, <2>1 DEF LocksInv, Shape, GetSteps
  <2>3. Goes(k, "insertTransport", id, <<>>)
    BY <1>4, <2>1 DEF Goes, LocksInv, DataTypes, ThreadStates
  <2>4. "insertTransport" \in Inside /\ "insertTransport" \in HalfWay
    BY DEF Inside, GetSteps, HalfWay
  <2>5. "insertTransport" \notin ReleaseSteps /\ UNCHANGED mapLock
    BY <1>1 DEF ReleaseSteps, locks
  <2>6. /\ Continues(k, thread'[k]) /\ thread'[k].pc = "insertTransport" /\ thread'[k].id = id
    BY <1>2, <2>2, <2>3, <2>4, <2>5, NextRecord
  <2>7. idToTransport[id] = None /\ \A u \in Transports : listenerConfigs[u][id] = None
    BY <2>1, <2>2, NoneAssumption DEF Agree
  <2>8. Doing(k)'
    <3>1. id \notin freeIds' /\ UNCHANGED <<idToTransport, listenerConfigs>>
      BY <1>1, <1>4
    <3>2. QED
      BY <2>2, <2>6, <2>7, <3>1 DEF Doing, HalfWay
  <2>9. \A i \in Ids : i # id => Agree(i)'
    BY <1>1, <1>4, <2>1 DEF Agree
  <2>10. UNCHANGED <<phase, pending>>
    BY <1>1 DEF lifecycle
  <2>11. LocksInv' /\ Only(k)'
    BY <1>1, <1>2, <1>4, <2>1, <2>4, <2>6, <2>8, <2>9, <2>10, WorkKeeps
  <2>12. Taken = {} /\ Given = {} /\ Freed = {} /\ Withdrawn = {}
    BY <1>1, <2>1, SeenNow DEF GetSteps
  <2>13. Taken' = {id} /\ Given' = {} /\ Freed' = {} /\ Withdrawn' = {}
    BY <2>6, <2>11, SeenNext DEF GetSteps
  <2>14. UNCHANGED <<PoolSeen, MapSeen>>
    BY <1>1, <1>4, <2>12, <2>13 DEF PoolSeen, MapSeen
  <2>15. QED
    BY <1>1, <2>10, <2>11, <2>14, UnseenIsStutter DEF Unseen
<1>5. QED
  BY <1>3, <1>4 DEF find_available_message_handler_id

\* The transport map has room for the id: the first rollback is never alone.
LEMMA InsertTransportKeeps ==
  ASSUME LocksInv, NEW k \in Threads, insert_message_handler_id_transport(k)
  PROVE  LocksInv' /\ UNCHANGED Abstract!vars
<1>1. /\ thread[k].pc = "insertTransport"
      /\ UNCHANGED <<freeIds, listenerConfigs, lifecycle, handedOut, cb, owner, locks>>
  BY DEF insert_message_handler_id_transport
<1>2. thread[k].pc \in Inside /\ thread[k].pc \in HalfWay /\ thread[k].pc \in GetSteps
  BY <1>1 DEF Inside, GetSteps, HalfWay
<1>3. /\ thread[k] \in ThreadStates /\ thread[k].guards = <<>> /\ Only(k)
      /\ thread[k].t \in Transports
      /\ \A i \in Ids : Agree(i) \/ i = thread[k].id
      /\ freeIds \in SUBSET Ids /\ idToTransport \in [Ids -> Transports \cup {None}]
      /\ listenerConfigs \in [Transports -> [Ids -> Configs \cup {None}]]
  BY <1>2, AtWork
<1>4. thread[k].op = "get" /\ Doing(k)
  BY <1>2 DEF LocksInv, Shape
<1>5. thread[k].id \in Ids
  BY <1>1, <1>4 DEF Doing, HalfWay
<1>6. PICK id \in Ids : id = thread[k].id
  BY <1>5
<1>7. id \notin freeIds /\ idToTransport[id] = None
      /\ \A u \in Transports : listenerConfigs[u][id] = None
  BY <1>1, <1>4, <1>6 DEF Doing
<1>8. /\ idToTransport' = [idToTransport EXCEPT ![id] = thread[k].t]
      /\ Goto(k, "insertConfig")
  BY <1>6, <1>7 DEF insert_message_handler_id_transport
<1>9. Goes(k, "insertConfig", id, <<>>)
  BY <1>3, <1>6, <1>8, GotoGoes DEF LocksInv, DataTypes
<1>10. /\ "insertConfig" \in Inside /\ "insertConfig" \in HalfWay
       /\ "insertConfig" \notin ReleaseSteps /\ UNCHANGED mapLock
  BY <1>1 DEF Inside, GetSteps, HalfWay, ReleaseSteps, locks
<1>11. /\ Continues(k, thread'[k]) /\ thread'[k].pc = "insertConfig" /\ thread'[k].id = id
       /\ thread'[k].t = thread[k].t
  BY <1>2, <1>4, <1>9, <1>10, NextRecord
<1>12. idToTransport' \in [Ids -> Transports \cup {None}] /\ idToTransport'[id] = thread[k].t
       /\ \A i \in Ids : i # id => idToTransport'[i] = idToTransport[i]
  BY <1>3, <1>8
<1>13. UNCHANGED <<freeIds, listenerConfigs, phase, pending>>
  BY <1>1 DEF lifecycle
<1>14. Doing(k)'
  BY <1>7, <1>11, <1>12, <1>13 DEF Doing, HalfWay
<1>15. \A i \in Ids : i # id => Agree(i)'
  BY <1>3, <1>6, <1>12, <1>13 DEF Agree
<1>16. LocksInv' /\ Only(k)'
  BY <1>2, <1>3, <1>10, <1>11, <1>12, <1>13, <1>14, <1>15, WorkKeeps
<1>17. Taken = {id} /\ Given = {} /\ Freed = {} /\ Withdrawn = {}
  BY <1>1, <1>3, <1>6, SeenNow DEF GetSteps
<1>18. Taken' = {id} /\ Given' = {id} /\ Freed' = {} /\ Withdrawn' = {}
  BY <1>11, <1>16, SeenNext DEF GetSteps
<1>19. UNCHANGED <<PoolSeen, MapSeen>>
  BY <1>7, <1>12, <1>13, <1>17, <1>18 DEF PoolSeen, MapSeen
<1>20. QED
  BY <1>1, <1>13, <1>16, <1>19, UnseenIsStutter DEF Unseen

\* What is known when the configuration is about to be inserted, or that is undone.
LEMMA InsertFacts ==
  ASSUME LocksInv, NEW k \in Threads,
         thread[k].pc \in {"insertConfig", "rollbackPool", "rollbackTransport"}
  PROVE  /\ thread[k].pc \in Inside /\ thread[k] \in ThreadStates /\ thread[k].guards = <<>>
         /\ Only(k) /\ thread[k].t \in Transports /\ thread[k].c \in Configs
         /\ \A i \in Ids : Agree(i) \/ i = thread[k].id
         /\ thread[k].op = "get" /\ thread[k].id \in Ids
         /\ thread[k].pc = "rollbackTransport" <=> thread[k].id \in freeIds
         /\ idToTransport[thread[k].id] = thread[k].t
         /\ \A u \in Transports : listenerConfigs[u][thread[k].id] = None
         /\ freeIds \in SUBSET Ids /\ idToTransport \in [Ids -> Transports \cup {None}]
         /\ listenerConfigs \in [Transports -> [Ids -> Configs \cup {None}]]
         /\ Taken = {thread[k].id} /\ Given = {thread[k].id} /\ Freed = {} /\ Withdrawn = {}
         /\ phase[thread[k].t] = "live"
<1>1. thread[k].pc \in Inside /\ thread[k].pc \in HalfWay /\ thread[k].pc \in GetSteps
  BY DEF Inside, GetSteps, HalfWay
<1>2. /\ thread[k] \in ThreadStates /\ thread[k].guards = <<>> /\ Only(k)
      /\ thread[k].t \in Transports /\ thread[k].c \in Configs
      /\ \A i \in Ids : Agree(i) \/ i = thread[k].id
      /\ freeIds \in SUBSET Ids /\ idToTransport \in [Ids -> Transports \cup {None}]
      /\ listenerConfigs \in [Transports -> [Ids -> Configs \cup {None}]]
  BY <1>1, AtWork
<1>3. thread[k].op = "get" /\ Doing(k) /\ Uses(k)
  BY <1>1 DEF LocksInv, Shape
<1>4. /\ thread[k].id \in Ids /\ idToTransport[thread[k].id] = thread[k].t
      /\ \A u \in Transports : listenerConfigs[u][thread[k].id] = None
      /\ thread[k].pc = "rollbackTransport" <=> thread[k].id \in freeIds
  BY <1>1, <1>3 DEF Doing
<1>5. Taken = {thread[k].id} /\ Given = {thread[k].id} /\ Freed = {} /\ Withdrawn = {}
  BY <1>2, SeenNow DEF GetSteps
<1>6. phase[thread[k].t] = "live"
  BY <1>3 DEF Uses
<1>7. QED
  BY <1>1, <1>2, <1>3, <1>4, <1>5, <1>6

\* The configuration exists: the rollback begins.
LEMMA InsertConfigRefused ==
  ASSUME LocksInv, NEW k \in Threads, thread[k].pc = "insertConfig", Goto(k, "rollbackPool"),
         UNCHANGED <<freeIds, idToTransport, listenerConfigs>>, UNCHANGED lifecycle,
         UNCHANGED <<handedOut, cb, owner>>, UNCHANGED locks
  PROVE  LocksInv' /\ UNCHANGED Abstract!vars
<1>1. /\ thread[k].pc \in Inside /\ thread[k] \in ThreadStates /\ thread[k].guards = <<>>
      /\ \A i \in Ids : Agree(i) \/ i = thread[k].id
      /\ thread[k].op = "get" /\ thread[k].id \in Ids /\ thread[k].id \notin freeIds
      /\ idToTransport[thread[k].id] = thread[k].t
      /\ \A u \in Transports : listenerConfigs[u][thread[k].id] = None
      /\ freeIds \in SUBSET Ids /\ idToTransport \in [Ids -> Transports \cup {None}]
      /\ listenerConfigs \in [Transports -> [Ids -> Configs \cup {None}]]
      /\ Taken = {thread[k].id} /\ Given = {thread[k].id} /\ Freed = {} /\ Withdrawn = {}
  BY InsertFacts
<1>2. PICK id \in Ids : id = thread[k].id
  BY <1>1
<1>3. Goes(k, "rollbackPool", id, <<>>)
  BY <1>1, <1>2, GotoGoes DEF LocksInv, DataTypes
<1>4. /\ "rollbackPool" \in Inside /\ "rollbackPool" \in HalfWay
      /\ "rollbackPool" \notin ReleaseSteps /\ UNCHANGED mapLock
  BY DEF Inside, GetSteps, HalfWay, ReleaseSteps, locks
<1>5. /\ Continues(k, thread'[k]) /\ thread'[k].pc = "rollbackPool" /\ thread'[k].id = id
      /\ thread'[k].t = thread[k].t
  BY <1>1, <1>3, <1>4, NextRecord
<1>6. Doing(k)'
  BY <1>1, <1>2, <1>5 DEF Doing, HalfWay
<1>7. \A i \in Ids : i # id => Agree(i)'
  BY <1>1, <1>2 DEF Agree
<1>8. UNCHANGED <<phase, pending>>
  BY DEF lifecycle
<1>9. LocksInv' /\ Only(k)'
  BY <1>1, <1>4, <1>5, <1>6, <1>7, <1>8, WorkKeeps
<1>10. Taken' = {id} /\ Given' = {id} /\ Freed' = {} /\ Withdrawn' = {}
  BY <1>5, <1>9, SeenNext DEF GetSteps
<1>11. UNCHANGED <<PoolSeen, MapSeen>>
  BY <1>1, <1>2, <1>10 DEF PoolSeen, MapSeen
<1>12. QED
  BY <1>8, <1>9, <1>11, UnseenIsStutter DEF Unseen

\* The configuration is inserted: this is the moment of the registration.
LEMMA InsertConfigGranted ==
  ASSUME LocksInv, NEW k \in Threads, thread[k].pc = "insertConfig",
         thread[k].c \notin ConfigsOf(thread[k].t),
         listenerConfigs' = [listenerConfigs EXCEPT ![thread[k].t][thread[k].id] = thread[k].c],
         handedOut' = handedOut \cup {thread[k].id}, Unlocking(k, <<"pool", "map", "configs">>),
         UNCHANGED <<freeIds, idToTransport>>, UNCHANGED lifecycle,
         UNCHANGED <<cb, owner>>, UNCHANGED locks
  PROVE  LocksInv' /\ Abstract!Register(thread[k].t, thread[k].c)
<1>1. /\ thread[k].pc \in Inside /\ thread[k] \in ThreadStates
      /\ thread[k].t \in Transports /\ thread[k].c \in Configs
      /\ \A i \in Ids : Agree(i) \/ i = thread[k].id
      /\ thread[k].op = "get" /\ thread[k].id \in Ids /\ thread[k].id \notin freeIds
      /\ idToTransport[thread[k].id] = thread[k].t
      /\ \A u \in Transports : listenerConfigs[u][thread[k].id] = None
      /\ freeIds \in SUBSET Ids /\ idToTransport \in [Ids -> Transports \cup {None}]
      /\ listenerConfigs \in [Transports -> [Ids -> Configs \cup {None}]]
      /\ Taken = {thread[k].id} /\ Given = {thread[k].id} /\ Freed = {} /\ Withdrawn = {}
      /\ phase[thread[k].t] = "live"
  BY InsertFacts
<1>2. PICK id \in Ids, t \in Transports, c \in Configs :
         id = thread[k].id /\ t = thread[k].t /\ c = thread[k].c
  BY <1>1
<1>3. Goes(k, "unlock", id, <<"pool", "map", "configs">>)
  BY <1>1, <1>2 DEF Goes, Unlocking, LocksInv, DataTypes, ThreadStates
<1>4. /\ "unlock" \notin Inside \cup HalfWay /\ "unlock" \notin GetSteps
      /\ "unlock" \notin ReleaseSteps /\ UNCHANGED mapLock
      /\ <<"pool", "map", "configs">> \in Drops
  BY DEF Inside, GetSteps, HalfWay, ReleaseSteps, locks, Drops
<1>5. Continues(k, thread'[k]) /\ thread'[k].pc = "unlock"
  BY <1>1, <1>3, <1>4, NextRecord
<1>6. Doing(k)'
  BY <1>5 DEF Doing, HalfWay
<1>7. /\ listenerConfigs' \in [Transports -> [Ids -> Configs \cup {None}]]
      /\ listenerConfigs'[t][id] = c
      /\ \A u \in Transports, i \in Ids :
            u # t \/ i # id => listenerConfigs'[u][i] = listenerConfigs[u][i]
      /\ \A u \in Transports : u # t => listenerConfigs'[u] = listenerConfigs[u]
  BY <1>1, <1>2
<1>8. \A i \in Ids : Agree(i)'
  <2> SUFFICES ASSUME NEW i \in Ids PROVE Agree(i)'
    OBVIOUS
  <2>1. CASE i = id
    BY <1>1, <1>2, <1>7, <2>1, NoneAssumption DEF Agree
  <2>2. CASE i # id
    BY <1>1, <1>2, <1>7, <2>2 DEF Agree
  <2>3. QED
    BY <2>1, <2>2
<1>9. UNCHANGED <<phase, pending>>
  BY DEF lifecycle
<1>10. LocksInv' /\ Only(k)'
  BY <1>1, <1>2, <1>4, <1>5, <1>6, <1>7, <1>8, <1>9, WorkKeeps
<1>11. Taken' = {} /\ Given' = {} /\ Freed' = {} /\ Withdrawn' = {}
  BY <1>5, <1>10, SeenNext DEF GetSteps
<1>12. PoolSeen = freeIds \cup {id} /\ PoolSeen' = PoolSeen \ {id}
  BY <1>1, <1>2, <1>11 DEF PoolSeen
<1>13. MapSeen[id] = None /\ MapSeen' = [MapSeen EXCEPT ![id] = t]
  BY <1>1, <1>2, <1>11 DEF MapSeen
<1>14. Abstract!GetOutcome(t, c, id) = "Ok"
  BY <1>1, <1>2, <1>13 DEF Abstract!GetOutcome, Abstract!ConfigsOf, ConfigsOf
<1>15. Abstract!get_message_handler(t, c, id, "Ok")
  BY <1>2, <1>12, <1>13, <1>14 DEF Abstract!get_message_handler
<1>16. "Ok" \in Abstract!GetResults
  BY DEF Abstract!GetResults
<1>17. Abstract!Register(t, c)
  BY <1>1, <1>2, <1>9, <1>15, <1>16 DEF Abstract!Register, Abstract!lifecycle
<1>18. QED
  BY <1>2, <1>10, <1>17

\* The last insertion of get_message_handler: a registration, or nothing yet.
LEMMA InsertConfigKeeps ==
  ASSUME LocksInv, NEW k \in Threads, insert_message_handler_id_and_listener_config(k)
  PROVE  LocksInv' /\ [Abstract!Next]_(Abstract!vars)
<1>1. /\ thread[k].pc = "insertConfig" /\ UNCHANGED <<freeIds, idToTransport>>
      /\ UNCHANGED lifecycle /\ UNCHANGED <<cb, owner>> /\ UNCHANGED locks
  BY DEF insert_message_handler_id_and_listener_config
<1>2. CASE /\ Goto(k, "rollbackPool") /\ UNCHANGED <<listenerConfigs, handedOut>>
  BY <1>1, <1>2, InsertConfigRefused
<1>3. CASE /\ thread[k].c \notin ConfigsOf(thread[k].t)
           /\ listenerConfigs' = [listenerConfigs EXCEPT ![thread[k].t][thread[k].id] = thread[k].c]
           /\ handedOut' = handedOut \cup {thread[k].id}
           /\ Unlocking(k, <<"pool", "map", "configs">>)
  <2>1. LocksInv' /\ Abstract!Register(thread[k].t, thread[k].c)
    BY <1>1, <1>3, InsertConfigGranted
  <2>2. thread[k].t \in Transports /\ thread[k].c \in Configs
    BY <1>1, InsertFacts
  <2>3. QED
    BY <2>1, <2>2 DEF Abstract!Next, Abstract!TransportNext
<1>4. QED
  BY <1>2, <1>3 DEF insert_message_handler_id_and_listener_config

\* The rollback gives the id back to the pool: to the others it never left.
LEMMA RollbackPoolKeeps ==
  ASSUME LocksInv, NEW k \in Threads, RollbackPool(k)
  PROVE  LocksInv' /\ UNCHANGED Abstract!vars
<1>1. /\ thread[k].pc = "rollbackPool" /\ UNCHANGED <<idToTransport, listenerConfigs>>
      /\ UNCHANGED lifecycle /\ UNCHANGED <<handedOut, cb, owner>> /\ UNCHANGED mapLock
      /\ freeIds' = freeIds \cup {thread[k].id}
  BY DEF RollbackPool
<1>2. /\ thread[k].pc \in Inside /\ thread[k] \in ThreadStates /\ thread[k].guards = <<>>
      /\ thread[k].t \in Transports
      /\ \A i \in Ids : Agree(i) \/ i = thread[k].id
      /\ thread[k].op = "get" /\ thread[k].id \in Ids /\ thread[k].id \notin freeIds
      /\ idToTransport[thread[k].id] = thread[k].t
      /\ \A u \in Transports : listenerConfigs[u][thread[k].id] = None
      /\ freeIds \in SUBSET Ids /\ idToTransport \in [Ids -> Transports \cup {None}]
      /\ listenerConfigs \in [Transports -> [Ids -> Configs \cup {None}]]
      /\ Taken = {thread[k].id} /\ Given = {thread[k].id} /\ Freed = {} /\ Withdrawn = {}
  BY <1>1, InsertFacts
<1>3. PICK id \in Ids : id = thread[k].id
  BY <1>2
<1>4. Goto(k, "rollbackTransport")
  BY <1>2 DEF RollbackPool
<1>5. Goes(k, "rollbackTransport", id, <<>>)
  BY <1>2, <1>3, <1>4, GotoGoes DEF LocksInv, DataTypes
<1>6. /\ "rollbackTransport" \in Inside /\ "rollbackTransport" \in HalfWay
      /\ "rollbackTransport" \notin ReleaseSteps
  BY DEF Inside, GetSteps, HalfWay, ReleaseSteps
<1>7. /\ Continues(k, thread'[k]) /\ thread'[k].pc = "rollbackTransport" /\ thread'[k].id = id
      /\ thread'[k].t = thread[k].t
  BY <1>1, <1>2, <1>5, <1>6, NextRecord
<1>8. Doing(k)'
  BY <1>1, <1>2, <1>3, <1>7 DEF Doing, HalfWay
<1>9. \A i \in Ids : i # id => Agree(i)'
  BY <1>1, <1>2, <1>3 DEF Agree
<1>10. UNCHANGED <<phase, pending>>
  BY <1>1 DEF lifecycle
<1>11. LocksInv' /\ Only(k)'
  BY <1>1, <1>2, <1>6, <1>7, <1>8, <1>9, <1>10, WorkKeeps
<1>12. Taken' = {id} /\ Given' = {id} /\ Freed' = {} /\ Withdrawn' = {}
  BY <1>7, <1>11, SeenNext DEF GetSteps
<1>13. UNCHANGED <<PoolSeen, MapSeen>>
  BY <1>1, <1>2, <1>3, <1>12 DEF PoolSeen, MapSeen
<1>14. QED
  BY <1>1, <1>10, <1>11, <1>13, UnseenIsStutter DEF Unseen

\* The rollback takes the id from the transport again and lets the map go.
LEMMA RollbackTransportKeeps ==
  ASSUME LocksInv, NEW k \in Threads, RollbackTransport(k)
  PROVE  LocksInv' /\ UNCHANGED Abstract!vars
<1>1. /\ thread[k].pc = "rollbackTransport" /\ UNCHANGED <<freeIds, listenerConfigs>>
      /\ UNCHANGED lifecycle /\ UNCHANGED <<handedOut, cb, owner>> /\ mapLock' = None
      /\ idToTransport' = [idToTransport EXCEPT ![thread[k].id] = None]
      /\ Unlocking(k, <<"configs">>)
  BY DEF RollbackTransport
<1>2. /\ thread[k].pc \in Inside /\ thread[k] \in ThreadStates
      /\ thread[k].t \in Transports
      /\ \A i \in Ids : Agree(i) \/ i = thread[k].id
      /\ thread[k].op = "get" /\ thread[k].id \in Ids /\ thread[k].id \in freeIds
      /\ \A u \in Transports : listenerConfigs[u][thread[k].id] = None
      /\ freeIds \in SUBSET Ids /\ idToTransport \in [Ids -> Transports \cup {None}]
      /\ listenerConfigs \in [Transports -> [Ids -> Configs \cup {None}]]
      /\ Taken = {thread[k].id} /\ Given = {thread[k].id} /\ Freed = {} /\ Withdrawn = {}
  BY <1>1, InsertFacts
<1>3. PICK id \in Ids : id = thread[k].id
  BY <1>2
<1>4. Goes(k, "unlock", id, <<"configs">>)
  BY <1>1, <1>2, <1>3 DEF Goes, Unlocking, LocksInv, DataTypes, ThreadStates
<1>5. /\ "unlock" \notin Inside \cup HalfWay /\ "unlock" \notin GetSteps
      /\ "unlock" \notin ReleaseSteps /\ <<"configs">> \in Drops
  BY DEF Inside, GetSteps, HalfWay, ReleaseSteps, Drops
<1>6. Continues(k, thread'[k]) /\ thread'[k].pc = "unlock"
  BY <1>1, <1>2, <1>4, <1>5, NextRecord
<1>7. Doing(k)'
  BY <1>6 DEF Doing, HalfWay
<1>8. idToTransport' \in [Ids -> Transports \cup {None}] /\ idToTransport'[id] = None
      /\ \A i \in Ids : i # id => idToTransport'[i] = idToTransport[i]
  BY <1>1, <1>2, <1>3
<1>9. \A i \in Ids : Agree(i)'
  BY <1>1, <1>2, <1>3, <1>8, NoneAssumption DEF Agree
<1>10. UNCHANGED <<phase, pending>>
  BY <1>1 DEF lifecycle
<1>11. LocksInv' /\ Only(k)'
  BY <1>1, <1>2, <1>5, <1>6, <1>7, <1>8, <1>9, <1>10, WorkKeeps
<1>12. Taken' = {} /\ Given' = {} /\ Freed' = {} /\ Withdrawn' = {}
  BY <1>6, <1>11, SeenNext DEF GetSteps
<1>13. UNCHANGED <<PoolSeen, MapSeen>>
  BY <1>1, <1>2, <1>3, <1>8, <1>12 DEF PoolSeen, MapSeen
<1>14. QED
  BY <1>1, <1>10, <1>11, <1>13, UnseenIsStutter DEF Unseen

\* release_message_handler looks the id up: the maps still agree about it.
LEMMA LookupKeeps ==
  ASSUME LocksInv, NEW k \in Threads, get_message_handler_id_for_listener_config(k)
  PROVE  LocksInv' /\ UNCHANGED Abstract!vars
<1>1. thread[k].pc = "lookup" /\ UNCHANGED vars /\ UNCHANGED locks
  BY DEF get_message_handler_id_for_listener_config
<1>2. thread[k].pc \in Inside /\ thread[k].pc \in ReleaseSteps /\ thread[k].pc \notin HalfWay
  BY <1>1 DEF Inside, ReleaseSteps, HalfWay
<1>3. CASE Unlocking(k, <<"configs", "pool", "map">>)
  BY <1>1, <1>3, RefusalKeeps
<1>4. ASSUME NEW id \in Ids, listenerConfigs[thread[k].t][id] = thread[k].c,
             thread' = [thread EXCEPT ![k].pc = "free", ![k].id = id]
      PROVE  LocksInv' /\ UNCHANGED Abstract!vars
  <2>1. /\ thread[k] \in ThreadStates /\ thread[k].guards = <<>>
        /\ thread[k].t \in Transports /\ thread[k].c \in Configs
        /\ \A i \in Ids : Agree(i)
        /\ freeIds \in SUBSET Ids /\ idToTransport \in [Ids -> Transports \cup {None}]
        /\ listenerConfigs \in [Transports -> [Ids -> Configs \cup {None}]]
    BY <1>2, AtWork
  <2>2. thread[k].op = "release"
    BY <1>2 DEF LocksInv, Shape
  <2>3. Goes(k, "free", id, <<>>)
    BY <1>4, <2>1 DEF Goes, LocksInv, DataTypes, ThreadStates
  <2>4. /\ "free" \in Inside /\ "free" \notin HalfWay /\ "free" \notin GetSteps
        /\ UNCHANGED mapLock
    BY <1>1 DEF Inside, GetSteps, ReleaseSteps, HalfWay, locks
  <2>5. /\ Continues(k, thread'[k]) /\ thread'[k].pc = "free" /\ thread'[k].id = id
        /\ thread'[k].t = thread[k].t /\ thread'[k].c = thread[k].c
    BY <1>2, <2>2, <2>3, <2>4, NextRecord
  <2>6. \A u \in Transports : listenerConfigs[u][id] # None => u = thread[k].t
    BY <1>4, <2>1, NoneAssumption DEF Agree
  <2>7. UNCHANGED <<freeIds, idToTransport, listenerConfigs, phase, pending>>
    BY <1>1 DEF vars, registry, lifecycle
  <2>8. Doing(k)'
    BY <1>4, <2>5, <2>6, <2>7 DEF Doing, HalfWay
  <2>9. \A i \in Ids : Agree(i)'
    BY <2>1, <2>7 DEF Agree
  <2>10. LocksInv'
    BY <1>2, <2>1, <2>5, <2>7, <2>8, <2>9, WorkKeeps
  <2>11. Idles(k)
    BY <1>1, <1>2, <2>3, <2>4, <2>5 DEF Goes, Idles, LocksInv, DataTypes
  <2>12. QED
    BY <2>10, <2>11, IdlingIsUnseen
<1>5. QED
  BY <1>3, <1>4 DEF get_message_handler_id_for_listener_config

\* What is known once the id has been found.
LEMMA ReleaseFacts ==
  ASSUME LocksInv, NEW k \in Threads,
         thread[k].pc \in {"free", "removeTransport", "removeConfig"}
  PROVE  /\ thread[k].pc \in Inside /\ thread[k] \in ThreadStates /\ thread[k].guards = <<>>
         /\ Only(k) /\ thread[k].t \in Transports /\ thread[k].c \in Configs
         /\ \A i \in Ids : Agree(i) \/ i = thread[k].id
         /\ thread[k].op = "release" /\ thread[k].id \in Ids
         /\ thread[k].pc = "free" <=> thread[k].id \notin freeIds
         /\ idToTransport[thread[k].id] = IF thread[k].pc = "removeConfig" THEN None ELSE thread[k].t
         /\ listenerConfigs[thread[k].t][thread[k].id] = thread[k].c
         /\ \A u \in Transports : listenerConfigs[u][thread[k].id] # None => u = thread[k].t
         /\ freeIds \in SUBSET Ids /\ idToTransport \in [Ids -> Transports \cup {None}]
         /\ listenerConfigs \in [Transports -> [Ids -> Configs \cup {None}]]
         /\ Taken = {} /\ Given = {}
         /\ Freed = IF thread[k].pc = "free" THEN {} ELSE {thread[k].id}
         /\ Withdrawn = IF thread[k].pc = "removeConfig" THEN {thread[k].id} ELSE {}
         /\ HolderOf(thread[k].id) = thread[k].t
<1>1. thread[k].pc \in Inside /\ thread[k].pc \in ReleaseSteps /\ thread[k].pc \notin GetSteps
  BY DEF Inside, GetSteps, ReleaseSteps
<1>2. /\ thread[k] \in ThreadStates /\ thread[k].guards = <<>> /\ Only(k)
      /\ thread[k].t \in Transports /\ thread[k].c \in Configs
      /\ \A i \in Ids : Agree(i) \/ (thread[k].pc \in HalfWay /\ i = thread[k].id)
      /\ freeIds \in SUBSET Ids /\ idToTransport \in [Ids -> Transports \cup {None}]
      /\ listenerConfigs \in [Transports -> [Ids -> Configs \cup {None}]]
  BY <1>1, AtWork
<1>3. thread[k].op = "release" /\ Doing(k)
  BY <1>1 DEF LocksInv, Shape
<1>4. /\ thread[k].id \in Ids
      /\ listenerConfigs[thread[k].t][thread[k].id] = thread[k].c
      /\ \A u \in Transports : listenerConfigs[u][thread[k].id] # None => u = thread[k].t
  BY <1>3 DEF Doing, HalfWay
<1>5. thread[k].c # None
  BY <1>2, NoneAssumption
<1>6. /\ thread[k].pc = "free" <=> thread[k].id \notin freeIds
      /\ idToTransport[thread[k].id] = IF thread[k].pc = "removeConfig" THEN None ELSE thread[k].t
  <2>1. CASE thread[k].pc = "free"
    <3>1. Agree(thread[k].id)
      BY <1>2, <1>4, <2>1 DEF HalfWay
    <3>2. QED
      BY <1>2, <1>4, <1>5, <2>1, <3>1, NoneAssumption DEF Agree
  <2>2. CASE thread[k].pc # "free"
    BY <1>3, <2>2 DEF Doing
  <2>3. QED
    BY <2>1, <2>2
<1>7. /\ Taken = {} /\ Given = {}
      /\ Freed = IF thread[k].pc = "free" THEN {} ELSE {thread[k].id}
      /\ Withdrawn = IF thread[k].pc = "removeConfig" THEN {thread[k].id} ELSE {}
  BY <1>1, <1>2, SeenNow
<1>8. HolderOf(thread[k].id) = thread[k].t
  BY <1>2, <1>4, <1>5 DEF HolderOf
<1>9. QED
  BY <1>1, <1>2, <1>3, <1>4, <1>6, <1>7, <1>8

\* The id is put into the pool; the pool's lock keeps it from everybody.
LEMMA FreeKeeps ==
  ASSUME LocksInv, NEW k \in Threads, free_message_handler_id(k)
  PROVE  LocksInv' /\ UNCHANGED Abstract!vars
<1>1. /\ thread[k].pc = "free" /\ UNCHANGED <<idToTransport, listenerConfigs>>
      /\ UNCHANGED lifecycle /\ UNCHANGED <<handedOut, cb, owner>> /\ UNCHANGED mapLock
      /\ freeIds' = freeIds \cup {thread[k].id} /\ Goto(k, "removeTransport")
  BY DEF free_message_handler_id, locks
<1>2. /\ thread[k].pc \in Inside /\ thread[k] \in ThreadStates /\ thread[k].guards = <<>>
      /\ thread[k].t \in Transports /\ thread[k].c \in Configs
      /\ \A i \in Ids : Agree(i) \/ i = thread[k].id
      /\ thread[k].op = "release" /\ thread[k].id \in Ids /\ thread[k].id \notin freeIds
      /\ idToTransport[thread[k].id] = thread[k].t
      /\ listenerConfigs[thread[k].t][thread[k].id] = thread[k].c
      /\ \A u \in Transports : listenerConfigs[u][thread[k].id] # None => u = thread[k].t
      /\ freeIds \in SUBSET Ids /\ idToTransport \in [Ids -> Transports \cup {None}]
      /\ listenerConfigs \in [Transports -> [Ids -> Configs \cup {None}]]
      /\ Taken = {} /\ Given = {} /\ Freed = {} /\ Withdrawn = {}
  BY <1>1, ReleaseFacts
<1>3. PICK id \in Ids : id = thread[k].id
  BY <1>2
<1>4. Goes(k, "removeTransport", id, <<>>)
  BY <1>1, <1>2, <1>3, GotoGoes DEF LocksInv, DataTypes
<1>5. /\ "removeTransport" \in Inside /\ "removeTransport" \in HalfWay
      /\ "removeTransport" \notin GetSteps
  BY DEF Inside, GetSteps, HalfWay, ReleaseSteps
<1>6. /\ Continues(k, thread'[k]) /\ thread'[k].pc = "removeTransport" /\ thread'[k].id = id
      /\ thread'[k].t = thread[k].t /\ thread'[k].c = thread[k].c
  BY <1>1, <1>2, <1>4, <1>5, NextRecord
<1>7. Doing(k)'
  BY <1>1, <1>2, <1>3, <1>6 DEF Doing, HalfWay
<1>8. \A i \in Ids : i # id => Agree(i)'
  BY <1>1, <1>2, <1>3 DEF Agree
<1>9. UNCHANGED <<phase, pending>>
  BY <1>1 DEF lifecycle
<1>10. LocksInv' /\ Only(k)'
  BY <1>1, <1>2, <1>5, <1>6, <1>7, <1>8, <1>9, WorkKeeps
<1>11. Taken' = {} /\ Given' = {} /\ Freed' = {id} /\ Withdrawn' = {}
  BY <1>6, <1>10, SeenNext DEF GetSteps
<1>12. UNCHANGED <<PoolSeen, MapSeen>>
  BY <1>1, <1>2, <1>3, <1>11 DEF PoolSeen, MapSeen
<1>13. QED
  BY <1>1, <1>9, <1>10, <1>12, UnseenIsStutter DEF Unseen

\* The id is taken out of the transport map; the map's lock keeps callbacks away.
LEMMA RemoveTransportKeeps ==
  ASSUME LocksInv, NEW k \in Threads, remove_message_handler_id_transport(k)
  PROVE  LocksInv' /\ UNCHANGED Abstract!vars
<1>1. /\ thread[k].pc = "removeTransport" /\ UNCHANGED <<freeIds, listenerConfigs>>
      /\ UNCHANGED lifecycle /\ UNCHANGED <<handedOut, cb, owner>> /\ UNCHANGED mapLock
      /\ idToTransport' = [idToTransport EXCEPT ![thread[k].id] = None]
      /\ Goto(k, "removeConfig")
  BY DEF remove_message_handler_id_transport, locks
<1>2. /\ thread[k].pc \in Inside /\ thread[k] \in ThreadStates /\ thread[k].guards = <<>>
      /\ thread[k].t \in Transports /\ thread[k].c \in Configs
      /\ \A i \in Ids : Agree(i) \/ i = thread[k].id
      /\ thread[k].op = "release" /\ thread[k].id \in Ids /\ thread[k].id \in freeIds
      /\ idToTransport[thread[k].id] = thread[k].t
      /\ listenerConfigs[thread[k].t][thread[k].id] = thread[k].c
      /\ \A u \in Transports : listenerConfigs[u][thread[k].id] # None => u = thread[k].t
      /\ freeIds \in SUBSET Ids /\ idToTransport \in [Ids -> Transports \cup {None}]
      /\ listenerConfigs \in [Transports -> [Ids -> Configs \cup {None}]]
      /\ Taken = {} /\ Given = {} /\ Freed = {thread[k].id} /\ Withdrawn = {}
      /\ HolderOf(thread[k].id) = thread[k].t
  BY <1>1, ReleaseFacts
<1>3. PICK id \in Ids : id = thread[k].id
  BY <1>2
<1>4. Goes(k, "removeConfig", id, <<>>)
  BY <1>1, <1>2, <1>3, GotoGoes DEF LocksInv, DataTypes
<1>5. /\ "removeConfig" \in Inside /\ "removeConfig" \in HalfWay
      /\ "removeConfig" \notin GetSteps
  BY DEF Inside, GetSteps, HalfWay, ReleaseSteps
<1>6. /\ Continues(k, thread'[k]) /\ thread'[k].pc = "removeConfig" /\ thread'[k].id = id
      /\ thread'[k].t = thread[k].t /\ thread'[k].c = thread[k].c
  BY <1>1, <1>2, <1>4, <1>5, NextRecord
<1>7. idToTransport' \in [Ids -> Transports \cup {None}] /\ idToTransport'[id] = None
      /\ \A i \in Ids : i # id => idToTransport'[i] = idToTransport[i]
  BY <1>1, <1>2, <1>3
<1>8. Doing(k)'
  BY <1>1, <1>2, <1>3, <1>6, <1>7 DEF Doing, HalfWay
<1>9. \A i \in Ids : i # id => Agree(i)'
  BY <1>1, <1>2, <1>3, <1>7 DEF Agree
<1>10. UNCHANGED <<phase, pending>>
  BY <1>1 DEF lifecycle
<1>11. LocksInv' /\ Only(k)'
  BY <1>1, <1>2, <1>5, <1>6, <1>7, <1>8, <1>9, <1>10, WorkKeeps
<1>12. Taken' = {} /\ Given' = {} /\ Freed' = {id} /\ Withdrawn' = {id}
  BY <1>6, <1>11, SeenNext DEF GetSteps
<1>13. \A i \in Ids : HolderOf(i)' = HolderOf(i)
  BY <1>1 DEF HolderOf
<1>14. UNCHANGED <<PoolSeen, MapSeen>>
  BY <1>1, <1>2, <1>3, <1>7, <1>12, <1>13 DEF PoolSeen, MapSeen
<1>15. QED
  BY <1>1, <1>10, <1>11, <1>14, UnseenIsStutter DEF Unseen

\* The configuration is removed: this is the moment of the release.
LEMMA RemoveConfigKeeps ==
  ASSUME LocksInv, NEW k \in Threads, remove_message_handler_id_and_listener_config(k)
  PROVE  LocksInv' /\ [Abstract!Next]_(Abstract!vars)
<1>1. /\ thread[k].pc = "removeConfig" /\ UNCHANGED <<freeIds, idToTransport>>
      /\ UNCHANGED phase /\ UNCHANGED <<handedOut, cb>> /\ UNCHANGED mapLock
      /\ listenerConfigs' = [listenerConfigs EXCEPT ![thread[k].t][thread[k].id] = None]
      /\ pending' = [pending EXCEPT ![thread[k].t] = @ \ {thread[k].c}]
      /\ Disown(thread[k].id) /\ Unlocking(k, <<"configs", "pool", "map">>)
  BY DEF remove_message_handler_id_and_listener_config, locks
<1>2. /\ thread[k].pc \in Inside /\ thread[k] \in ThreadStates
      /\ thread[k].t \in Transports /\ thread[k].c \in Configs
      /\ \A i \in Ids : Agree(i) \/ i = thread[k].id
      /\ thread[k].op = "release" /\ thread[k].id \in Ids /\ thread[k].id \in freeIds
      /\ idToTransport[thread[k].id] = None
      /\ listenerConfigs[thread[k].t][thread[k].id] = thread[k].c
      /\ \A u \in Transports : listenerConfigs[u][thread[k].id] # None => u = thread[k].t
      /\ freeIds \in SUBSET Ids /\ idToTransport \in [Ids -> Transports \cup {None}]
      /\ listenerConfigs \in [Transports -> [Ids -> Configs \cup {None}]]
      /\ Taken = {} /\ Given = {} /\ Freed = {thread[k].id} /\ Withdrawn = {thread[k].id}
      /\ HolderOf(thread[k].id) = thread[k].t
  BY <1>1, ReleaseFacts
<1>3. PICK id \in Ids, t \in Transports, c \in Configs :
         id = thread[k].id /\ t = thread[k].t /\ c = thread[k].c
  BY <1>2
<1>4. Goes(k, "unlock", id, <<"configs", "pool", "map">>)
  BY <1>1, <1>2, <1>3 DEF Goes, Unlocking, LocksInv, DataTypes, ThreadStates
<1>5. /\ "unlock" \notin Inside \cup HalfWay /\ "unlock" \notin GetSteps
      /\ "unlock" \notin ReleaseSteps /\ <<"configs", "pool", "map">> \in Drops
  BY DEF Inside, GetSteps, HalfWay, ReleaseSteps, Drops
<1>6. Continues(k, thread'[k]) /\ thread'[k].pc = "unlock"
  BY <1>1, <1>2, <1>4, <1>5, NextRecord
<1>7. Doing(k)'
  BY <1>6 DEF Doing, HalfWay
<1>8. /\ listenerConfigs' \in [Transports -> [Ids -> Configs \cup {None}]]
      /\ listenerConfigs'[t][id] = None
      /\ \A u \in Transports, i \in Ids :
            u # t \/ i # id => listenerConfigs'[u][i] = listenerConfigs[u][i]
      /\ \A u \in Transports : u # t => listenerConfigs'[u] = listenerConfigs[u]
  BY <1>1, <1>2, <1>3
<1>9. \A i \in Ids : Agree(i)'
  <2> SUFFICES ASSUME NEW i \in Ids PROVE Agree(i)'
    OBVIOUS
  <2>1. CASE i = id
    BY <1>1, <1>2, <1>3, <1>8, <2>1, NoneAssumption DEF Agree
  <2>2. CASE i # id
    BY <1>1, <1>2, <1>3, <1>8, <2>2 DEF Agree
  <2>3. QED
    BY <2>1, <2>2
<1>10. LocksInv' /\ Only(k)'
  BY <1>1, <1>2, <1>3, <1>5, <1>6, <1>7, <1>8, <1>9, WorkKeeps
<1>11. Taken' = {} /\ Given' = {} /\ Freed' = {} /\ Withdrawn' = {}
  BY <1>6, <1>10, SeenNext DEF GetSteps
<1>12. PoolSeen' = PoolSeen \cup {id}
  BY <1>1, <1>2, <1>3, <1>11 DEF PoolSeen
<1>13. MapSeen' = [MapSeen EXCEPT ![id] = None]
  BY <1>1, <1>2, <1>3, <1>11 DEF MapSeen
<1>14. Abstract!release_message_handler(t, c, id) /\ Abstract!Disown(id)
  BY <1>1, <1>2, <1>3, <1>12, <1>13
  DEF Abstract!release_message_handler, Abstract!Disown, Disown
<1>15. phase[t] = "live" \/ (phase[t] = "dropping" /\ c \in pending[t])
  BY <1>1, <1>2, <1>3 DEF LocksInv, Uses, ReleaseSteps
<1>16. CASE phase[t] = "live"
  <2>1. UNCHANGED pending
    BY <1>1, <1>3, <1>16 DEF LocksInv, NothingPending, DataTypes
  <2>2. Abstract!Unregister(t, c)
    BY <1>1, <1>14, <1>16, <2>1 DEF Abstract!Unregister, Abstract!lifecycle
  <2>3. QED
    BY <1>10, <2>2 DEF Abstract!Next, Abstract!TransportNext
<1>17. CASE phase[t] = "dropping" /\ c \in pending[t]
  <2>1. Abstract!DropRelease(t, c)
    BY <1>1, <1>3, <1>14, <1>17 DEF Abstract!DropRelease
  <2>2. QED
    BY <1>10, <2>1 DEF Abstract!Next, Abstract!TransportNext
<1>18. QED
  BY <1>15, <1>16, <1>17

\* Everything has been listed: what Drop found is what the transport holds.
LEMMA ListedKeeps ==
  ASSUME LocksInv, NEW k \in Threads, Listed(k)
  PROVE  LocksInv' /\ [Abstract!Next]_(Abstract!vars)
<1>1. /\ thread[k].pc = "configs" /\ thread[k].ids = {}
      /\ phase' = [phase EXCEPT ![thread[k].t] = "dropping"]
      /\ pending' = [pending EXCEPT ![thread[k].t] = thread[k].found]
      /\ thread' = [thread EXCEPT ![k] = AtRest]
      /\ UNCHANGED registry /\ UNCHANGED <<handedOut, cb, owner>> /\ UNCHANGED mapLock
  BY DEF Listed, locks
<1>2. Shape(k) /\ Uses(k) /\ Lists(k) /\ thread[k] \in ThreadStates /\ DataTypes
  BY DEF LocksInv, Shape
<1>3. PICK t \in Transports : t = thread[k].t
  BY <1>1, <1>2 DEF Shape
<1>4. phase[t] = "live" /\ Alone(k)
  BY <1>1, <1>2, <1>3 DEF Shape, Uses, ListSteps
<1>5. thread[k].found = ConfigsOf(t)
  BY <1>1, <1>2, <1>3 DEF Lists, ListSteps, ConfigsOf
<1>6. thread[k].found \in SUBSET Configs
  BY <1>2 DEF ThreadStates
<1>7. AtRest \in ThreadStates /\ AtRest.pc = "idle" /\ AtRest.t = None
  BY DEF AtRest, ThreadStates
<1>8. /\ thread'[k] = AtRest /\ \A j \in Threads : j # k => thread'[j] = thread[j]
      /\ thread' \in [Threads -> ThreadStates]
  BY <1>1, <1>2, <1>7 DEF DataTypes
<1>9. UNCHANGED <<freeIds, idToTransport, listenerConfigs>>
  BY <1>1 DEF registry
<1>10. DataTypes'
  BY <1>1, <1>2, <1>6, <1>8, <1>9 DEF DataTypes
<1>11. /\ phase'[t] = "dropping"
       /\ \A u \in Transports : u # t => phase'[u] = phase[u] /\ pending'[u] = pending[u]
  BY <1>1, <1>2, <1>3 DEF DataTypes
<1>12. NothingPending'
  BY <1>11 DEF LocksInv, NothingPending
<1>13. Moves(k)
  BY <1>1, <1>3, <1>4, <1>7, <1>8, <1>9, <1>11 DEF Moves
<1>14. \A j \in Threads : (thread[j].pc \in HalfWay \/ thread'[j].pc \in HalfWay) => j # k
  BY <1>1, <1>7, <1>8 DEF HalfWay
<1>15. Agreement'
  <2> SUFFICES ASSUME NEW id \in Ids
               PROVE  \/ Agree(id)'
                      \/ \E j \in Threads : thread'[j].pc \in HalfWay /\ thread'[j].id = id
    BY DEF Agreement
  <2>1. CASE Agree(id)
    BY <1>9, <2>1 DEF Agree
  <2>2. ASSUME NEW j \in Threads, thread[j].pc \in HalfWay, thread[j].id = id
        PROVE  thread'[j].pc \in HalfWay /\ thread'[j].id = id
    BY <1>8, <1>14, <2>2
  <2>3. QED
    BY <2>1, <2>2 DEF LocksInv, Agreement
<1>16. Shape(k)' /\ Doing(k)' /\ Uses(k)' /\ Lists(k)' /\ ~HasMap(k)'
  BY <1>7, <1>8
  DEF Shape, Doing, Uses, Lists, HasMap, ListSteps, GetSteps, ReleaseSteps, Inside, HalfWay
<1>17. LocksInv'
  BY <1>10, <1>12, <1>13, <1>15, <1>16, OwnPartSuffices DEF OwnPart
<1>18. UNCHANGED <<PoolSeen, MapSeen>>
  BY <1>1, <1>8, <1>14, SameSeen
<1>19. Abstract!DropBegin(t)
  BY <1>1, <1>3, <1>4, <1>5, <1>9, <1>18
  DEF Abstract!DropBegin, Abstract!ConfigsOf, Abstract!registry, ConfigsOf
<1>20. QED
  BY <1>17, <1>19 DEF Abstract!Next, Abstract!TransportNext

-----------------------------------------------------------------------------
(* Steps of no thread.                                                     *)

\* The life of one transport goes on, and every thread that uses it may.
Lives(t) ==
    /\ UNCHANGED registry /\ UNCHANGED <<pending, handedOut, cb, owner>>
    /\ UNCHANGED locks /\ UNCHANGED thread
    /\ \/ phase[t] = "absent" /\ phase' = [phase EXCEPT ![t] = "live"]
       \/ phase[t] = "dropping" /\ pending[t] = {} /\ Unused(t)
             /\ phase' = [phase EXCEPT ![t] = "gone"]

\* A transport is created or its Drop returns.
LEMMA LifeKeeps ==
  ASSUME LocksInv, NEW t \in Transports, Lives(t)
  PROVE  LocksInv' /\ UNCHANGED <<PoolSeen, MapSeen>>
<1>1. UNCHANGED <<freeIds, idToTransport, listenerConfigs, pending, mapLock, thread>>
  BY DEF Lives, registry, locks
<1>2. /\ phase' \in [Transports -> {"absent", "live", "dropping", "gone"}]
      /\ \A u \in Transports : u # t => phase'[u] = phase[u]
      /\ phase'[t] = "live" \/ (phase'[t] = "gone" /\ Unused(t))
      /\ pending[t] = {}
  BY DEF Lives, LocksInv, DataTypes, NothingPending
<1>3. DataTypes' /\ NothingPending'
  BY <1>1, <1>2 DEF LocksInv, DataTypes, NothingPending
<1>4. MapLocked' /\ Agreement'
  BY <1>1 DEF LocksInv, MapLocked, HasMap, Agreement, Agree
<1>5. ASSUME NEW k \in Threads
      PROVE  Shape(k)' /\ Doing(k)' /\ Uses(k)' /\ Lists(k)'
  <2>1. Shape(k) /\ Doing(k) /\ Uses(k) /\ Lists(k)
    BY DEF LocksInv
  <2>2. Shape(k)' /\ Doing(k)' /\ Lists(k)'
    BY <1>1, <2>1 DEF Shape, Doing, Lists, ConfigsOf
  <2>3. Alone(k)' <=> Alone(k)
    BY <1>1 DEF Alone
  <2>4. CASE thread[k].pc = "idle"
    BY <1>1, <2>2, <2>4 DEF Uses, ReleaseSteps
  <2>5. CASE thread[k].pc # "idle" /\ thread[k].t # t
    <3>1. thread[k].t \in Transports
      BY <2>1, <2>5 DEF Shape
    <3>2. phase'[thread[k].t] = phase[thread[k].t]
      BY <1>2, <2>5, <3>1
    <3>3. QED
      BY <1>1, <2>1, <2>2, <2>3, <3>2 DEF Uses
  <2>6. CASE thread[k].pc # "idle" /\ thread[k].t = t
    <3>1. phase'[t] = "live"
      BY <1>2, <2>6 DEF Unused
    <3>2. QED
      BY <1>1, <2>1, <2>2, <2>3, <2>6, <3>1 DEF Uses
  <2>7. QED
    BY <2>4, <2>5, <2>6
<1>6. LocksInv'
  BY <1>3, <1>4, <1>5 DEF LocksInv
<1>7. UNCHANGED <<PoolSeen, MapSeen>>
  BY <1>1, SameSeen DEF Lives
<1>8. QED
  BY <1>6, <1>7

\* New.
LEMMA NewKeeps ==
  ASSUME LocksInv, NEW t \in Transports, NewTransport(t)
  PROVE  LocksInv' /\ [Abstract!Next]_(Abstract!vars)
<1>1. Lives(t)
  BY DEF Lives, NewTransport, New
<1>2. LocksInv' /\ UNCHANGED <<PoolSeen, MapSeen>>
  BY <1>1, LifeKeeps
<1>3. UNCHANGED listenerConfigs
  BY <1>1 DEF Lives, registry
<1>4. Abstract!New(t)
  BY <1>2, <1>3 DEF NewTransport, New, Abstract!New, Abstract!registry
<1>5. QED
  BY <1>2, <1>4 DEF Abstract!Next, Abstract!TransportNext

\* Drop returns.
LEMMA EndDropKeeps ==
  ASSUME LocksInv, NEW t \in Transports, EndDrop(t)
  PROVE  LocksInv' /\ [Abstract!Next]_(Abstract!vars)
<1>1. Lives(t)
  BY DEF Lives, EndDrop, DropEnd
<1>2. LocksInv' /\ UNCHANGED <<PoolSeen, MapSeen>>
  BY <1>1, LifeKeeps
<1>3. UNCHANGED listenerConfigs
  BY <1>1 DEF Lives, registry
<1>4. Abstract!DropEnd(t)
  BY <1>2, <1>3 DEF EndDrop, DropEnd, Abstract!DropEnd, Abstract!registry
<1>5. QED
  BY <1>2, <1>4 DEF Abstract!Next, Abstract!TransportNext

\* A step of a callback, or none at all.
CallbackOnly ==
    UNCHANGED registry /\ UNCHANGED lifecycle /\ UNCHANGED locks /\ UNCHANGED thread

\* Callbacks only read.
LEMMA CallbacksKeep ==
  ASSUME LocksInv, CallbackOnly
  PROVE  /\ LocksInv' /\ UNCHANGED Abstract!registry /\ UNCHANGED Abstract!lifecycle
<1>1. UNCHANGED <<freeIds, idToTransport, listenerConfigs, phase, pending, mapLock, thread>>
  BY DEF CallbackOnly, registry, locks, lifecycle
<1>2. DataTypes' /\ NothingPending' /\ MapLocked' /\ Agreement'
  BY <1>1 DEF LocksInv, DataTypes, NothingPending, MapLocked, HasMap, Agreement, Agree
<1>3. \A k \in Threads : Shape(k)' /\ Doing(k)' /\ Uses(k)' /\ Lists(k)'
  BY <1>1 DEF LocksInv, Shape, Doing, Uses, Alone, Lists, ConfigsOf
<1>4. LocksInv'
  BY <1>2, <1>3 DEF LocksInv
<1>5. UNCHANGED <<PoolSeen, MapSeen>>
  BY <1>1, SameSeen DEF CallbackOnly
<1>6. QED
  BY <1>1, <1>4, <1>5 DEF Abstract!registry, Abstract!lifecycle

\* While the transport map is not locked there is nothing half done in it.
LEMMA NothingHalfDone ==
  ASSUME LocksInv, mapLock = None
  PROVE  PoolSeen = freeIds /\ MapSeen = idToTransport
<1>1. \A k \in Threads : thread[k].pc \notin Inside
  <2> SUFFICES ASSUME NEW k \in Threads, thread[k].pc \in Inside PROVE FALSE
    OBVIOUS
  <2>1. mapLock = k
    BY DEF LocksInv, MapLocked, HasMap
  <2>2. QED
    BY <2>1, ThreadsAssumption
<1>2. ASSUME NEW pcs, pcs \subseteq Inside PROVE IdsAt(pcs) = {}
  BY <1>1, <1>2 DEF IdsAt
<1>3. Taken = {} /\ Given = {} /\ Freed = {} /\ Withdrawn = {}
  BY <1>2 DEF Taken, Given, Freed, Withdrawn, Inside, GetSteps, ReleaseSteps
<1>4. idToTransport \in [Ids -> Transports \cup {None}]
  BY DEF LocksInv, DataTypes
<1>5. QED
  BY <1>3, <1>4 DEF PoolSeen, MapSeen

\* call_shared_extern_fn looks the transport up under the map's lock.
LEMMA LookupTransportKeeps ==
  ASSUME LocksInv, NEW k \in Callbacks, NEW id \in Ids, get_message_handler_id_transport(k, id)
  PROVE  LocksInv' /\ [Abstract!Next]_(Abstract!vars)
<1>1. mapLock = None /\ CallbackLookup(k, id) /\ CallbackOnly
  BY DEF get_message_handler_id_transport, CallbackLookup, CallbackOnly
<1>2. LocksInv' /\ UNCHANGED Abstract!registry /\ UNCHANGED Abstract!lifecycle
  BY <1>1, CallbacksKeep
<1>3. MapSeen[id] = idToTransport[id]
  BY <1>1, NothingHalfDone
<1>4. Abstract!CallbackLookup(k, id)
  BY <1>1, <1>2, <1>3
  DEF CallbackLookup, Abstract!CallbackLookup, Upgradable, Abstract!Upgradable
<1>5. QED
  BY <1>2, <1>4 DEF Abstract!Next, Abstract!CallbackNext

\* The other steps of a callback do not read what the mapping changes.
LEMMA OtherCallbacksKeep ==
  ASSUME LocksInv, NEW k \in Callbacks,
         get_listener_for_message_handler_id(k) \/ ConvertOrDeliver(k)
  PROVE  LocksInv' /\ [Abstract!Next]_(Abstract!vars)
<1>1. CallbackOnly
  BY DEF get_listener_for_message_handler_id, ConvertOrDeliver, CallbackFetch,
         CallbackConvert, CallbackDeliver, CallbackOnly
<1>2. LocksInv' /\ UNCHANGED Abstract!registry /\ UNCHANGED Abstract!lifecycle
  BY <1>1, CallbacksKeep
<1>3. CASE CallbackFetch(k)
  <2>1. Abstract!CallbackFetch(k)
    BY <1>2, <1>3 DEF CallbackFetch, Abstract!CallbackFetch, Idle, Abstract!Idle
  <2>2. QED
    BY <1>2, <2>1 DEF Abstract!Next, Abstract!CallbackNext
<1>4. CASE CallbackConvert(k)
  <2>1. Abstract!CallbackConvert(k)
    BY <1>2, <1>4 DEF CallbackConvert, Abstract!CallbackConvert, Idle, Abstract!Idle
  <2>2. QED
    BY <1>2, <2>1 DEF Abstract!Next, Abstract!CallbackNext
<1>5. CASE CallbackDeliver(k)
  <2>1. Abstract!CallbackDeliver(k)
    BY <1>2, <1>5 DEF CallbackDeliver, Abstract!CallbackDeliver, Idle, Abstract!Idle
  <2>2. QED
    BY <1>2, <2>1 DEF Abstract!Next, Abstract!CallbackNext
<1>6. QED
  BY <1>3, <1>4, <1>5 DEF get_listener_for_message_handler_id, ConvertOrDeliver

-----------------------------------------------------------------------------
(* The refinement.                                                         *)

\* Initially nobody is at work and the registry is empty.
LEMMA LocksBegin ==
  ASSUME LocksInit
  PROVE  LocksInv /\ Abstract!Init
<1>1. /\ freeIds = Ids /\ idToTransport = [id \in Ids |-> None]
      /\ listenerConfigs = [t \in Transports |-> [id \in Ids |-> None]]
      /\ phase = [t \in Transports |-> "absent"]
      /\ pending = [t \in Transports |-> {}]
      /\ mapLock = None /\ thread = [k \in Threads |-> AtRest]
  BY DEF LocksInit, Init
<1>2. AtRest \in ThreadStates /\ AtRest.pc = "idle" /\ AtRest.t = None
  BY DEF AtRest, ThreadStates
<1>3. \A k \in Threads : thread[k] = AtRest
  BY <1>1
<1>4. DataTypes /\ NothingPending
  BY <1>1, <1>2 DEF DataTypes, NothingPending
<1>5. Agreement
  BY <1>1, NoneAssumption DEF Agreement, Agree
<1>6. ASSUME NEW k \in Threads
      PROVE  Shape(k) /\ Doing(k) /\ Uses(k) /\ Lists(k) /\ ~HasMap(k)
  BY <1>2, <1>3
  DEF Shape, Doing, Uses, Lists, HasMap, ListSteps, GetSteps, ReleaseSteps, Inside, HalfWay
<1>7. LocksInv
  BY <1>4, <1>5, <1>6 DEF LocksInv, MapLocked
<1>8. PoolSeen = Ids /\ MapSeen = [id \in Ids |-> None]
  BY <1>1, <1>7, NothingHalfDone
<1>9. Abstract!Init
  BY <1>8 DEF LocksInit, Init, Abstract!Init, Idle, Abstract!Idle
<1>10. QED
  BY <1>7, <1>9

\* Every step of a thread is a step of the registry or none.
LEMMA ThreadsKeep ==
  ASSUME LocksInv, NEW k \in Threads, Acquire(k) \/ Work(k)
  PROVE  LocksInv' /\ [Abstract!Next]_(Abstract!vars)
<1>1. CASE Acquire(k)
  BY <1>1, LockKeeps, ListingKeeps DEF Acquire
<1>2. CASE find_available_message_handler_id(k)
  BY <1>2, FindKeeps
<1>3. CASE insert_message_handler_id_transport(k)
  BY <1>3, InsertTransportKeeps
<1>4. CASE insert_message_handler_id_and_listener_config(k)
  BY <1>4, InsertConfigKeeps
<1>5. CASE RollbackPool(k) \/ RollbackTransport(k)
  BY <1>5, RollbackPoolKeeps, RollbackTransportKeeps
<1>6. CASE get_message_handler_id_for_listener_config(k)
  BY <1>6, LookupKeeps
<1>7. CASE free_message_handler_id(k) \/ remove_message_handler_id_transport(k)
  BY <1>7, FreeKeeps, RemoveTransportKeeps
<1>8. CASE remove_message_handler_id_and_listener_config(k)
  BY <1>8, RemoveConfigKeeps
<1>9. CASE Listed(k)
  BY <1>9, ListedKeeps
<1>10. CASE Unlock(k)
  BY <1>10, UnlockKeeps
<1>11. QED
  BY <1>1, <1>2, <1>3, <1>4, <1>5, <1>6, <1>7, <1>8, <1>9, <1>10 DEF Work

\* So is every call.
LEMMA CallsKeep ==
  ASSUME LocksInv, NEW k \in Threads, NEW t \in Transports,
         StartDrop(k, t) \/ \E c \in Configs : StartGet(k, t, c) \/ StartRelease(k, t, c)
  PROVE  LocksInv' /\ UNCHANGED Abstract!vars
<1>1. CASE StartDrop(k, t)
  BY <1>1, StartKeeps DEF StartDrop
<1>2. ASSUME NEW c \in Configs, StartGet(k, t, c) PROVE LocksInv' /\ UNCHANGED Abstract!vars
  BY <1>2, StartKeeps DEF StartGet
<1>3. ASSUME NEW c \in Configs, StartRelease(k, t, c) PROVE LocksInv' /\ UNCHANGED Abstract!vars
  BY <1>3, StartKeeps DEF StartRelease
<1>4. QED
  BY <1>1, <1>2, <1>3

\* Every step of the lock-level specification is a step of the registry or none.
LEMMA LocksStep ==
  ASSUME LocksInv, [LocksNext]_lvars
  PROVE  LocksInv' /\ [Abstract!Next]_(Abstract!vars)
<1>1. CASE UNCHANGED lvars
  <2>1. CallbackOnly /\ UNCHANGED <<handedOut, cb, owner>>
    BY <1>1 DEF lvars, vars, CallbackOnly
  <2>2. QED
    BY <2>1, CallbacksKeep DEF Abstract!vars
<1>2. CASE \E t \in Transports : NewTransport(t) \/ EndDrop(t)
  BY <1>2, NewKeeps, EndDropKeeps
<1>3. ASSUME NEW k \in Threads,
             \/ \E t \in Transports :
                   StartDrop(k, t) \/ \E c \in Configs : StartGet(k, t, c) \/ StartRelease(k, t, c)
             \/ Acquire(k) \/ Work(k)
      PROVE  LocksInv' /\ [Abstract!Next]_(Abstract!vars)
  BY <1>3, CallsKeep, ThreadsKeep
<1>4. ASSUME NEW k \in Callbacks,
             \/ \E id \in Ids : get_message_handler_id_transport(k, id)
             \/ get_listener_for_message_handler_id(k) \/ ConvertOrDeliver(k)
      PROVE  LocksInv' /\ [Abstract!Next]_(Abstract!vars)
  BY <1>4, LookupTransportKeeps, OtherCallbacksKeep
<1>5. QED
  BY <1>1, <1>2, <1>3, <1>4 DEF LocksNext

\* The lock on the transport map serialises everything done to the registry: an
\* operation leaves the pool and the maps disagreeing about no id but its own, and
\* only while it has that lock.
THEOREM MapLockSerialises == LocksSpec => []LocksInv
<1>1. LocksInit => LocksInv
  BY LocksBegin
<1>2. LocksInv /\ [LocksNext]_lvars => LocksInv'
  BY LocksStep
<1>3. QED
  BY <1>1, <1>2, PTL DEF LocksSpec

\* get_message_handler, release_message_handler and the listing of Drop, lock by lock
\* next to each other and to callbacks, are the single steps of HandlerRegistry.
THEOREM LocksMakeAtomic == LocksSpec => RegistryAtomic
<1>1. LocksInit => Abstract!Init
  BY LocksBegin
<1>2. LocksInv /\ [LocksNext]_lvars => [Abstract!Next]_(Abstract!vars)
  BY LocksStep
<1>3. QED
  BY <1>1, <1>2, MapLockSerialises, PTL DEF LocksSpec, RegistryAtomic, Abstract!Spec

-----------------------------------------------------------------------------
(* What is proved of the registry's single steps holds lock by lock.       *)

Registry == INSTANCE HandlerRegistryProofs WITH freeIds <- PoolSeen, idToTransport <- MapSeen

\* The registry proved about is the registry refined.
LEMMA SameRegistry ==
  /\ Abstract!Init => Registry!Init
  /\ [Abstract!Next]_(Abstract!vars) => [Registry!Next]_(Registry!vars)
<1> USE DEF Abstract!registry, Registry!registry, Abstract!lifecycle, Registry!lifecycle,
            Abstract!Idle, Registry!Idle
<1>1. Abstract!Init => Registry!Init
  BY DEF Abstract!Init, Registry!Init
<1>2. UNCHANGED Abstract!vars => UNCHANGED Registry!vars
  BY DEF Abstract!vars, Registry!vars
<1>3. ASSUME NEW t \in Transports, Abstract!New(t) \/ Abstract!DropBegin(t) \/ Abstract!DropEnd(t)
      PROVE  Registry!New(t) \/ Registry!DropBegin(t) \/ Registry!DropEnd(t)
  BY <1>3 DEF Abstract!New, Registry!New, Abstract!DropBegin, Registry!DropBegin,
              Abstract!DropEnd, Registry!DropEnd, Abstract!ConfigsOf, Registry!ConfigsOf
<1>4. ASSUME NEW t \in Transports, NEW c \in Configs, Abstract!Register(t, c)
      PROVE  Registry!Register(t, c)
  BY <1>4 DEF Abstract!Register, Registry!Register, Abstract!get_message_handler,
              Registry!get_message_handler, Abstract!get_message_handler_exhausted,
              Registry!get_message_handler_exhausted, Abstract!GetOutcome, Registry!GetOutcome,
              Abstract!Rollback, Registry!Rollback, Abstract!ConfigsOf, Registry!ConfigsOf,
              Abstract!GetResults, Registry!GetResults, Abstract!GetErrors, Registry!GetErrors
<1>5. ASSUME NEW t \in Transports, NEW c \in Configs,
             Abstract!Unregister(t, c) \/ Abstract!DropRelease(t, c)
      PROVE  Registry!Unregister(t, c) \/ Registry!DropRelease(t, c)
  BY <1>5 DEF Abstract!Unregister, Registry!Unregister, Abstract!DropRelease,
              Registry!DropRelease, Abstract!release_message_handler,
              Registry!release_message_handler, Abstract!release_message_handler_not_found,
              Registry!release_message_handler_not_found, Abstract!Disown, Registry!Disown,
              Abstract!ConfigsOf, Registry!ConfigsOf
<1>6. ASSUME NEW k \in Callbacks, NEW id \in Ids, Abstract!CallbackLookup(k, id)
      PROVE  Registry!CallbackLookup(k, id)
  BY <1>6 DEF Abstract!CallbackLookup, Registry!CallbackLookup, Abstract!Upgradable,
              Registry!Upgradable
<1>7. ASSUME NEW k \in Callbacks, Abstract!CallbackConvert(k)
      PROVE  Registry!CallbackConvert(k)
  BY <1>7 DEF Abstract!CallbackConvert, Registry!CallbackConvert
<1>8. ASSUME NEW k \in Callbacks, Abstract!CallbackFetch(k)
      PROVE  Registry!CallbackFetch(k)
  BY <1>8 DEF Abstract!CallbackFetch, Registry!CallbackFetch
<1>9. ASSUME NEW k \in Callbacks, Abstract!CallbackDeliver(k)
      PROVE  Registry!CallbackDeliver(k)
  BY <1>9 DEF Abstract!CallbackDeliver, Registry!CallbackDeliver
<1>10. Abstract!TransportNext => Registry!TransportNext
  BY <1>3, <1>4, <1>5 DEF Abstract!TransportNext, Registry!TransportNext
<1>11. Abstract!CallbackNext => Registry!CallbackNext
  BY <1>6, <1>7, <1>8, <1>9 DEF Abstract!CallbackNext, Registry!CallbackNext
<1>12. QED
  BY <1>1, <1>2, <1>10, <1>11 DEF Abstract!Next, Registry!Next

\* With the locks taken one by one, no configuration ever holds two ids, what Drop has
\* still to unregister is what its transport still holds, and a callback between its two
\* reads finds the listener it began with unless that one was released.
THEOREM LockLevelSafety ==
    LocksSpec => [](OneHandlerPerConfig /\ DropSnapshotCurrent /\ InFlightKeepsListener)
<1>1. Abstract!Spec => Registry!Spec
  BY SameRegistry, PTL DEF Abstract!Spec, Registry!Spec
<1>2. Registry!Spec =>
        [](Registry!OneHandlerPerConfig /\ Registry!DropSnapshotCurrent
           /\ Registry!InFlightKeepsListener)
  BY Registry!RegistryAgreement, Registry!DropReturnsHandlers, Registry!InFlightSafe,
     NoneAssumption, PTL
<1>3. Registry!OneHandlerPerConfig => OneHandlerPerConfig
  BY DEF Registry!OneHandlerPerConfig, OneHandlerPerConfig
<1>4. Registry!DropSnapshotCurrent => DropSnapshotCurrent
  BY DEF Registry!DropSnapshotCurrent, DropSnapshotCurrent, Registry!ConfigsOf, ConfigsOf
<1>5. Registry!InFlightKeepsListener => InFlightKeepsListener
  BY DEF Registry!InFlightKeepsListener, InFlightKeepsListener
<1>6. QED
  BY <1>1, <1>2, <1>3, <1>4, <1>5, LocksMakeAtomic, PTL DEF RegistryAtomic

=============================================================================
