-------------------------- MODULE AppLifecycleProofs --------------------------
(***************************************************************************)
(* Proofs about AppLifecycle, for any number of state handlers, transports *)
(* and application names and any channel capacity.                         *)
(***************************************************************************)
EXTENDS AppLifecycle, TLAPS

\* What the accounting of ids needs to know of the types.
PoolTypes ==
    /\ freeStateIds \in SUBSET StateIds
    /\ pc \in [Transports -> {"absent", "find", "returned", "gone"} \cup Waiting]
    /\ stateId \in [Transports -> StateIds \cup {None}]
    /\ stateHandler \in [Transports -> StateIds \cup {None}]

\* create_app holds an id from the moment it took one from the pool.
HeldWhileWaiting ==
    \A t \in Transports :
        /\ pc[t] \in {"absent", "find"} => stateId[t] = None
        /\ pc[t] \in Waiting => stateId[t] # None

\* An id is either free or held by exactly one start.
FreeOrHeld ==
    /\ \A id \in StateIds \ freeStateIds : \E t \in Transports : stateId[t] = id
    /\ \A t \in Transports : stateId[t] \notin freeStateIds
    /\ \A t, u \in Transports : stateId[t] # None /\ stateId[t] = stateId[u] => t = u

\* An application has no handler but that of its own start, and none when the
\* id is about to go back.
HandlerIsHeld ==
    \A t \in Transports :
        /\ stateHandler[t] # None => stateHandler[t] = stateId[t]
        /\ pc[t] = "free" => stateHandler[t] = None

PoolInv == PoolTypes /\ HeldWhileWaiting /\ FreeOrHeld /\ HandlerIsHeld

-----------------------------------------------------------------------------

\* The inductive invariant holds when the process starts.
LEMMA PoolInvInit == Init => PoolInv
  BY LifecycleAssumption
  DEF Init, PoolInv, PoolTypes, HeldWhileWaiting, FreeOrHeld, HandlerIsHeld, Waiting

\* Every step of an engine, of the starting thread and of vsomeip keeps it.
LEMMA PoolInvStep == PoolInv /\ [Next]_vars => PoolInv'
<1> SUFFICES ASSUME PoolInv, [Next]_vars PROVE PoolInv'
  OBVIOUS
<1> USE LifecycleAssumption
    DEF PoolInv, PoolTypes, HeldWhileWaiting, FreeOrHeld, HandlerIsHeld, Waiting,
        Goto, Return, pool, vsomeip
<1>1. ASSUME NEW t \in Transports, CheckName(t) PROVE PoolInv'
  BY <1>1 DEF CheckName
<1>2. ASSUME NEW t \in Transports, find_available_state_handler_id(t) PROVE PoolInv'
  <2>1. CASE freeStateIds = {} /\ UNCHANGED <<freeStateIds, stateId>>
    BY <1>2, <2>1 DEF find_available_state_handler_id
  <2>2. ASSUME NEW id \in freeStateIds,
               freeStateIds' = freeStateIds \ {id},
               stateId' = [stateId EXCEPT ![t] = id],
               Goto(t, "find", "create"), UNCHANGED stateHandler
        PROVE  PoolInv'
    <3>1. PoolTypes' /\ HeldWhileWaiting' /\ HandlerIsHeld'
      BY <2>2
    <3>2. FreeOrHeld'
      <4>1. \A i \in StateIds \ freeStateIds' : \E u \in Transports : stateId'[u] = i
        BY <2>2
      <4>2. QED
        BY <2>2, <4>1
    <3>3. QED
      BY <3>1, <3>2
  <2>3. QED
    BY <1>2, <2>1, <2>2 DEF find_available_state_handler_id
<1>3. ASSUME NEW t \in Transports, CreateFails(t) PROVE PoolInv'
  BY <1>3 DEF CreateFails
<1>4. ASSUME NEW t \in Transports, CreateApplication(t) PROVE PoolInv'
  BY <1>4 DEF CreateApplication
<1>5. ASSUME NEW t \in Transports, RegisterStateHandler(t) PROVE PoolInv'
  BY <1>5 DEF RegisterStateHandler
<1>6. ASSUME NEW t \in Transports, ReceiveState(t) PROVE PoolInv'
  BY <1>6 DEF ReceiveState
<1>7. ASSUME NEW t \in Transports, WaitTimeout(t) PROVE PoolInv'
  BY <1>7 DEF WaitTimeout
<1>8. ASSUME NEW t \in Transports, UnregisterStateHandler(t) PROVE PoolInv'
  BY <1>8 DEF UnregisterStateHandler
<1>9. ASSUME NEW t \in Transports, free_state_handler_id(t) PROVE PoolInv'
  <2>1. /\ freeStateIds' = freeStateIds \cup {stateId[t]}
        /\ stateId' = [stateId EXCEPT ![t] = None]
        /\ pc[t] = "free" /\ pc' = [pc EXCEPT ![t] = "returned"]
        /\ stateHandler' = stateHandler
    BY <1>9 DEF free_state_handler_id
  <2>2. PoolTypes' /\ HeldWhileWaiting' /\ HandlerIsHeld'
    BY <2>1
  <2>3. FreeOrHeld'
    BY <2>1
  <2>4. QED
    BY <2>2, <2>3
<1>10. ASSUME NEW t \in Transports, StopApp(t) PROVE PoolInv'
  BY <1>10 DEF StopApp
<1>11. ASSUME NEW t \in Transports, StartThread(t) \/ ReportState(t) PROVE PoolInv'
  BY <1>11 DEF StartThread, ReportState
<1>12. CASE UNCHANGED vars
  BY <1>12 DEF vars
<1>13. QED
  BY <1>1, <1>2, <1>3, <1>4, <1>5, <1>6, <1>7, <1>8, <1>9, <1>10, <1>11, <1>12
  DEF Next, EngineStep

\* The inductive invariant holds throughout.
LEMMA PoolInvHolds == Spec => []PoolInv
  BY PoolInvInit, PoolInvStep, PTL DEF Spec

\* No path through create_app loses a state handler's id, shares one or frees
\* one twice, other than by ending with it in its hand.
THEOREM StateIdAccounting == Spec => []StateIdsAccounted
<1>1. PoolInv => StateIdsAccounted
  BY LifecycleAssumption DEF PoolInv, PoolTypes, FreeOrHeld, StateIdsAccounted
<1>2. QED
  BY PoolInvHolds, <1>1, PTL

\* A state handler vsomeip may call belongs to one application only and is
\* never handed out meanwhile.
THEOREM StateHandlersExclusive == Spec => []StateHandlerExclusive
<1>1. PoolInv => StateHandlerExclusive
  BY LifecycleAssumption DEF PoolInv, PoolTypes, FreeOrHeld, HandlerIsHeld, StateHandlerExclusive
<1>2. QED
  BY PoolInvHolds, <1>1, PTL

-----------------------------------------------------------------------------
(* The states in the channels.                                             *)

StateTypes ==
    /\ channel \in [StateIds -> Seq(Transports)]
    /\ reported \in [Transports -> Nat]
    /\ received \in [Transports -> Transports \cup {None}]

\* No application has reported more than one state.
NoSurplus == \A t \in Transports : reported[t] <= 1

\* A channel holds nothing, or the one state of the start that holds its id and
\* has not received it; a start that gave up keeps the id, and thereby the
\* channel in which its state may still arrive.
OneStateOfTheHolder ==
    \A id \in StateIds : channel[id] # <<>> =>
        \E t \in Transports :
            /\ channel[id] = <<t>>
            /\ stateId[t] = id
            /\ reported[t] = 1
            /\ pc[t] \notin {"unregister", "free"}

\* A start that was woken up was woken up by its own application, whose only
\* state that was.
WokenByItsState ==
    \A t \in Transports :
        /\ received[t] \in {None, t}
        /\ pc[t] \in {"unregister", "free"} => reported[t] = 1

\* Without a surplus state, channels and starts do not get mixed up.
ChannelInv == StateTypes /\ (NoSurplus => OneStateOfTheHolder /\ WokenByItsState)

\* The channels are empty when the process starts.
LEMMA ChannelInvInit == Init => ChannelInv
  BY LifecycleAssumption
  DEF Init, ChannelInv, StateTypes, NoSurplus, OneStateOfTheHolder, WokenByItsState

\* The engine takes from a channel only the state its own application reported.
LEMMA ReceiveKeepsChannelInv ==
  ASSUME PoolInv, ChannelInv, NEW t \in Transports, ReceiveState(t)
  PROVE  ChannelInv'
<1> DEFINE id == stateId[t]
<1>1. /\ pc[t] = "wait" /\ pc' = [pc EXCEPT ![t] = "unregister"]
      /\ channel[id] # <<>>
      /\ received' = [received EXCEPT ![t] = Head(channel[id])]
      /\ channel' = [channel EXCEPT ![id] = Tail(channel[id])]
      /\ UNCHANGED <<stateId, reported>>
  BY DEF ReceiveState, Goto, vsomeip
<1>2. id \in StateIds
  BY <1>1 DEF PoolInv, PoolTypes, HeldWhileWaiting, Waiting
<1>3. Head(channel[id]) \in Transports /\ Tail(channel[id]) \in Seq(Transports)
  BY <1>1, <1>2 DEF ChannelInv, StateTypes
<1>4. StateTypes'
  BY <1>1, <1>2, <1>3 DEF ChannelInv, StateTypes
<1>5. ASSUME NoSurplus' PROVE OneStateOfTheHolder' /\ WokenByItsState'
  <2>1. OneStateOfTheHolder /\ WokenByItsState
    BY <1>1, <1>5 DEF ChannelInv, NoSurplus
  <2>2. channel[id] = <<t>> /\ reported[t] = 1
    BY <1>1, <1>2, <2>1, LifecycleAssumption DEF OneStateOfTheHolder, PoolInv, FreeOrHeld
  <2>3. received'[t] = t /\ channel'[id] = <<>>
    BY <1>1, <1>2, <2>2 DEF ChannelInv, StateTypes
  <2>4. OneStateOfTheHolder'
    BY <1>1, <1>2, <2>1, <2>3
    DEF OneStateOfTheHolder, ChannelInv, StateTypes, PoolInv, PoolTypes
  <2>5. WokenByItsState'
    BY <1>1, <2>1, <2>2, <2>3 DEF WokenByItsState, ChannelInv, StateTypes, PoolInv, PoolTypes
  <2>6. QED
    BY <2>4, <2>5
<1>6. QED
  BY <1>4, <1>5 DEF ChannelInv

\* An application that reports its first state finds its channel empty.
LEMMA ReportKeepsChannelInv ==
  ASSUME PoolInv, ChannelInv, NEW a \in Transports, ReportState(a)
  PROVE  ChannelInv'
<1> DEFINE id == stateHandler[a]
<1>1. /\ reported' = [reported EXCEPT ![a] = @ + 1]
      /\ UNCHANGED <<pc, stateId, received>>
      /\ \/ id = None /\ channel' = channel
         \/ id # None /\ channel' = [channel EXCEPT ![id] = Append(channel[id], a)]
  BY DEF ReportState
<1>2. id # None => id \in StateIds /\ id = stateId[a] /\ pc[a] # "free"
  BY DEF PoolInv, PoolTypes, HandlerIsHeld
<1>3. StateTypes'
  <2>1. channel' \in [StateIds -> Seq(Transports)]
    <3>1. id # None => Append(channel[id], a) \in Seq(Transports)
      BY <1>2 DEF ChannelInv, StateTypes
    <3>2. QED
      BY <1>1, <1>2, <3>1 DEF ChannelInv, StateTypes
  <2>2. reported' \in [Transports -> Nat]
    BY <1>1 DEF ChannelInv, StateTypes
  <2>3. QED
    BY <1>1, <2>1, <2>2 DEF ChannelInv, StateTypes
<1>4. ASSUME NoSurplus' PROVE OneStateOfTheHolder' /\ WokenByItsState'
  <2>1. reported[a] = 0 /\ reported'[a] = 1 /\ NoSurplus
    BY <1>1, <1>4 DEF ChannelInv, StateTypes, NoSurplus
  <2>2. OneStateOfTheHolder /\ WokenByItsState
    BY <2>1 DEF ChannelInv
  <2>3. pc[a] \notin {"unregister", "free"}
    BY <2>1, <2>2 DEF WokenByItsState
  <2>4. WokenByItsState'
    BY <1>1, <2>2, <2>3 DEF WokenByItsState, ChannelInv, StateTypes
  <2>5. CASE id = None
    BY <1>1, <2>1, <2>2, <2>4, <2>5 DEF OneStateOfTheHolder, ChannelInv, StateTypes
  <2>6. CASE id # None
    <3>1. channel[id] = <<>>
      BY <1>2, <2>1, <2>2, <2>6, LifecycleAssumption
      DEF OneStateOfTheHolder, PoolInv, FreeOrHeld
    <3>2. channel'[id] = <<a>>
      BY <1>1, <1>2, <2>6, <3>1 DEF ChannelInv, StateTypes
    <3>3. OneStateOfTheHolder'
      BY <1>1, <1>2, <2>1, <2>2, <2>3, <2>6, <3>2
      DEF OneStateOfTheHolder, ChannelInv, StateTypes
    <3>4. QED
      BY <2>4, <3>3
  <2>7. QED
    BY <2>5, <2>6
<1>5. QED
  BY <1>3, <1>4 DEF ChannelInv

\* Every other step leaves the channels alone, and gives an id back only when
\* its channel is empty.
LEMMA ChannelInvStep == PoolInv /\ ChannelInv /\ [Next]_vars => ChannelInv'
<1> SUFFICES ASSUME PoolInv, ChannelInv, [Next]_vars PROVE ChannelInv'
  OBVIOUS
<1>1. ASSUME NEW t \in Transports, pc' = [pc EXCEPT ![t] = pc'[t]],
             pc'[t] \in {"unregister", "free"} => pc[t] \in {"unregister", "free"},
             UNCHANGED <<channel, reported, received>>,
             \/ UNCHANGED stateId
             \/ /\ stateId' = [stateId EXCEPT ![t] = stateId'[t]]
                /\ stateId[t] = None \/ pc[t] = "free"
      PROVE  ChannelInv'
  <2>1. ASSUME NoSurplus' PROVE OneStateOfTheHolder' /\ WokenByItsState'
    <3>1. OneStateOfTheHolder /\ WokenByItsState
      BY <1>1, <2>1 DEF ChannelInv, NoSurplus
    <3>2. WokenByItsState'
      BY <1>1, <3>1 DEF WokenByItsState, PoolInv, PoolTypes
    <3>3. ASSUME NEW id \in StateIds, channel[id] # <<>>
          PROVE  \E u \in Transports :
                    /\ channel[id] = <<u>> /\ stateId'[u] = id /\ reported[u] = 1
                    /\ pc'[u] \notin {"unregister", "free"}
      <4>1. PICK u \in Transports :
                    /\ channel[id] = <<u>> /\ stateId[u] = id /\ reported[u] = 1
                    /\ pc[u] \notin {"unregister", "free"}
        BY <3>1, <3>3 DEF OneStateOfTheHolder
      <4>2. stateId'[u] = id /\ pc'[u] \notin {"unregister", "free"}
        BY <1>1, <4>1, LifecycleAssumption DEF PoolInv, PoolTypes
      <4>3. QED
        BY <4>1, <4>2
    <3>4. QED
      BY <1>1, <3>2, <3>3 DEF OneStateOfTheHolder
  <2>2. QED
    BY <1>1, <2>1 DEF ChannelInv, StateTypes
<1>2. ASSUME NEW t \in Transports, CheckName(t) PROVE ChannelInv'
  BY <1>1, <1>2 DEF CheckName, Goto, Return, pool, vsomeip, PoolInv, PoolTypes
<1>3. ASSUME NEW t \in Transports, find_available_state_handler_id(t) PROVE ChannelInv'
  BY <1>1, <1>3
  DEF find_available_state_handler_id, Goto, Return, vsomeip, PoolInv, PoolTypes, HeldWhileWaiting
<1>4. ASSUME NEW t \in Transports,
             CreateFails(t) \/ CreateApplication(t) \/ RegisterStateHandler(t) \/ WaitTimeout(t)
      PROVE  ChannelInv'
  BY <1>1, <1>4
  DEF CreateFails, CreateApplication, RegisterStateHandler, WaitTimeout, Goto, Return,
      pool, vsomeip, PoolInv, PoolTypes
<1>5. ASSUME NEW t \in Transports, UnregisterStateHandler(t) \/ free_state_handler_id(t)
      PROVE  ChannelInv'
  BY <1>1, <1>5
  DEF UnregisterStateHandler, free_state_handler_id, Goto, Return, pool, vsomeip,
      PoolInv, PoolTypes
<1>6. ASSUME NEW t \in Transports, StopApp(t) \/ StartThread(t) PROVE ChannelInv'
  BY <1>1, <1>6 DEF StopApp, StartThread, Goto, pool, PoolInv, PoolTypes
<1>7. CASE UNCHANGED vars
  BY <1>7
  DEF vars, pool, vsomeip, ChannelInv, StateTypes, NoSurplus, OneStateOfTheHolder, WokenByItsState
<1>8. QED
  BY <1>2, <1>3, <1>4, <1>5, <1>6, <1>7, ReceiveKeepsChannelInv, ReportKeepsChannelInv
  DEF Next, EngineStep

\* The state that ends a start is that of its own application unless some
\* application reported more than one: a state that comes after its start has
\* timed out never reaches another start.
THEOREM StartsWokenByOwnApp == Spec => []WokenByOwnApp
<1>1. ChannelInv => WokenByOwnApp
  BY DEF ChannelInv, StateTypes, NoSurplus, WokenByItsState, WokenByOwnApp
<1>2. QED
  BY <1>1, PoolInvHolds, ChannelInvInit, ChannelInvStep, PTL DEF Spec

=============================================================================
