------------------------- MODULE TransportEngineProofs -------------------------
(***************************************************************************)
(* TransportEngine implements HandlerRegistry, for every number of         *)
(* callers, every capacity of the channel and every choice of timeouts, so *)
(* what is proved of the registry holds in the transport.                  *)
(***************************************************************************)
EXTENDS TransportEngine, HandlerRegistryProofs

\* What a caller can be doing.
Calls == [pc : {"idle", "send", "await", "release", "drop"},
          op : Ops \cup {None}, t : Transports \cup {None},
          config : Configs \cup {None}, id : Ids \cup {None},
          reply : Results \cup {None}]

\* A call under way knows its transport, and an unregistration its
\* configuration; only an unregistration releases.
Purposeful(r) ==
    /\ r.pc # "idle" => r.t \in Transports
    /\ r.pc \in {"send", "await", "release"} /\ r.op = "UnregisterListener"
          => r.config \in Configs
    /\ r.pc = "release" => r.op = "UnregisterListener"

CallInv ==
    /\ call \in [Callers -> Calls]
    /\ \A k \in Callers : Purposeful(call[k])

\* The inductive invariant: the registry's, and that calls are purposeful.
EngineInv == IInv /\ CallInv

-----------------------------------------------------------------------------

\* The calls the API and Drop make are purposeful.
LEMMA NewCallsPurposeful ==
  /\ Returned \in Calls /\ Purposeful(Returned)
  /\ \A t \in Transports : Dropping(t) \in Calls /\ Purposeful(Dropping(t))
  /\ \A t \in Transports : \A op \in {"StartVsomeipApp", "StopVsomeipApp"} :
        Sending(op, t, None, None) \in Calls /\ Purposeful(Sending(op, t, None, None))
  /\ \A t \in Transports, c \in Configs, id \in Ids :
        Sending("RegisterListener", t, c, id) \in Calls
          /\ Purposeful(Sending("RegisterListener", t, c, id))
  /\ \A t \in Transports, c \in Configs :
        Sending("UnregisterListener", t, c, None) \in Calls
          /\ Purposeful(Sending("UnregisterListener", t, c, None))
<1>1. Returned \in Calls /\ Purposeful(Returned)
  BY DEF Returned, Calls, Purposeful
<1>2. ASSUME NEW t \in Transports
      PROVE  Dropping(t) \in Calls /\ Purposeful(Dropping(t))
  BY DEF Returned, Dropping, Calls, Purposeful
<1>3. ASSUME NEW t \in Transports, NEW op \in {"StartVsomeipApp", "StopVsomeipApp"}
      PROVE  Sending(op, t, None, None) \in Calls /\ Purposeful(Sending(op, t, None, None))
  BY DEF Sending, Calls, Purposeful, Ops
<1>4. ASSUME NEW t \in Transports, NEW c \in Configs, NEW id \in Ids
      PROVE  /\ Sending("RegisterListener", t, c, id) \in Calls
             /\ Purposeful(Sending("RegisterListener", t, c, id))
  BY DEF Sending, Calls, Purposeful, Ops
<1>5. ASSUME NEW t \in Transports, NEW c \in Configs
      PROVE  /\ Sending("UnregisterListener", t, c, None) \in Calls
             /\ Purposeful(Sending("UnregisterListener", t, c, None))
  BY DEF Sending, Calls, Purposeful, Ops
<1>6. QED
  BY <1>1, <1>2, <1>3, <1>4, <1>5

\* Replacing one call by a purposeful one keeps the invariant.
LEMMA ReplacedCall ==
  ASSUME CallInv, NEW k \in Callers, NEW r \in Calls, Purposeful(r),
         call' = [call EXCEPT ![k] = r]
  PROVE  CallInv'
<1>1. call' \in [Callers -> Calls]
  BY DEF CallInv
<1>2. ASSUME NEW j \in Callers PROVE Purposeful(call'[j])
  <2>1. CASE j = k
    <3>1. call'[j] = r
      BY <2>1 DEF CallInv
    <3>2. QED
      BY <3>1
  <2>2. CASE j # k
    <3>1. call'[j] = call[j]
      BY <2>2 DEF CallInv
    <3>2. QED
      BY <3>1 DEF CallInv
  <2>3. QED
    BY <2>1, <2>2
<1>3. QED
  BY <1>1, <1>2 DEF CallInv, Purposeful

\* Starting and dropping a transport, registering and unregistering are steps
\* of the registry.
LEMMA ApiStepsAreRegistrySteps ==
  ASSUME NEW t \in Transports
  PROVE  /\ New(t) => Next
         /\ DropBegin(t) => Next
         /\ DropEnd(t) => Next
         /\ \A c \in Configs : (Register(t, c) => Next) /\ (Unregister(t, c) => Next)
                               /\ (DropRelease(t, c) => Next)
  BY DEF Next, TransportNext

\* NewCall, RegisterCall, UnregisterCall, DropCall and DropNext.
LEMMA CallBegins ==
  ASSUME EngineInv, NEW k \in Callers, NEW t \in Transports, NEW c \in Configs,
         \/ NewCall(k, t) \/ RegisterCall(k, t, c) \/ UnregisterCall(k, t, c) \/ DropCall(k, t)
  PROVE  [Next]_vars /\ CallInv'
<1>1. CASE NewCall(k, t)
  BY <1>1, NewCallsPurposeful, ReplacedCall, ApiStepsAreRegistrySteps DEF NewCall, EngineInv
<1>2. CASE RegisterCall(k, t, c)
  <2> DEFINE granted == {id \in Ids : listenerConfigs'[t][id] # listenerConfigs[t][id]}
             chosen == CHOOSE id \in granted : TRUE
  <2>1. Next
    BY <1>2, ApiStepsAreRegistrySteps DEF RegisterCall
  <2>2. CASE granted = {}
    <3>1. call' = call
      BY <1>2, <2>2 DEF RegisterCall
    <3>2. QED
      BY <2>1, <3>1 DEF EngineInv, CallInv, Purposeful
  <2>3. CASE granted # {}
    <3>1. chosen \in granted
      <4> HIDE DEF granted
      <4> QED BY <2>3, Zenon
    <3>2. chosen \in Ids
      BY <3>1
    <3>3. call' = [call EXCEPT ![k] = Sending("RegisterListener", t, c, chosen)]
      BY <1>2, <2>3 DEF RegisterCall
    <3> HIDE DEF chosen
    <3>4. QED
      BY <2>1, <3>2, <3>3, NewCallsPurposeful, ReplacedCall DEF EngineInv
  <2>4. QED
    BY <2>2, <2>3
<1>3. CASE UnregisterCall(k, t, c)
  BY <1>3, NewCallsPurposeful, ReplacedCall DEF UnregisterCall, EngineInv
<1>4. CASE DropCall(k, t)
  BY <1>4, NewCallsPurposeful, ReplacedCall, ApiStepsAreRegistrySteps DEF DropCall, EngineInv
<1>5. QED
  BY <1>1, <1>2, <1>3, <1>4

\* Drop sends a command for a configuration it collected, or the stop.
LEMMA DropNextKeepsCallInv ==
  ASSUME EngineInv, NEW k \in Callers, DropNext(k)
  PROVE  [Next]_vars /\ CallInv'
<1>1. call[k].t \in Transports
  BY DEF EngineInv, CallInv, Purposeful, DropNext
<1>2. pending[call[k].t] \subseteq Configs
  BY <1>1 DEF EngineInv, IInv, TypeOK
<1>3. QED
  BY <1>1, <1>2, NewCallsPurposeful, ReplacedCall DEF DropNext, EngineInv

\* The end of a wait, with or without a result.
LEMMA FinishKeepsCallInv ==
  ASSUME EngineInv, NEW k \in Callers, NEW reply, call[k].pc = "await", Finish(k, reply)
  PROVE  [Next]_vars /\ CallInv'
<1>1. call[k] \in Calls /\ Purposeful(call[k]) /\ call[k].t \in Transports
  BY DEF EngineInv, CallInv, Purposeful
<1>2. CASE call' = [call EXCEPT ![k] = Returned]
  BY <1>1, <1>2, NewCallsPurposeful, ReplacedCall, ApiStepsAreRegistrySteps DEF Finish, EngineInv
<1>3. CASE call' = [call EXCEPT ![k] = Dropping(call[k].t)]
  BY <1>1, <1>3, NewCallsPurposeful, ReplacedCall, ApiStepsAreRegistrySteps DEF Finish, EngineInv
<1>4. CASE /\ call[k].op = "UnregisterListener"
           /\ call' = [call EXCEPT ![k].pc = "release", ![k].reply = None]
           /\ UNCHANGED vars
  <2> DEFINE r == [call[k] EXCEPT !.pc = "release", !.reply = None]
  <2>1. r \in Calls /\ Purposeful(r)
    BY <1>1, <1>4 DEF Calls, Purposeful
  <2>2. call' = [call EXCEPT ![k] = r]
    BY <1>1, <1>4 DEF EngineInv, CallInv, Calls
  <2> HIDE DEF r
  <2>3. QED
    BY <1>4, <2>1, <2>2, ReplacedCall DEF EngineInv
<1>5. QED
  BY <1>2, <1>3, <1>4 DEF Finish

\* The end of unregister_listener is an Unregister or a DropRelease.
LEMMA ReleaseHandlerKeepsCallInv ==
  ASSUME EngineInv, NEW k \in Callers, ReleaseHandler(k)
  PROVE  [Next]_vars /\ CallInv'
<1>1. call[k].t \in Transports /\ call[k].config \in Configs
  BY DEF EngineInv, CallInv, Purposeful, ReleaseHandler
<1>2. QED
  BY <1>1, NewCallsPurposeful, ReplacedCall, ApiStepsAreRegistrySteps DEF ReleaseHandler, EngineInv

\* Sending a command to the engine leaves the registry alone.
LEMMA EnqueueKeepsCallInv ==
  ASSUME EngineInv, NEW k \in Callers, Enqueue(k)
  PROVE  [Next]_vars /\ CallInv'
<1> DEFINE r == [call[k] EXCEPT !.pc = "await"]
<1>1. call[k] \in Calls /\ Purposeful(call[k]) /\ call[k].pc = "send"
  BY DEF EngineInv, CallInv, Enqueue
<1>2. r \in Calls /\ Purposeful(r)
  BY <1>1 DEF Calls, Purposeful
<1>3. call' = [call EXCEPT ![k] = r] /\ UNCHANGED vars
  BY DEF Enqueue
<1> HIDE DEF r
<1>4. QED
  BY <1>2, <1>3, ReplacedCall DEF EngineInv

\* A reply changes nothing else of the call it is given to.
LEMMA ReplyKeepsCallInv ==
  ASSUME EngineInv, NEW t \in Transports, NEW ops,
         NEW reply \in Results, TakeAndReply(t, ops, reply)
  PROVE  UNCHANGED vars /\ CallInv'
<1> DEFINE k == Head(queue[t]).caller
           r == [call[k] EXCEPT !.reply = reply]
<1>2. UNCHANGED vars
  BY DEF TakeAndReply
<1>3. CASE call' = call
  BY <1>2, <1>3 DEF EngineInv, CallInv, Purposeful
<1>4. CASE call' = [call EXCEPT ![k] = r]
  <2> HIDE DEF k
  <2>1. CASE k \in Callers
    <3>1. call[k] \in Calls /\ Purposeful(call[k])
      BY <2>1 DEF EngineInv, CallInv
    <3>2. r \in Calls /\ Purposeful(r)
      BY <3>1 DEF Calls, Purposeful
    <3> HIDE DEF r
    <3>3. QED
      BY <1>2, <1>4, <2>1, <3>2, ReplacedCall DEF EngineInv
  <2>2. CASE k \notin Callers
    <3> HIDE DEF r
    <3>1. call' = call
      BY <1>4, <2>2 DEF EngineInv, CallInv
    <3>2. QED
      BY <1>3, <3>1
  <2>3. QED
    BY <2>1, <2>2
<1>5. QED
  BY <1>3, <1>4 DEF TakeAndReply

\* Whatever the command, the engine touches no call but to reply, and never the
\* registry.
LEMMA EngineStepKeepsCallInv ==
  ASSUME EngineInv, NEW t \in Transports, EngineStep(t)
  PROVE  UNCHANGED vars /\ CallInv'
<1>1. CASE register_listener_internal(t)
  BY <1>1, ReplyKeepsCallInv DEF register_listener_internal, Results
<1>2. CASE unregister_listener_internal(t)
  BY <1>2, ReplyKeepsCallInv DEF unregister_listener_internal, Results
<1>3. CASE start_vsomeip_app_internal(t)
  BY <1>3, ReplyKeepsCallInv DEF start_vsomeip_app_internal, Results
<1>4. CASE stop_vsomeip_app_internal(t)
  BY <1>4, ReplyKeepsCallInv DEF stop_vsomeip_app_internal, Results
<1>5. CASE EngineWithoutApp(t)
  BY <1>5, ReplyKeepsCallInv DEF EngineWithoutApp, Results
<1>6. QED
  BY <1>1, <1>2, <1>3, <1>4, <1>5 DEF EngineStep

\* A step of the transport is a step of the registry or leaves it alone.
LEMMA EngineNextIsRegistryStep ==
  EngineInv /\ [EngineNext]_evars => [Next]_vars /\ CallInv'
<1> SUFFICES ASSUME EngineInv, [EngineNext]_evars PROVE [Next]_vars /\ CallInv'
  OBVIOUS
<1>1. ASSUME NEW k \in Callers, NEW t \in Transports, NewCall(k, t) \/ DropCall(k, t)
      PROVE  [Next]_vars /\ CallInv'
  BY <1>1, NewCallsPurposeful, ReplacedCall, ApiStepsAreRegistrySteps
  DEF NewCall, DropCall, EngineInv
<1>2. ASSUME NEW k \in Callers, NEW t \in Transports, NEW c \in Configs,
             RegisterCall(k, t, c) \/ UnregisterCall(k, t, c)
      PROVE  [Next]_vars /\ CallInv'
  BY <1>2, CallBegins
<1>3. ASSUME NEW k \in Callers, CallStep(k) \/ AwaitTimeout(k) PROVE [Next]_vars /\ CallInv'
  BY <1>3, DropNextKeepsCallInv, FinishKeepsCallInv, ReleaseHandlerKeepsCallInv
  DEF CallStep, AwaitReply, AwaitTimeout
<1>4. ASSUME NEW k \in Callbacks, CallbackStep(k) PROVE [Next]_vars /\ CallInv'
  BY <1>4 DEF CallbackStep, Next, CallbackNext, engineVars, EngineInv, CallInv, Purposeful
<1>5. ASSUME NEW k \in Callbacks, NEW a \in AppNames, NEW key \in Keys, Dispatch(k, a, key)
      PROVE  [Next]_vars /\ CallInv'
  <2>1. handlers[a][key] \in Ids
    BY <1>5 DEF Dispatch, CallbackLookup, EngineInv, IInv, TypeOK
  <2>2. QED
    BY <1>5, <2>1 DEF Dispatch, Next, CallbackNext, engineVars, EngineInv, CallInv, Purposeful
<1>6. CASE UNCHANGED evars
  BY <1>6 DEF evars, engineVars, EngineInv, CallInv, Purposeful
<1>7. QED
  BY <1>1, <1>2, <1>3, <1>4, <1>5, <1>6, EnqueueKeepsCallInv, EngineStepKeepsCallInv
  DEF EngineNext

\* Initially the registry is as its Init says and nobody is calling.
LEMMA EngineInitEstablishesInv == EngineInit => Init /\ EngineInv
<1> SUFFICES ASSUME EngineInit PROVE Init /\ EngineInv
  OBVIOUS
<1>1. Init /\ IInv
  BY InitEstablishesIInv DEF EngineInit
<1>2. CallInv
  BY NewCallsPurposeful DEF EngineInit, CallInv
<1>3. QED
  BY <1>1, <1>2 DEF EngineInv

\* The transport implements the registry's specification: every interleaving of
\* callers, engines, timeouts and dispatcher threads is a behaviour of it.
THEOREM EngineImplementsRegistry == EngineSpec => RegistryImplemented
<1>1. EngineInv /\ [EngineNext]_evars => EngineInv'
  BY EngineNextIsRegistryStep, NextKeepsIInv DEF EngineInv
<1>2. QED
  BY <1>1, EngineInitEstablishesInv, EngineNextIsRegistryStep, PTL
  DEF EngineSpec, RegistryImplemented, Spec

\* Hence the pool and the maps agree, and a dropped transport holds nothing, in
\* the transport as well, whatever times out.
THEOREM EngineKeepsRegistry ==
  EngineSpec => [](PoolPartition /\ RoutedToOwner /\ NothingHeldAfterDrop)
<1>1. IInv => PoolPartition /\ RoutedToOwner /\ NothingHeldAfterDrop
  BY DEF IInv, RegistryInv
<1>2. QED
  BY <1>1, EngineImplementsRegistry, RegistryInductive, PTL DEF RegistryImplemented

-----------------------------------------------------------------------------
(* Commands and replies.                                                   *)

Commands == [op : Ops, config : Configs \cup {None}, id : Ids \cup {None},
             caller : Callers \cup {None}]

\* The call that waits for the result of a command in t's channel.
Waiting(t, cmd) ==
    [pc |-> "await", op |-> cmd.op, t |-> t, config |-> cmd.config, id |-> cmd.id,
     reply |-> None]

\* A command whose caller has not given up is what that caller waits for, and
\* the only one: no caller has two commands under way.
CommandsAwaited ==
    \A t \in Transports : \A i \in DOMAIN queue[t] :
        LET k == queue[t][i].caller IN
        k # None =>
            /\ call[k] = Waiting(t, queue[t][i])
            /\ \A j \in DOMAIN queue[t] : queue[t][j].caller = k => j = i

\* A caller that waits without a result has a command in the channel.
AwaitedCommands ==
    \A k \in Callers :
        /\ call[k].reply # None => call[k].pc = "await"
        /\ call[k].pc = "await" /\ call[k].reply = None =>
              \E i \in DOMAIN queue[call[k].t] : queue[call[k].t][i].caller = k

\* A command for a listener names its configuration, and a registration the id
\* that was granted for it.
Complete(op, config, id) ==
    /\ op \in {"RegisterListener", "UnregisterListener"} => config \in Configs
    /\ op = "RegisterListener" => id \in Ids

CompleteCommands ==
    /\ \A k \in Callers :
          call[k].pc \in {"send", "await"} =>
              call[k].op \in Ops /\ Complete(call[k].op, call[k].config, call[k].id)
    /\ \A t \in Transports : \A i \in DOMAIN queue[t] :
          Complete(queue[t][i].op, queue[t][i].config, queue[t][i].id)

CommandInv ==
    /\ queue \in [Transports -> Seq(Commands)]
    /\ CommandsAwaited /\ AwaitedCommands /\ CompleteCommands

\* The channel after a command was sent, and after one was taken.
LEMMA QueueFacts ==
  ASSUME NEW s \in Seq(Commands)
  PROVE  /\ Len(s) \in Nat /\ DOMAIN s = 1 .. Len(s)
         /\ \A i \in DOMAIN s : s[i] \in Commands
         /\ \A e \in Commands :
               /\ Append(s, e) \in Seq(Commands)
               /\ DOMAIN Append(s, e) = 1 .. (Len(s) + 1)
               /\ \A i \in 1 .. Len(s) : Append(s, e)[i] = s[i]
               /\ Append(s, e)[Len(s) + 1] = e
         /\ s # <<>> =>
               /\ Len(s) >= 1 /\ Head(s) = s[1]
               /\ Tail(s) \in Seq(Commands)
               /\ DOMAIN Tail(s) = 1 .. (Len(s) - 1)
               /\ \A i \in 1 .. (Len(s) - 1) : Tail(s)[i] = s[i + 1]
<1>1. /\ Len(s) \in Nat /\ DOMAIN s = 1 .. Len(s)
      /\ \A i \in DOMAIN s : s[i] \in Commands
  OBVIOUS
<1>2. ASSUME NEW e \in Commands
      PROVE  /\ Append(s, e) \in Seq(Commands)
             /\ DOMAIN Append(s, e) = 1 .. (Len(s) + 1)
             /\ \A i \in 1 .. Len(s) : Append(s, e)[i] = s[i]
             /\ Append(s, e)[Len(s) + 1] = e
  <2> HIDE DEF Commands
  <2> QED OBVIOUS
<1>3. ASSUME s # <<>>
      PROVE  /\ Len(s) >= 1 /\ Head(s) = s[1]
             /\ Tail(s) \in Seq(Commands)
             /\ DOMAIN Tail(s) = 1 .. (Len(s) - 1)
             /\ \A i \in 1 .. (Len(s) - 1) : Tail(s)[i] = s[i + 1]
  <2> HIDE DEF Commands
  <2> QED BY <1>3
<1>4. QED
  BY <1>1, <1>2, <1>3

\* A command names the caller that waits for its result, if there still is one.
LEMMA CommandHasCaller ==
  ASSUME queue \in [Transports -> Seq(Commands)],
         NEW t \in Transports, NEW i \in DOMAIN queue[t]
  PROVE  /\ queue[t][i] \in Commands
         /\ queue[t][i].caller \in Callers \cup {None}
<1>1. queue[t][i] \in Commands
  BY QueueFacts
<1>2. QED
  BY <1>1 DEF Commands

\* Commands that stay in the channel with their callers keep the invariant when
\* a caller without one goes on to something else than waiting.
LEMMA CallerGoesOn ==
  ASSUME CallInv, CommandInv, NEW k \in Callers, NEW r,
         call[k].pc # "await" \/ call[k].reply # None,
         r.pc # "await" /\ r.reply = None,
         r.pc = "send" => r.op \in Ops /\ Complete(r.op, r.config, r.id),
         call' = [call EXCEPT ![k] = r], UNCHANGED queue
  PROVE  CommandInv'
<1>1. \A j \in Callers : call'[j] = IF j = k THEN r ELSE call[j]
  BY DEF CallInv
<1>2. ASSUME NEW t \in Transports, NEW i \in DOMAIN queue[t]
      PROVE  queue[t][i].caller \in (Callers \cup {None}) \ {k}
  <2>1. queue[t][i].caller \in Callers \cup {None}
    BY CommandHasCaller DEF CommandInv
  <2>2. ASSUME queue[t][i].caller = k PROVE FALSE
    <3>1. call[k] = Waiting(t, queue[t][i])
      BY <2>2, EngineAssumption DEF CommandInv, CommandsAwaited
    <3>2. QED
      BY <3>1 DEF Waiting
  <2>3. QED
    BY <2>1, <2>2
<1>4. CommandsAwaited'
  <2> SUFFICES ASSUME NEW t \in Transports, NEW i \in DOMAIN queue[t], queue[t][i].caller # None
               PROVE  /\ call'[queue[t][i].caller] = Waiting(t, queue[t][i])
                      /\ \A j \in DOMAIN queue[t] :
                            queue[t][j].caller = queue[t][i].caller => j = i
    BY DEF CommandsAwaited, Waiting
  <2>1. call'[queue[t][i].caller] = call[queue[t][i].caller]
    BY <1>1, <1>2
  <2>2. QED
    BY <2>1 DEF CommandInv, CommandsAwaited
<1>5. AwaitedCommands'
  <2>1. AwaitedCommands
    BY DEF CommandInv
  <2>2. \A j \in Callers : call'[j] = r \/ call'[j] = call[j]
    BY <1>1
  <2>3. QED
    BY <2>1, <2>2 DEF AwaitedCommands
<1>6. CompleteCommands'
  BY <1>1 DEF CommandInv, CompleteCommands, Complete
<1>7. QED
  BY <1>4, <1>5, <1>6 DEF CommandInv

\* A command is sent: its caller had none.
LEMMA EnqueueKeepsCommandInv ==
  ASSUME CallInv, CommandInv, NEW k \in Callers, Enqueue(k)
  PROVE  CommandInv'
<1> DEFINE t == call[k].t
           s == queue[t]
           cmd == [op |-> call[k].op, config |-> call[k].config, id |-> call[k].id, caller |-> k]
           r == [call[k] EXCEPT !.pc = "await"]
<1>1. /\ call[k].pc = "send" /\ t \in Transports
      /\ queue' = [queue EXCEPT ![t] = Append(s, cmd)]
      /\ call' = [call EXCEPT ![k] = r]
  BY DEF Enqueue, CallInv, Purposeful
<1>2. call[k] \in Calls /\ call[k].reply = None
  BY <1>1 DEF CallInv, CommandInv, AwaitedCommands
<1>3. r = Waiting(t, cmd)
  BY <1>2 DEF Calls, Waiting
<1>4. call[k].op \in Ops /\ Complete(call[k].op, call[k].config, call[k].id)
  BY <1>1 DEF CommandInv, CompleteCommands
<1>5. cmd \in Commands /\ Complete(cmd.op, cmd.config, cmd.id) /\ cmd.caller = k
  BY <1>2, <1>4 DEF Commands, Calls
<1>6. \A j \in Callers : call'[j] = IF j = k THEN Waiting(t, cmd) ELSE call[j]
  BY <1>1, <1>3 DEF CallInv
<1>7. s \in Seq(Commands)
  BY <1>1 DEF CommandInv
<1> HIDE DEF cmd, r
<1>8. /\ queue' \in [Transports -> Seq(Commands)]
      /\ \A u \in Transports : u # t => queue'[u] = queue[u]
      /\ queue'[t] = Append(s, cmd)
      /\ Len(s) \in Nat /\ DOMAIN s = 1 .. Len(s) /\ DOMAIN queue'[t] = 1 .. (Len(s) + 1)
      /\ \A i \in 1 .. Len(s) : queue'[t][i] = s[i]
      /\ queue'[t][Len(s) + 1] = cmd
  <2>1. Append(s, cmd) \in Seq(Commands)
    BY <1>5, <1>7, QueueFacts
  <2>2. /\ queue' \in [Transports -> Seq(Commands)]
        /\ \A u \in Transports : u # t => queue'[u] = queue[u]
        /\ queue'[t] = Append(s, cmd)
    BY <1>1, <2>1 DEF CommandInv
  <2>3. QED
    BY <1>5, <1>7, <2>2, QueueFacts
<1> DEFINE last == Len(s) + 1
<1>8a. /\ t \in Transports /\ last \in DOMAIN queue'[t] /\ queue'[t][last] = cmd
      /\ last \notin DOMAIN queue[t]
  BY <1>1, <1>8
<1>8b. ASSUME NEW u \in Transports, NEW i \in DOMAIN queue[u]
      PROVE  i \in DOMAIN queue'[u] /\ queue'[u][i] = queue[u][i]
  <2>1. CASE u = t
    <3>1. i \in 1 .. Len(s) /\ i \in 1 .. (Len(s) + 1)
      BY <1>8, <2>1
    <3>2. QED
      BY <1>8, <2>1, <3>1
  <2>2. CASE u # t
    BY <1>8, <2>2
  <2>3. QED
    BY <2>1, <2>2
<1>8c. ASSUME NEW u \in Transports, NEW i \in DOMAIN queue'[u], ~(u = t /\ i = last)
      PROVE  i \in DOMAIN queue[u]
  <2>1. CASE u = t
    <3>1. i \in 1 .. (Len(s) + 1) /\ i # Len(s) + 1
      BY <1>8c, <1>8, <2>1
    <3>2. i \in 1 .. Len(s)
      BY <1>8, <3>1
    <3>3. QED
      BY <1>8, <2>1, <3>2
  <2>2. CASE u # t
    BY <1>8, <2>2
  <2>3. QED
    BY <2>1, <2>2
<1> HIDE DEF t, s, last
<1>9. ASSUME NEW u \in Transports, NEW i \in DOMAIN queue[u]
      PROVE  queue[u][i].caller \in (Callers \cup {None}) \ {k}
  <2>1. queue[u][i].caller \in Callers \cup {None}
    BY CommandHasCaller DEF CommandInv
  <2>2. ASSUME queue[u][i].caller = k PROVE FALSE
    <3>1. call[k] = Waiting(u, queue[u][i])
      BY <2>2, EngineAssumption DEF CommandInv, CommandsAwaited
    <3>2. QED
      BY <1>1, <3>1 DEF Waiting
  <2>3. QED
    BY <2>1, <2>2
<1>10. CommandsAwaited'
  <2> SUFFICES ASSUME NEW u \in Transports, NEW i \in DOMAIN queue'[u],
                      queue'[u][i].caller # None
               PROVE  /\ call'[queue'[u][i].caller] = Waiting(u, queue'[u][i])
                      /\ \A j \in DOMAIN queue'[u] :
                            queue'[u][j].caller = queue'[u][i].caller => j = i
    BY DEF CommandsAwaited, Waiting
  <2>1. CASE u = t /\ i = last
    <3>1. queue'[u][i] = cmd
      BY <1>8a, <2>1
    <3>2. ASSUME NEW j \in DOMAIN queue'[u], queue'[u][j].caller = k, j # i PROVE FALSE
      <4>1. j \in DOMAIN queue[u] /\ queue'[u][j] = queue[u][j]
        BY <1>8b, <1>8c, <2>1, <3>2
      <4>2. QED
        BY <1>9, <3>2, <4>1
    <3>3. QED
      BY <1>5, <1>6, <2>1, <3>1, <3>2
  <2>2. CASE ~(u = t /\ i = last)
    <3>1. i \in DOMAIN queue[u] /\ queue'[u][i] = queue[u][i]
      BY <1>8b, <1>8c, <2>2
    <3>2. call'[queue[u][i].caller] = call[queue[u][i].caller] /\ queue[u][i].caller # k
      BY <1>6, <1>9, <3>1
    <3>3. /\ call[queue[u][i].caller] = Waiting(u, queue[u][i])
          /\ \A j \in DOMAIN queue[u] : queue[u][j].caller = queue[u][i].caller => j = i
      BY <3>1 DEF CommandInv, CommandsAwaited
    <3>4. ASSUME NEW j \in DOMAIN queue'[u], queue'[u][j].caller = queue[u][i].caller
          PROVE  j \in DOMAIN queue[u] /\ queue'[u][j] = queue[u][j]
      <4>1. ~(u = t /\ j = last)
        BY <1>5, <1>8a, <3>2, <3>4
      <4>2. QED
        BY <1>8b, <1>8c, <4>1
    <3>5. QED
      BY <3>1, <3>2, <3>3, <3>4
  <2>3. QED
    BY <2>1, <2>2
<1>11. AwaitedCommands'
  <2> SUFFICES ASSUME NEW j \in Callers
               PROVE  /\ call'[j].reply # None => call'[j].pc = "await"
                      /\ call'[j].pc = "await" /\ call'[j].reply = None =>
                            \E i \in DOMAIN queue'[call'[j].t] : queue'[call'[j].t][i].caller = j
    BY DEF AwaitedCommands
  <2>1. CASE j = k
    <3>1. call'[j].pc = "await" /\ call'[j].reply = None /\ call'[j].t = t
      BY <1>6, <2>1 DEF Waiting
    <3>2. last \in DOMAIN queue'[t] /\ queue'[t][last].caller = j
      BY <1>5, <1>8a, <2>1
    <3>3. QED
      BY <3>1, <3>2
  <2>2. CASE j # k
    <3>1. call'[j] = call[j]
      BY <1>6, <2>2
    <3>2. CASE call[j].pc = "await" /\ call[j].reply = None
      <4>1. call[j].t \in Transports
        BY <3>2 DEF CallInv, Purposeful
      <4>2. PICK i \in DOMAIN queue[call[j].t] : queue[call[j].t][i].caller = j
        BY <3>2 DEF CommandInv, AwaitedCommands
      <4>3. i \in DOMAIN queue'[call[j].t] /\ queue'[call[j].t][i] = queue[call[j].t][i]
        BY <1>8b, <4>1, <4>2
      <4>4. QED
        BY <3>1, <3>2, <4>2, <4>3
    <3>3. QED
      BY <3>1, <3>2 DEF CommandInv, AwaitedCommands
  <2>3. QED
    BY <2>1, <2>2
<1>12. CompleteCommands'
  <2>1. ASSUME NEW j \in Callers, call'[j].pc \in {"send", "await"}
        PROVE  call'[j].op \in Ops /\ Complete(call'[j].op, call'[j].config, call'[j].id)
    BY <1>4, <1>6, <2>1 DEF CommandInv, CompleteCommands, Waiting, cmd
  <2>2. ASSUME NEW u \in Transports, NEW i \in DOMAIN queue'[u]
        PROVE  Complete(queue'[u][i].op, queue'[u][i].config, queue'[u][i].id)
    <3>1. CASE u = t /\ i = last
      BY <1>5, <1>8a, <3>1
    <3>2. CASE ~(u = t /\ i = last)
      <4>1. i \in DOMAIN queue[u] /\ queue'[u][i] = queue[u][i]
        BY <1>8b, <1>8c, <3>2
      <4>2. QED
        BY <4>1 DEF CommandInv, CompleteCommands
    <3>3. QED
      BY <3>1, <3>2
  <2>3. QED
    BY <2>1, <2>2 DEF CompleteCommands, Complete
<1>13. QED
  BY <1>8, <1>10, <1>11, <1>12 DEF CommandInv

\* The engine takes a command and replies to the caller that still waits for it.
LEMMA ReplyKeepsCommandInv ==
  ASSUME CallInv, CommandInv, NEW t \in Transports, NEW ops,
         NEW reply \in Results, TakeAndReply(t, ops, reply)
  PROVE  CommandInv'
<1> DEFINE s == queue[t]
           k == s[1].caller
<1>1. s \in Seq(Commands) /\ s # <<>>
  BY DEF CommandInv, TakeAndReply
<1>2. /\ Len(s) \in Nat /\ Len(s) >= 1 /\ Head(s) = s[1] /\ DOMAIN s = 1 .. Len(s)
      /\ Tail(s) \in Seq(Commands)
      /\ DOMAIN Tail(s) = 1 .. (Len(s) - 1)
      /\ \A i \in 1 .. (Len(s) - 1) : Tail(s)[i] = s[i + 1]
  BY <1>1, QueueFacts
<1>3. /\ queue' = [queue EXCEPT ![t] = Tail(s)]
      /\ call' = IF k = None THEN call ELSE [call EXCEPT ![k].reply = reply]
  BY <1>2 DEF TakeAndReply
<1>4. /\ queue' \in [Transports -> Seq(Commands)]
      /\ queue'[t] = Tail(s)
      /\ \A u \in Transports : u # t => queue'[u] = queue[u]
  BY <1>2, <1>3 DEF CommandInv
<1>5. ASSUME NEW i \in DOMAIN queue'[t]
      PROVE  i + 1 \in DOMAIN queue[t] /\ queue'[t][i] = queue[t][i + 1] /\ i \in Nat /\ i + 1 # 1
  <2>1. i \in 1 .. (Len(s) - 1)
    BY <1>2, <1>4
  <2>2. i + 1 \in 1 .. Len(s)
    BY <1>2, <2>1
  <2>3. QED
    BY <1>2, <1>4, <2>1, <2>2
<1>6. ASSUME NEW i \in DOMAIN queue[t], i # 1
      PROVE  i - 1 \in DOMAIN queue'[t] /\ queue'[t][i - 1] = queue[t][i]
  <2>1. i \in 1 .. Len(s) /\ i - 1 \in 1 .. (Len(s) - 1)
    BY <1>2, <1>6
  <2>2. QED
    BY <1>2, <1>4, <2>1
<1>7. 1 \in DOMAIN queue[t] /\ k \in Callers \cup {None}
  <2>1. 1 \in DOMAIN queue[t]
    BY <1>2
  <2>2. QED
    BY <2>1, CommandHasCaller DEF CommandInv
<1>8. k # None => k \in Callers /\ call[k] = Waiting(t, s[1])
  BY <1>7 DEF CommandInv, CommandsAwaited
<1>9. ASSUME NEW j \in Callers
      PROVE  call'[j] = IF j = k THEN [call[j] EXCEPT !.reply = reply] ELSE call[j]
  BY <1>3, <1>8, EngineAssumption DEF CallInv
<1> HIDE DEF s, k
<1>10. ASSUME NEW u \in Transports, NEW i \in DOMAIN queue'[u]
       PROVE  \E n \in DOMAIN queue[u] : queue'[u][i] = queue[u][n]
  BY <1>4, <1>5
<1>11. ASSUME NEW u \in Transports, NEW i \in DOMAIN queue[u], ~(u = t /\ i = 1)
       PROVE  queue[u][i].caller # k \/ k = None
  <2> SUFFICES ASSUME queue[u][i].caller = k, k # None PROVE FALSE
    OBVIOUS
  <2>1. /\ call[k] = Waiting(u, queue[u][i])
        /\ \A j \in DOMAIN queue[u] : queue[u][j].caller = k => j = i
    BY DEF CommandInv, CommandsAwaited
  <2>2. u = t
    BY <1>8, <2>1 DEF Waiting
  <2>3. QED
    BY <1>7, <1>11, <2>1, <2>2 DEF k, s
<1>12. CommandsAwaited'
  <2> SUFFICES ASSUME NEW u \in Transports, NEW i \in DOMAIN queue'[u],
                      queue'[u][i].caller # None
               PROVE  /\ call'[queue'[u][i].caller] = Waiting(u, queue'[u][i])
                      /\ \A j \in DOMAIN queue'[u] :
                            queue'[u][j].caller = queue'[u][i].caller => j = i
    BY DEF CommandsAwaited, Waiting
  <2> DEFINE n == IF u = t THEN i + 1 ELSE i
             c == queue[u][n].caller
  <2>1. n \in DOMAIN queue[u] /\ queue'[u][i] = queue[u][n] /\ ~(u = t /\ n = 1)
    BY <1>4, <1>5
  <2>2. c # None /\ c \in Callers /\ c # k
    <3>1. c # None
      BY <2>1
    <3>2. c \in Callers \cup {None}
      BY <2>1, CommandHasCaller DEF CommandInv
    <3>3. c # k
      BY <1>11, <2>1, <3>1
    <3>4. QED
      BY <3>1, <3>2, <3>3
  <2>3. /\ call[c] = Waiting(u, queue[u][n])
        /\ \A j \in DOMAIN queue[u] : queue[u][j].caller = c => j = n
    BY <2>1, <2>2 DEF CommandInv, CommandsAwaited
  <2>4. call'[c] = call[c]
    BY <1>9, <2>2
  <2>5. ASSUME NEW j \in DOMAIN queue'[u], queue'[u][j].caller = c PROVE j = i
    <3>1. CASE u = t
      <4>1. /\ j + 1 \in DOMAIN queue[u] /\ queue'[u][j] = queue[u][j + 1]
            /\ j \in Nat /\ i \in Nat
        BY <1>5, <3>1
      <4>2. j + 1 = i + 1
        BY <2>3, <2>5, <3>1, <4>1
      <4>3. QED
        BY <4>1, <4>2
    <3>2. CASE u # t
      BY <1>4, <2>3, <2>5, <3>2
    <3>3. QED
      BY <3>1, <3>2
  <2> HIDE DEF n
  <2>6. QED
    BY <2>1, <2>3, <2>4, <2>5
<1>13. AwaitedCommands'
  <2> SUFFICES ASSUME NEW j \in Callers
               PROVE  /\ call'[j].reply # None => call'[j].pc = "await"
                      /\ call'[j].pc = "await" /\ call'[j].reply = None =>
                            \E i \in DOMAIN queue'[call'[j].t] : queue'[call'[j].t][i].caller = j
    BY DEF AwaitedCommands
  <2>1. CASE j = k
    <3>1. call[j] = Waiting(t, s[1])
      BY <1>8, <2>1, EngineAssumption
    <3>2. call'[j] = [call[j] EXCEPT !.reply = reply]
      BY <1>9, <2>1
    <3>3. call'[j].pc = "await" /\ call'[j].reply = reply
      BY <3>1, <3>2 DEF Waiting
    <3>4. QED
      BY <3>3, EngineAssumption
  <2>2. CASE j # k
    <3>1. call'[j] = call[j]
      BY <1>9, <2>2
    <3>2. CASE call[j].pc = "await" /\ call[j].reply = None
      <4>1. call[j].t \in Transports
        BY <3>2 DEF CallInv, Purposeful
      <4>2. PICK i \in DOMAIN queue[call[j].t] : queue[call[j].t][i].caller = j
        BY <3>2 DEF CommandInv, AwaitedCommands
      <4>3. CASE call[j].t = t
        <5>1. i # 1
          BY <2>2, <4>2, <4>3 DEF k, s
        <5>2. i - 1 \in DOMAIN queue'[t] /\ queue'[t][i - 1].caller = j
          BY <1>6, <4>2, <4>3, <5>1
        <5>3. QED
          BY <3>1, <3>2, <4>3, <5>2
      <4>4. CASE call[j].t # t
        BY <1>4, <3>1, <3>2, <4>1, <4>2, <4>4
      <4>5. QED
        BY <4>3, <4>4
    <3>3. QED
      BY <3>1, <3>2 DEF CommandInv, AwaitedCommands
  <2>3. QED
    BY <2>1, <2>2
<1>14. CompleteCommands'
  <2>1. ASSUME NEW j \in Callers
        PROVE  /\ call'[j].pc = call[j].pc /\ call'[j].op = call[j].op
               /\ call'[j].config = call[j].config /\ call'[j].id = call[j].id
    <3>1. call[j] \in Calls
      BY DEF CallInv
    <3>2. QED
      BY <1>9, <3>1 DEF Calls
  <2>2. QED
    BY <1>10, <2>1 DEF CommandInv, CompleteCommands, Complete
<1>15. QED
  BY <1>4, <1>12, <1>13, <1>14 DEF CommandInv

\* A command whose caller has given up is the same but for the caller.
LEMMA AbandonedCommand ==
  ASSUME NEW cmd \in Commands
  PROVE  /\ [cmd EXCEPT !.caller = None] \in Commands
         /\ [cmd EXCEPT !.caller = None].caller = None
         /\ [cmd EXCEPT !.caller = None].op = cmd.op
         /\ [cmd EXCEPT !.caller = None].config = cmd.config
         /\ [cmd EXCEPT !.caller = None].id = cmd.id
  BY DEF Commands

\* A caller gives up: its command stays, without a caller.
LEMMA GivingUpKeepsCommandInv ==
  ASSUME CallInv, CommandInv, NEW k \in Callers, NEW r,
         call[k].pc = "await",
         r.pc \notin {"send", "await"} /\ r.reply = None,
         call' = [call EXCEPT ![k] = r],
         queue' = [queue EXCEPT ![call[k].t] = [i \in DOMAIN @ |->
                    IF @[i].caller = k THEN [@[i] EXCEPT !.caller = None] ELSE @[i]]]
  PROVE  CommandInv'
<1> DEFINE t == call[k].t
           s == queue[t]
           f == [i \in DOMAIN s |-> IF s[i].caller = k THEN [s[i] EXCEPT !.caller = None] ELSE s[i]]
<1>1. t \in Transports
  BY DEF CallInv, Purposeful
<1>2. s \in Seq(Commands)
  BY <1>1 DEF CommandInv
<1>3. \A i \in DOMAIN s : s[i] \in Commands /\ [s[i] EXCEPT !.caller = None] \in Commands
  BY <1>2, QueueFacts, AbandonedCommand
<1>4. f \in Seq(Commands) /\ DOMAIN f = DOMAIN s
  <2>1. DOMAIN s = 1 .. Len(s) /\ Len(s) \in Nat
    BY <1>2, QueueFacts
  <2>2. f \in [1 .. Len(s) -> Commands]
    BY <1>3, <2>1
  <2> HIDE DEF f, Commands
  <2>3. QED
    BY <2>1, <2>2
<1>5. /\ queue' \in [Transports -> Seq(Commands)]
      /\ queue'[t] = f /\ \A u \in Transports : u # t => queue'[u] = queue[u]
  BY <1>1, <1>4 DEF CommandInv
<1>6. \A i \in DOMAIN s : f[i] = IF s[i].caller = k THEN [s[i] EXCEPT !.caller = None] ELSE s[i]
  BY DEF f
<1>7. \A j \in Callers : call'[j] = IF j = k THEN r ELSE call[j]
  BY DEF CallInv
<1> HIDE DEF f, s, t
<1>8. ASSUME NEW u \in Transports, NEW i \in DOMAIN queue[u], queue[u][i].caller = k
      PROVE  u = t
  <2>1. call[k] = Waiting(u, queue[u][i])
    BY <1>8, EngineAssumption DEF CommandInv, CommandsAwaited
  <2>2. QED
    BY <2>1 DEF Waiting, t
<1>9. ASSUME NEW u \in Transports
      PROVE  /\ DOMAIN queue'[u] = DOMAIN queue[u]
             /\ \A i \in DOMAIN queue[u] :
                   queue'[u][i] = IF queue[u][i].caller = k
                                  THEN [queue[u][i] EXCEPT !.caller = None] ELSE queue[u][i]
  <2>1. CASE u = t
    BY <1>4, <1>5, <1>6, <2>1 DEF s
  <2>2. CASE u # t
    BY <1>5, <1>8, <2>2
  <2>3. QED
    BY <2>1, <2>2
<1>10. ASSUME NEW u \in Transports, NEW i \in DOMAIN queue[u]
       PROVE  /\ queue[u][i] \in Commands
              /\ queue[u][i].caller \in Callers \cup {None}
              /\ queue[u][i].caller = k => queue'[u][i].caller = None
              /\ queue[u][i].caller # k => queue'[u][i] = queue[u][i]
              /\ queue'[u][i].op = queue[u][i].op /\ queue'[u][i].config = queue[u][i].config
              /\ queue'[u][i].id = queue[u][i].id
  <2>1. queue[u][i] \in Commands /\ queue[u][i].caller \in Callers \cup {None}
    BY CommandHasCaller DEF CommandInv
  <2>2. CASE queue[u][i].caller = k
    <3>1. queue'[u][i] = [queue[u][i] EXCEPT !.caller = None]
      BY <1>9, <2>2
    <3> HIDE DEF Commands
    <3>2. QED
      BY <2>1, <2>2, <3>1, AbandonedCommand
  <2>3. CASE queue[u][i].caller # k
    BY <1>9, <2>1, <2>3
  <2>4. QED
    BY <2>2, <2>3
<1>11. CommandsAwaited'
  <2> SUFFICES ASSUME NEW u \in Transports, NEW i \in DOMAIN queue[u],
                      queue'[u][i].caller # None
               PROVE  /\ call'[queue'[u][i].caller] = Waiting(u, queue'[u][i])
                      /\ \A j \in DOMAIN queue[u] :
                            queue'[u][j].caller = queue'[u][i].caller => j = i
    BY <1>9 DEF CommandsAwaited, Waiting
  <2>1. /\ queue[u][i].caller # k /\ queue'[u][i] = queue[u][i]
        /\ queue[u][i].caller \in Callers
    <3>1. queue[u][i].caller # k
      BY <1>10
    <3>2. queue'[u][i] = queue[u][i] /\ queue[u][i].caller \in Callers \cup {None}
      BY <1>10, <3>1
    <3>3. QED
      BY <3>1, <3>2
  <2>2. call'[queue[u][i].caller] = call[queue[u][i].caller]
    BY <1>7, <2>1
  <2>3. /\ call[queue[u][i].caller] = Waiting(u, queue[u][i])
        /\ \A j \in DOMAIN queue[u] : queue[u][j].caller = queue[u][i].caller => j = i
    BY <2>1 DEF CommandInv, CommandsAwaited
  <2>4. \A j \in DOMAIN queue[u] :
           queue'[u][j].caller = queue[u][i].caller => queue[u][j].caller = queue[u][i].caller
    BY <1>10, <2>1
  <2>5. QED
    BY <2>1, <2>2, <2>3, <2>4
<1>12. AwaitedCommands'
  <2> SUFFICES ASSUME NEW j \in Callers
               PROVE  /\ call'[j].reply # None => call'[j].pc = "await"
                      /\ call'[j].pc = "await" /\ call'[j].reply = None =>
                            \E i \in DOMAIN queue'[call'[j].t] : queue'[call'[j].t][i].caller = j
    BY DEF AwaitedCommands
  <2>1. CASE j = k
    BY <1>7, <2>1
  <2>2. CASE j # k
    <3>1. call'[j] = call[j]
      BY <1>7, <2>2
    <3>2. CASE call[j].pc = "await" /\ call[j].reply = None
      <4>1. call[j].t \in Transports
        BY <3>2 DEF CallInv, Purposeful
      <4>2. PICK i \in DOMAIN queue[call[j].t] : queue[call[j].t][i].caller = j
        BY <3>2 DEF CommandInv, AwaitedCommands
      <4>3. i \in DOMAIN queue'[call[j].t] /\ queue'[call[j].t][i].caller = j
        <5>1. DOMAIN queue'[call[j].t] = DOMAIN queue[call[j].t]
          BY <1>9, <4>1
        <5>2. queue'[call[j].t][i] = queue[call[j].t][i]
          BY <1>10, <2>2, <4>1, <4>2
        <5>3. QED
          BY <4>2, <5>1, <5>2
      <4>4. QED
        BY <3>1, <3>2, <4>3
    <3>3. QED
      BY <3>1, <3>2 DEF CommandInv, AwaitedCommands
  <2>3. QED
    BY <2>1, <2>2
<1>13. CompleteCommands'
  <2>1. ASSUME NEW j \in Callers, call'[j].pc \in {"send", "await"}
        PROVE  call'[j].op \in Ops /\ Complete(call'[j].op, call'[j].config, call'[j].id)
    BY <1>7, <2>1 DEF CommandInv, CompleteCommands
  <2>2. ASSUME NEW u \in Transports, NEW i \in DOMAIN queue'[u]
        PROVE  Complete(queue'[u][i].op, queue'[u][i].config, queue'[u][i].id)
    <3>1. i \in DOMAIN queue[u]
      BY <1>9, <2>2
    <3>2. /\ queue'[u][i].op = queue[u][i].op /\ queue'[u][i].config = queue[u][i].config
          /\ queue'[u][i].id = queue[u][i].id
      BY <1>10, <3>1
    <3>3. Complete(queue[u][i].op, queue[u][i].config, queue[u][i].id)
      BY <3>1 DEF CommandInv, CompleteCommands
    <3>4. QED
      BY <3>2, <3>3
  <2>3. QED
    BY <2>1, <2>2 DEF CompleteCommands, Complete
<1>14. QED
  BY <1>5, <1>11, <1>12, <1>13 DEF CommandInv

\* A caller that is done waiting neither sends nor waits next.
LEMMA FinishGoesOn ==
  ASSUME CallInv, NEW k \in Callers, NEW reply, call[k].pc = "await", Finish(k, reply)
  PROVE  \E r : /\ r.pc \notin {"send", "await"} /\ r.reply = None
                /\ call' = [call EXCEPT ![k] = r]
<1>1. Returned.pc = "idle" /\ Returned.reply = None
  BY DEF Returned
<1>2. Dropping(call[k].t).pc = "drop" /\ Dropping(call[k].t).reply = None
  BY DEF Dropping, Returned
<1>3. CASE call' = [call EXCEPT ![k].pc = "release", ![k].reply = None]
  <2> DEFINE r == [call[k] EXCEPT !.pc = "release", !.reply = None]
  <2>1. call[k] \in Calls
    BY DEF CallInv
  <2>2. r.pc = "release" /\ r.reply = None
    BY <2>1 DEF Calls
  <2>3. call' = [call EXCEPT ![k] = r]
    BY <1>3, <2>1 DEF CallInv, Calls
  <2> HIDE DEF r
  <2>4. QED
    BY <2>2, <2>3
<1>4. CASE call' = [call EXCEPT ![k] = Returned]
  BY <1>1, <1>4
<1>5. CASE call' = [call EXCEPT ![k] = Dropping(call[k].t)]
  BY <1>2, <1>5
<1>6. QED
  BY <1>3, <1>4, <1>5 DEF Finish

\* What a call of the API becomes on its caller's thread has no reply yet, and
\* names what its command needs.
LEMMA SendingFacts ==
  ASSUME NEW op \in Ops, NEW t, NEW c, NEW id
  PROVE  LET r == Sending(op, t, c, id) IN
         r.pc = "send" /\ r.reply = None /\ r.op = op /\ r.config = c /\ r.id = id /\ r.t = t
  BY DEF Sending

\* A call begins a command.
LEMMA NewCommandKeepsCommandInv ==
  ASSUME CallInv, CommandInv, NEW k \in Callers, NEW op \in Ops, NEW t, NEW c, NEW id,
         call[k].pc # "await", Complete(op, c, id),
         call' = [call EXCEPT ![k] = Sending(op, t, c, id)], UNCHANGED queue
  PROVE  CommandInv'
<1> DEFINE r == Sending(op, t, c, id)
<1>1. r.pc = "send" /\ r.reply = None /\ r.op = op /\ r.config = c /\ r.id = id
  BY SendingFacts
<1> HIDE DEF r
<1>2. call' = [call EXCEPT ![k] = r]
  BY DEF r
<1>3. QED
  BY <1>1, <1>2, CallerGoesOn

\* A caller without a command goes on to something else.
LEMMA OtherStateKeepsCommandInv ==
  ASSUME CallInv, CommandInv, NEW k \in Callers, NEW t, UNCHANGED queue,
         call[k].pc # "await" \/ call[k].reply # None,
         \/ call' = [call EXCEPT ![k] = Returned]
         \/ call' = [call EXCEPT ![k] = Dropping(t)]
  PROVE  CommandInv'
<1>1. Returned.pc = "idle" /\ Returned.reply = None
  BY DEF Returned
<1>2. Dropping(t).pc = "drop" /\ Dropping(t).reply = None
  BY DEF Dropping, Returned
<1>3. QED
  BY <1>1, <1>2, CallerGoesOn

\* NewCall, RegisterCall, UnregisterCall and DropCall.
LEMMA CallBeginsKeepsCommandInv ==
  ASSUME CallInv, CommandInv, NEW k \in Callers, NEW t \in Transports, NEW c \in Configs,
         \/ NewCall(k, t) \/ RegisterCall(k, t, c) \/ UnregisterCall(k, t, c) \/ DropCall(k, t)
  PROVE  CommandInv'
<1>1. CASE NewCall(k, t)
  BY <1>1, NewCommandKeepsCommandInv DEF NewCall, Ops, Complete
<1>2. CASE RegisterCall(k, t, c)
  <2> DEFINE granted == {id \in Ids : listenerConfigs'[t][id] # listenerConfigs[t][id]}
             chosen == CHOOSE id \in granted : TRUE
  <2>1. UNCHANGED queue /\ call[k].pc # "await"
    BY <1>2 DEF RegisterCall
  <2>2. CASE granted = {}
    <3>1. call' = call
      BY <1>2, <2>2 DEF RegisterCall
    <3>2. QED
      BY <2>1, <3>1 DEF CommandInv, CommandsAwaited, AwaitedCommands, CompleteCommands,
                        Complete, Waiting
  <2>3. CASE granted # {}
    <3>1. chosen \in granted
      <4> HIDE DEF granted
      <4> QED BY <2>3, Zenon
    <3>2. chosen \in Ids
      BY <3>1
    <3>3. call' = [call EXCEPT ![k] = Sending("RegisterListener", t, c, chosen)]
      BY <1>2, <2>3 DEF RegisterCall
    <3> HIDE DEF chosen
    <3>4. QED
      BY <2>1, <3>2, <3>3, NewCommandKeepsCommandInv DEF Ops, Complete
  <2>4. QED
    BY <2>2, <2>3
<1>3. CASE UnregisterCall(k, t, c)
  BY <1>3, NewCommandKeepsCommandInv DEF UnregisterCall, Ops, Complete
<1>4. CASE DropCall(k, t)
  BY <1>4, OtherStateKeepsCommandInv DEF DropCall
<1>5. QED
  BY <1>1, <1>2, <1>3, <1>4

\* The rest of a call, up to its return.
LEMMA CallStepKeepsCommandInv ==
  ASSUME EngineInv, CommandInv, NEW k \in Callers, CallStep(k) \/ AwaitTimeout(k)
  PROVE  CommandInv'
<1> USE DEF EngineInv
<1>1. CASE DropNext(k)
  <2>1. call[k].t \in Transports /\ call[k].pc # "await" /\ UNCHANGED queue
    BY <1>1 DEF CallInv, Purposeful, DropNext
  <2>2. pending[call[k].t] \subseteq Configs
    BY <2>1 DEF IInv, TypeOK
  <2>3. CASE call' = [call EXCEPT ![k] = Sending("StopVsomeipApp", call[k].t, None, None)]
    BY <2>1, <2>3, NewCommandKeepsCommandInv DEF Ops, Complete
  <2>4. ASSUME NEW c \in pending[call[k].t],
               call' = [call EXCEPT ![k] = Sending("UnregisterListener", call[k].t, c, None)]
        PROVE  CommandInv'
    BY <2>1, <2>2, <2>4, NewCommandKeepsCommandInv DEF Ops, Complete
  <2>5. QED
    BY <1>1, <2>3, <2>4 DEF DropNext
<1>2. CASE AwaitReply(k)
  <2>1. call[k].pc = "await" /\ call[k].reply # None /\ UNCHANGED queue
    BY <1>2 DEF AwaitReply
  <2>2. PICK r : /\ r.pc \notin {"send", "await"} /\ r.reply = None
                 /\ call' = [call EXCEPT ![k] = r]
    BY <1>2, FinishGoesOn DEF AwaitReply
  <2>3. QED
    BY <2>1, <2>2, CallerGoesOn
<1>3. CASE AwaitTimeout(k)
  <2>1. PICK r : /\ r.pc \notin {"send", "await"} /\ r.reply = None
                 /\ call' = [call EXCEPT ![k] = r]
    BY <1>3, FinishGoesOn DEF AwaitTimeout
  <2>2. QED
    BY <1>3, <2>1, GivingUpKeepsCommandInv DEF AwaitTimeout
<1>4. CASE ReleaseHandler(k)
  BY <1>4, OtherStateKeepsCommandInv DEF ReleaseHandler
<1>5. QED
  BY <1>1, <1>2, <1>3, <1>4 DEF CallStep

\* Whatever the command, the engine replies to its caller.
LEMMA EngineStepKeepsCommandInv ==
  ASSUME CallInv, CommandInv, NEW t \in Transports, EngineStep(t)
  PROVE  CommandInv'
<1> USE ReplyKeepsCommandInv DEF Results
<1>1. CASE register_listener_internal(t)
  BY <1>1 DEF register_listener_internal
<1>2. CASE unregister_listener_internal(t)
  BY <1>2 DEF unregister_listener_internal
<1>3. CASE start_vsomeip_app_internal(t)
  BY <1>3 DEF start_vsomeip_app_internal
<1>4. CASE stop_vsomeip_app_internal(t)
  BY <1>4 DEF stop_vsomeip_app_internal
<1>5. CASE EngineWithoutApp(t)
  BY <1>5 DEF EngineWithoutApp
<1>6. QED
  BY <1>1, <1>2, <1>3, <1>4, <1>5 DEF EngineStep

\* Every step keeps commands and callers in agreement.
LEMMA NextKeepsCommandInv ==
  ASSUME EngineInv, CommandInv, [EngineNext]_evars
  PROVE  CommandInv'
<1>1. CASE UNCHANGED <<call, queue>>
  BY <1>1 DEF CommandInv, CommandsAwaited, AwaitedCommands, CompleteCommands, Complete, Waiting
<1>2. ASSUME NEW k \in Callers, NEW t \in Transports, NewCall(k, t) \/ DropCall(k, t)
      PROVE  CommandInv'
  BY <1>2, NewCommandKeepsCommandInv, OtherStateKeepsCommandInv
  DEF NewCall, DropCall, Ops, Complete, EngineInv
<1>3. QED
  BY <1>1, <1>2, CallBeginsKeepsCommandInv, EnqueueKeepsCommandInv, CallStepKeepsCommandInv,
     EngineStepKeepsCommandInv
  DEF EngineNext, EngineInv, CallbackStep, Dispatch, engineVars, evars

\* Initially nothing is in a channel and nobody waits.
LEMMA InitEstablishesCommandInv == EngineInit => CommandInv
<1> SUFFICES ASSUME EngineInit PROVE CommandInv
  OBVIOUS
<1>1. queue \in [Transports -> Seq(Commands)] /\ \A t \in Transports : queue[t] = <<>>
  <2> HIDE DEF Commands
  <2> QED BY DEF EngineInit
<1>2. \A k \in Callers : call[k].pc = "idle" /\ call[k].reply = None
  BY DEF EngineInit, Returned
<1>3. QED
  BY <1>1, <1>2 DEF CommandInv, CommandsAwaited, AwaitedCommands, CompleteCommands

\* The invariant says what the run checks.
LEMMA CommandInvGivesReplies == EngineInv /\ CommandInv => ReplyBelongsToCall
<1> SUFFICES ASSUME EngineInv, CommandInv, NEW k \in Callers
             PROVE  /\ call[k].reply # None => call[k].pc = "await"
                    /\ call[k].pc = "await" =>
                          (call[k].reply = None
                             <=> \E i \in DOMAIN queue[call[k].t] :
                                    queue[call[k].t][i].caller = k)
  BY DEF ReplyBelongsToCall
<1>1. call[k].reply # None => call[k].pc = "await"
  BY DEF CommandInv, AwaitedCommands
<1>2. ASSUME call[k].pc = "await", NEW i \in DOMAIN queue[call[k].t],
             queue[call[k].t][i].caller = k
      PROVE  call[k].reply = None
  <2>1. call[k].t \in Transports
    BY <1>2 DEF EngineInv, CallInv, Purposeful
  <2>2. call[queue[call[k].t][i].caller] = Waiting(call[k].t, queue[call[k].t][i])
    <3>1. queue[call[k].t][i].caller # None
      BY <1>2, EngineAssumption
    <3>2. CommandsAwaited
      BY DEF CommandInv
    <3>3. QED
      BY <2>1, <3>1, <3>2, Zenon DEF CommandsAwaited
  <2>3. QED
    BY <1>2, <2>2 DEF Waiting
<1>3. QED
  BY <1>1, <1>2 DEF CommandInv, AwaitedCommands

\* A reply is only ever given to the call whose command was executed, and a
\* caller waits for nothing that is not in a channel, whoever gives up when: the
\* oneshot of an abandoned command reaches nobody.
THEOREM RepliesReachTheirCalls == EngineSpec => []ReplyBelongsToCall
<1>1. EngineInv /\ CommandInv /\ [EngineNext]_evars => EngineInv' /\ CommandInv'
  BY EngineNextIsRegistryStep, NextKeepsIInv, NextKeepsCommandInv DEF EngineInv
<1>2. QED
  BY <1>1, EngineInitEstablishesInv, InitEstablishesCommandInv, CommandInvGivesReplies, PTL
  DEF EngineSpec

-----------------------------------------------------------------------------
(* Who uses a transport, and for which configurations.                     *)

\* A call under way uses a transport that exists, and caller k registers and
\* unregisters only its own configurations, but for Drop; life is the phase of
\* the transport that r uses.
ProperUse(k, r, life) ==
    /\ r.t # None <=> r.pc # "idle"
    /\ r.op # None <=> r.pc \in {"send", "await", "release"}
    /\ r.t # None => life \in {"live", "dropping"}
    /\ r.op \in {"RegisterListener", "StartVsomeipApp"} => life = "live"
    /\ r.pc = "drop" \/ r.op = "StopVsomeipApp" => life = "dropping"
    /\ r.op \in {"RegisterListener", "UnregisterListener"} /\ life = "live"
          => r.config \in ConfigsFor[k]

\* A call that starts a transport or drops it shares it with nobody.
Exclusive(r, life) == r.t # None /\ (life = "dropping" \/ r.op = "StartVsomeipApp")

UsageInv ==
    /\ \A k \in Callers : ProperUse(k, call[k], phase[call[k].t])
    /\ \A j, k \in Callers :
          Exclusive(call[k], phase[call[k].t]) /\ call[j].t = call[k].t => j = k

\* One call changes, and with it at most the phase of a transport nobody else
\* uses.
LEMMA ChangedCallKeepsUsageInv ==
  ASSUME CallInv, UsageInv, NEW k \in Callers, NEW r,
         call' = [call EXCEPT ![k] = r],
         r.t \in Transports \cup {None},
         ProperUse(k, r, phase'[r.t]),
         \A j \in Callers : j # k /\ call[j].t # None => phase'[call[j].t] = phase[call[j].t],
         \A j \in Callers : j # k /\ call[j].t = r.t =>
             ~Exclusive(r, phase'[r.t]) /\ ~Exclusive(call[j], phase'[call[j].t])
  PROVE  UsageInv'
<1>1. \A j \in Callers : call'[j] = IF j = k THEN r ELSE call[j]
  BY DEF CallInv
<1>2. ASSUME NEW j \in Callers PROVE ProperUse(j, call'[j], phase'[call'[j].t])
  <2>1. CASE j = k
    BY <1>1, <2>1
  <2>2. CASE j # k
    <3>1. call'[j] = call[j] /\ ProperUse(j, call[j], phase[call[j].t])
      BY <1>1, <2>2 DEF UsageInv
    <3>2. CASE call[j].t # None
      BY <2>2, <3>1, <3>2
    <3>3. CASE call[j].t = None
      BY <3>1, <3>3, EngineAssumption DEF ProperUse, Ops
    <3>4. QED
      BY <3>2, <3>3
  <2>3. QED
    BY <2>1, <2>2
<1>3. ASSUME NEW i \in Callers, NEW j \in Callers,
             Exclusive(call'[j], phase'[call'[j].t]), call'[i].t = call'[j].t, i # j
      PROVE  FALSE
  <2>1. CASE j = k
    BY <1>1, <1>3, <2>1
  <2>2. CASE i = k
    BY <1>1, <1>3, <2>2
  <2>3. CASE i # k /\ j # k
    <3>1. call'[i] = call[i] /\ call'[j] = call[j] /\ call[j].t # None
      BY <1>1, <1>3, <2>3 DEF Exclusive
    <3>2. phase'[call[j].t] = phase[call[j].t]
      BY <2>3, <3>1
    <3>3. QED
      BY <1>3, <3>1, <3>2 DEF UsageInv
  <2>4. QED
    BY <2>1, <2>2, <2>3
<1>4. QED
  BY <1>2, <1>3, Zenon DEF UsageInv, ProperUse, Exclusive

\* A caller goes on with the transport it uses, or leaves it.
LEMMA SameUserKeepsUsageInv ==
  ASSUME CallInv, UsageInv, NEW k \in Callers, NEW r, UNCHANGED phase,
         call' = [call EXCEPT ![k] = r],
         r.t = call[k].t \/ r.t = None,
         r.op = "StartVsomeipApp" => call[k].op = "StartVsomeipApp",
         ProperUse(k, r, phase[r.t])
  PROVE  UsageInv'
<1>1. r.t \in Transports \cup {None}
  BY DEF CallInv, Calls
<1>2. ASSUME NEW j \in Callers, j # k, call[j].t = r.t
      PROVE  ~Exclusive(r, phase'[r.t]) /\ ~Exclusive(call[j], phase'[call[j].t])
  BY <1>2 DEF UsageInv, Exclusive
<1>3. ProperUse(k, r, phase'[r.t])
  OBVIOUS
<1>4. \A j \in Callers : j # k /\ call[j].t # None => phase'[call[j].t] = phase[call[j].t]
  OBVIOUS
<1>5. QED
  BY <1>1, <1>2, <1>3, <1>4, ChangedCallKeepsUsageInv DEF Exclusive

\* A caller that is idle begins to use a transport that has been started.
LEMMA NewUserKeepsUsageInv ==
  ASSUME CallInv, UsageInv, NEW k \in Callers, NEW t \in Transports, NEW r, UNCHANGED phase,
         call' = [call EXCEPT ![k] = r],
         r.t = t, r.op # "StartVsomeipApp", Usable(t),
         ProperUse(k, r, "live")
  PROVE  UsageInv'
<1>1. ASSUME NEW j \in Callers, j # k, call[j].t = r.t
      PROVE  ~Exclusive(r, phase'[r.t]) /\ ~Exclusive(call[j], phase'[call[j].t])
  BY <1>1 DEF Exclusive, Usable
<1>2. ProperUse(k, r, phase'[r.t]) /\ r.t \in Transports \cup {None}
  BY DEF Usable
<1>3. \A j \in Callers : j # k /\ call[j].t # None => phase'[call[j].t] = phase[call[j].t]
  OBVIOUS
<1>4. QED
  BY <1>1, <1>2, <1>3, ChangedCallKeepsUsageInv DEF Exclusive

\* NewCall, RegisterCall, UnregisterCall and DropCall.
LEMMA CallBeginsKeepsUsageInv ==
  ASSUME EngineInv, UsageInv, NEW k \in Callers, NEW t \in Transports,
         \/ NewCall(k, t) \/ DropCall(k, t)
         \/ \E c \in Configs : RegisterCall(k, t, c) \/ UnregisterCall(k, t, c)
  PROVE  UsageInv'
<1> USE DEF EngineInv
<1>0. t # None /\ phase \in [Transports -> {"absent", "live", "dropping", "gone"}]
  BY NoneAssumption DEF IInv, TypeOK
<1>1. CASE NewCall(k, t)
  <2> DEFINE r == Sending("StartVsomeipApp", t, None, None)
  <2>1. r.t = t /\ ProperUse(k, r, "live")
    BY <1>0, EngineAssumption DEF Sending, ProperUse, Ops
  <2>2. phase[t] = "absent" /\ phase' = [phase EXCEPT ![t] = "live"] /\ call' = [call EXCEPT ![k] = r]
    BY <1>1 DEF NewCall, New
  <2>3. \A j \in Callers : call[j].t # t
    BY <1>0, <2>2 DEF UsageInv, ProperUse
  <2> HIDE DEF r
  <2>4. phase'[t] = "live" /\ \A u \in Transports : u # t => phase'[u] = phase[u]
    BY <1>0, <2>2
  <2>5. \A j \in Callers : call[j].t \in Transports \cup {None}
    BY DEF CallInv, Calls
  <2>6. \A j \in Callers : j # k /\ call[j].t # None => phase'[call[j].t] = phase[call[j].t]
    BY <2>3, <2>4, <2>5
  <2>7. ProperUse(k, r, phase'[r.t]) /\ r.t \in Transports \cup {None}
    BY <2>1, <2>4
  <2>8. \A j \in Callers : call[j].t # r.t
    BY <2>1, <2>3
  <2> HIDE DEF EngineInv
  <2>9. CallInv
    BY DEF EngineInv
  <2>10. QED
    BY <2>2, <2>6, <2>7, <2>8, <2>9, ChangedCallKeepsUsageInv
<1>2. ASSUME NEW c \in Configs, RegisterCall(k, t, c) PROVE UsageInv'
  <2> DEFINE granted == {id \in Ids : listenerConfigs'[t][id] # listenerConfigs[t][id]}
             chosen == CHOOSE id \in granted : TRUE
             r == Sending("RegisterListener", t, c, chosen)
  <2>1. Usable(t) /\ c \in ConfigsFor[k] /\ UNCHANGED phase
    BY <1>2 DEF RegisterCall, Register, lifecycle
  <2>2. CASE call' = call
    BY <2>1, <2>2 DEF UsageInv, ProperUse, Exclusive
  <2>3. CASE call' = [call EXCEPT ![k] = r]
    <3> HIDE DEF chosen
    <3>1. r.t = t /\ r.op = "RegisterListener" /\ ProperUse(k, r, "live")
      BY <1>0, <2>1, EngineAssumption DEF Sending, ProperUse, Ops
    <3> HIDE DEF r
    <3>2. QED
      BY <2>1, <2>3, <3>1, NewUserKeepsUsageInv
  <2>4. QED
    BY <1>2, <2>2, <2>3 DEF RegisterCall
<1>3. ASSUME NEW c \in Configs, UnregisterCall(k, t, c) PROVE UsageInv'
  <2> DEFINE r == Sending("UnregisterListener", t, c, None)
  <2>1. Usable(t) /\ c \in ConfigsFor[k] /\ UNCHANGED phase /\ call' = [call EXCEPT ![k] = r]
    BY <1>3 DEF UnregisterCall, vars, lifecycle
  <2>2. r.t = t /\ r.op = "UnregisterListener" /\ ProperUse(k, r, "live")
    BY <1>0, <2>1, EngineAssumption DEF Sending, ProperUse, Ops
  <2> HIDE DEF r
  <2>3. QED
    BY <2>1, <2>2, NewUserKeepsUsageInv
<1>4. CASE DropCall(k, t)
  <2> DEFINE r == Dropping(t)
  <2>1. UnusedByOthers(t) /\ DropBegin(t) /\ call' = [call EXCEPT ![k] = r]
    BY <1>4 DEF DropCall
  <2>2. r.t = t /\ ProperUse(k, r, "dropping")
    BY <1>0, EngineAssumption DEF Dropping, Returned, ProperUse, Ops
  <2>3. phase'[t] = "dropping" /\ \A u \in Transports : u # t => phase'[u] = phase[u]
    BY <1>0, <2>1 DEF DropBegin
  <2>4. \A j \in Callers : call[j].t \in Transports \cup {None} /\ call[j].t # t
    BY <2>1 DEF CallInv, Calls, UnusedByOthers
  <2> HIDE DEF r
  <2>5. \A j \in Callers : j # k /\ call[j].t # None => phase'[call[j].t] = phase[call[j].t]
    BY <2>3, <2>4
  <2>6. ProperUse(k, r, phase'[r.t]) /\ r.t \in Transports \cup {None}
    BY <2>2, <2>3
  <2>7. \A j \in Callers : j # k /\ call[j].t = r.t =>
           ~Exclusive(r, phase'[r.t]) /\ ~Exclusive(call[j], phase'[call[j].t])
    BY <2>2, <2>4
  <2>8. call' = [call EXCEPT ![k] = r]
    BY <2>1
  <2>9. QED
    BY <2>5, <2>6, <2>7, <2>8, ChangedCallKeepsUsageInv DEF Exclusive
<1>5. QED
  BY <1>1, <1>2, <1>3, <1>4

\* The end of a wait: the caller leaves the transport, releases, or drops it.
LEMMA FinishKeepsUsageInv ==
  ASSUME EngineInv, UsageInv, NEW k \in Callers, NEW reply, call[k].pc = "await", Finish(k, reply)
  PROVE  UsageInv'
<1> USE DEF EngineInv
<1> DEFINE t == call[k].t
<1>0. /\ call[k] \in Calls /\ t \in Transports /\ t # None
      /\ phase \in [Transports -> {"absent", "live", "dropping", "gone"}]
      /\ ProperUse(k, call[k], phase[t])
  BY NoneAssumption DEF IInv, TypeOK, CallInv, Purposeful, UsageInv
<1>0a. Returned.t = None /\ Returned.op = None /\ \A life : ProperUse(k, Returned, life)
  BY EngineAssumption DEF Returned, ProperUse, Ops
<1>1. CASE call' = [call EXCEPT ![k] = Returned] /\ UNCHANGED phase
  BY <1>0a, <1>1, EngineAssumption, SameUserKeepsUsageInv DEF Ops
<1>2. CASE /\ call[k].op = "UnregisterListener"
           /\ call' = [call EXCEPT ![k].pc = "release", ![k].reply = None]
           /\ UNCHANGED phase
  <2> DEFINE r == [call[k] EXCEPT !.pc = "release", !.reply = None]
  <2>1. r.t = t /\ r.op = "UnregisterListener" /\ r.config = call[k].config /\ r.pc = "release"
    BY <1>0, <1>2 DEF Calls
  <2>2. call' = [call EXCEPT ![k] = r]
    BY <1>0, <1>2 DEF CallInv, Calls
  <2> HIDE DEF r
  <2>3. ProperUse(k, r, phase[r.t])
    BY <1>0, <1>2, <2>1, EngineAssumption DEF ProperUse, Ops
  <2>4. QED
    BY <1>2, <2>1, <2>2, <2>3, SameUserKeepsUsageInv
<1>3. CASE /\ call[k].op = "StartVsomeipApp"
           /\ call' = [call EXCEPT ![k] = Dropping(t)] /\ DropBegin(t)
  <2> DEFINE r == Dropping(t)
  <2>1. call' = [call EXCEPT ![k] = r] /\ DropBegin(t)
    BY <1>3
  <2>2. r.t = t /\ ProperUse(k, r, "dropping")
    BY <1>0, EngineAssumption DEF Dropping, Returned, ProperUse, Ops
  <2>3. phase'[t] = "dropping" /\ \A u \in Transports : u # t => phase'[u] = phase[u]
    BY <1>0, <2>1 DEF DropBegin
  <2>4. \A j \in Callers : call[j].t \in Transports \cup {None} /\ (j # k => call[j].t # t)
    <3>1. Exclusive(call[k], phase[t])
      BY <1>0, <1>3 DEF Exclusive
    <3>2. QED
      BY <3>1 DEF UsageInv, CallInv, Calls
  <2> HIDE DEF r
  <2>5. \A j \in Callers : j # k /\ call[j].t # None => phase'[call[j].t] = phase[call[j].t]
    BY <2>3, <2>4
  <2>6. ProperUse(k, r, phase'[r.t]) /\ r.t \in Transports \cup {None}
    BY <1>0, <2>2, <2>3
  <2>7. \A j \in Callers : j # k => call[j].t # r.t
    BY <2>2, <2>4
  <2>8. \A j \in Callers : j # k /\ call[j].t = r.t =>
           ~Exclusive(r, phase'[r.t]) /\ ~Exclusive(call[j], phase'[call[j].t])
    BY <2>7
  <2>9. call' = [call EXCEPT ![k] = r]
    BY <2>1
  <2>10. QED
    BY <2>5, <2>6, <2>8, <2>9, ChangedCallKeepsUsageInv DEF Exclusive
<1>4. CASE /\ call[k].op = "StopVsomeipApp"
           /\ call' = [call EXCEPT ![k] = Returned] /\ DropEnd(t)
  <2>1. \A j \in Callers : call[j].t \in Transports \cup {None} /\ (j # k => call[j].t # t)
    <3>1. Exclusive(call[k], phase[t])
      BY <1>0, <1>4 DEF Exclusive, DropEnd
    <3>2. QED
      BY <3>1 DEF UsageInv, CallInv, Calls
  <2>2. \A u \in Transports : u # t => phase'[u] = phase[u]
    BY <1>0, <1>4 DEF DropEnd
  <2>3. \A j \in Callers : j # k /\ call[j].t # None => phase'[call[j].t] = phase[call[j].t]
    BY <2>1, <2>2
  <2> DEFINE r == Returned
  <2>4. r.t \in Transports \cup {None} /\ ProperUse(k, r, phase'[r.t]) /\ r.t = None
    BY <1>0a
  <2>5. call' = [call EXCEPT ![k] = r]
    BY <1>4
  <2> HIDE DEF r
  <2>6. \A j \in Callers : j # k /\ call[j].t = r.t =>
           ~Exclusive(r, phase'[r.t]) /\ ~Exclusive(call[j], phase'[call[j].t])
    BY <2>4 DEF Exclusive
  <2>7. QED
    BY <2>3, <2>4, <2>5, <2>6, ChangedCallKeepsUsageInv DEF Exclusive
<1>5. QED
  BY <1>1, <1>2, <1>3, <1>4 DEF Finish, vars, lifecycle

\* The rest of a call, up to its return.
LEMMA CallStepKeepsUsageInv ==
  ASSUME EngineInv, UsageInv, NEW k \in Callers, Enqueue(k) \/ CallStep(k) \/ AwaitTimeout(k)
  PROVE  UsageInv'
<1> USE DEF EngineInv
<1> DEFINE t == call[k].t
<1>0. call[k] \in Calls /\ ProperUse(k, call[k], phase[t])
  BY DEF CallInv, UsageInv
<1>1. CASE DropNext(k)
  <2>1. call[k].pc = "drop" /\ UNCHANGED phase /\ t # None /\ phase[t] = "dropping"
    BY <1>0, <1>1 DEF DropNext, vars, lifecycle, ProperUse
  <2>2. ASSUME NEW op \in {"UnregisterListener", "StopVsomeipApp"}, NEW c,
               call' = [call EXCEPT ![k] = Sending(op, t, c, None)]
        PROVE  UsageInv'
    <3> DEFINE r == Sending(op, t, c, None)
    <3>1. r.t = t /\ r.op = op /\ ProperUse(k, r, phase[t])
      BY <2>1, EngineAssumption DEF Sending, ProperUse, Ops
    <3> HIDE DEF r
    <3>2. call' = [call EXCEPT ![k] = r] /\ ProperUse(k, r, phase[r.t])
      BY <2>2, <3>1 DEF r
    <3>3. QED
      BY <2>1, <2>2, <3>1, <3>2, SameUserKeepsUsageInv
  <2>3. QED
    BY <1>1, <2>2 DEF DropNext
<1>2. CASE Enqueue(k)
  <2> DEFINE r == [call[k] EXCEPT !.pc = "await"]
  <2>1. r.t = t /\ r.op = call[k].op /\ r.config = call[k].config /\ r.pc = "await"
    BY <1>0 DEF Calls
  <2>2. call[k].pc = "send" /\ call' = [call EXCEPT ![k] = r] /\ UNCHANGED phase
    BY <1>2 DEF Enqueue, vars, lifecycle
  <2> HIDE DEF r
  <2>3. ProperUse(k, r, phase[r.t])
    BY <1>0, <2>1, <2>2 DEF ProperUse
  <2>4. QED
    BY <2>1, <2>2, <2>3, SameUserKeepsUsageInv
<1>3. CASE AwaitReply(k) \/ AwaitTimeout(k)
  BY <1>3, FinishKeepsUsageInv DEF AwaitReply, AwaitTimeout
<1>4. CASE ReleaseHandler(k)
  <2>1. UNCHANGED phase /\ call[k].pc = "release"
    BY <1>4 DEF ReleaseHandler, Unregister, DropRelease, lifecycle
  <2>2. CASE call' = [call EXCEPT ![k] = Returned]
    <3>1. Returned.t = None /\ Returned.op = None /\ ProperUse(k, Returned, phase[Returned.t])
      BY EngineAssumption DEF Returned, ProperUse, Ops
    <3>2. QED
      BY <2>1, <2>2, <3>1, EngineAssumption, SameUserKeepsUsageInv DEF Ops
  <2>3. CASE DropRelease(t, call[k].config) /\ call' = [call EXCEPT ![k] = Dropping(t)]
    <3> DEFINE r == Dropping(t)
    <3>1. phase[t] = "dropping" /\ t # None
      BY <1>0, <2>1, <2>3 DEF DropRelease, ProperUse
    <3>2. r.t = t /\ r.op = None /\ ProperUse(k, r, phase[r.t])
      BY <3>1, EngineAssumption DEF Dropping, Returned, ProperUse, Ops
    <3> HIDE DEF r
    <3>3. QED
      BY <2>1, <2>3, <3>2, EngineAssumption, SameUserKeepsUsageInv DEF Ops, r
  <2>4. QED
    BY <1>4, <2>2, <2>3 DEF ReleaseHandler
<1>5. QED
  BY <1>1, <1>2, <1>3, <1>4 DEF CallStep

\* A reply is no new use.
LEMMA EngineStepKeepsUsageInv ==
  ASSUME EngineInv, UsageInv, NEW t \in Transports, EngineStep(t)
  PROVE  UsageInv'
<1> DEFINE k == Head(queue[t]).caller
<1>1. ASSUME NEW ops, NEW reply, TakeAndReply(t, ops, reply) PROVE UsageInv'
  <2> HIDE DEF k
  <2>1. UNCHANGED phase
    BY <1>1 DEF TakeAndReply, vars, lifecycle
  <2>2. CASE call' = call
    BY <2>1, <2>2 DEF UsageInv, ProperUse, Exclusive
  <2>3. CASE call' = [call EXCEPT ![k].reply = reply] /\ k \in Callers
    <3> DEFINE r == [call[k] EXCEPT !.reply = reply]
    <3>1. call[k] \in Calls /\ ProperUse(k, call[k], phase[call[k].t])
      BY <2>3 DEF EngineInv, CallInv, UsageInv
    <3>2. r.t = call[k].t /\ r.op = call[k].op /\ r.config = call[k].config /\ r.pc = call[k].pc
      BY <3>1 DEF Calls
    <3>3. call' = [call EXCEPT ![k] = r]
      BY <2>3
    <3> HIDE DEF r
    <3>4. ProperUse(k, r, phase[r.t])
      BY <3>1, <3>2 DEF ProperUse
    <3>5. QED
      BY <2>1, <2>3, <3>2, <3>3, <3>4, SameUserKeepsUsageInv DEF EngineInv
  <2>4. CASE call' = [call EXCEPT ![k].reply = reply] /\ k \notin Callers
    BY <2>2, <2>4 DEF EngineInv, CallInv
  <2>5. QED
    BY <1>1, <2>2, <2>3, <2>4 DEF TakeAndReply, k
<1>2. QED
  BY <1>1 DEF EngineStep, register_listener_internal, unregister_listener_internal,
     start_vsomeip_app_internal, stop_vsomeip_app_internal, EngineWithoutApp

\* Every step keeps it.
LEMMA NextKeepsUsageInv ==
  ASSUME EngineInv, UsageInv, [EngineNext]_evars
  PROVE  UsageInv'
<1>1. CASE UNCHANGED <<call, phase>>
  BY <1>1 DEF UsageInv, ProperUse, Exclusive
<1>3. ASSUME NEW k \in Callbacks,
             \/ CallbackStep(k) \/ \E a \in AppNames, key \in Keys : Dispatch(k, a, key)
      PROVE  UNCHANGED <<call, phase>>
  BY <1>3 DEF CallbackStep, Dispatch, engineVars, CallbackLookup, CallbackConvert,
     CallbackFetch, CallbackDeliver, lifecycle
<1>4. QED
  BY <1>1, <1>3, CallBeginsKeepsUsageInv, CallStepKeepsUsageInv, EngineStepKeepsUsageInv
  DEF EngineNext, evars, vars, lifecycle, engineVars

-----------------------------------------------------------------------------
(* What the calls do to the registry.                                      *)

\* register_listener takes a free id for its configuration, or nothing.
LEMMA RegisterCallGrants ==
  ASSUME EngineInv, NEW k \in Callers, NEW t \in Transports, NEW c \in Configs,
         RegisterCall(k, t, c)
  PROVE  \/ UNCHANGED <<registry, call>>
         \/ \E id \in freeIds :
               /\ freeIds' = freeIds \ {id}
               /\ listenerConfigs' = [listenerConfigs EXCEPT ![t][id] = c]
               /\ id \in Ids /\ \A u \in Transports : listenerConfigs[u][id] = None
               /\ call' = [call EXCEPT ![k] = Sending("RegisterListener", t, c, id)]
<1> USE DEF EngineInv
<1> DEFINE granted == {id \in Ids : listenerConfigs'[t][id] # listenerConfigs[t][id]}
<1>0. TypeOK /\ RegistryInv /\ c # None
  BY NoneAssumption DEF IInv
<1>1. call' = IF granted = {} THEN call
              ELSE [call EXCEPT ![k] =
                      Sending("RegisterListener", t, c, CHOOSE id \in granted : TRUE)]
  BY DEF RegisterCall
<1>2. CASE UNCHANGED registry
  <2>1. granted = {}
    BY <1>2 DEF registry
  <2>2. QED
    BY <1>1, <1>2, <2>1
<1>3. ASSUME NEW id \in Ids, get_message_handler(t, c, id, "Ok")
      PROVE  /\ id \in freeIds /\ freeIds' = freeIds \ {id}
             /\ listenerConfigs' = [listenerConfigs EXCEPT ![t][id] = c]
             /\ \A u \in Transports : listenerConfigs[u][id] = None
             /\ call' = [call EXCEPT ![k] = Sending("RegisterListener", t, c, id)]
  <2>1. /\ id \in freeIds /\ freeIds' = freeIds \ {id}
        /\ listenerConfigs' = [listenerConfigs EXCEPT ![t][id] = c]
    BY <1>3 DEF get_message_handler
  <2>2. \A u \in Transports : listenerConfigs[u][id] = None
    BY <1>0, <2>1, NoneAssumption DEF RegistryInv, PoolPartition, RoutedToOwner
  <2>3. \A i \in Ids : listenerConfigs'[t][i] = IF i = id THEN c ELSE listenerConfigs[t][i]
    BY <1>0, <2>1 DEF TypeOK
  <2>4. granted = {id}
    BY <1>0, <2>2, <2>3
  <2>5. (CHOOSE i \in granted : TRUE) = id
    <3> HIDE DEF granted
    <3> QED BY <2>4, Zenon
  <2> HIDE DEF granted
  <2>6. QED
    BY <1>1, <2>1, <2>2, <2>4, <2>5
<1>4. ASSUME NEW id \in Ids, NEW res \in GetErrors, get_message_handler(t, c, id, res)
      PROVE  UNCHANGED registry
  BY <1>0, <1>4, RefusalRollsBack
<1> HIDE DEF granted
<1>5. QED
  BY <1>2, <1>3, <1>4 DEF RegisterCall, Register, get_message_handler_exhausted, GetResults

\* unregister_listener and Drop give back the id of the configuration, if it has
\* one.
LEMMA ReleaseEffect ==
  ASSUME EngineInv, NEW k \in Callers, ReleaseHandler(k)
  PROVE  /\ call[k].t \in Transports /\ call[k].config \in Configs
         /\ call[k].op = "UnregisterListener"
         /\ \/ UNCHANGED registry
            \/ \E id \in Ids :
                  /\ listenerConfigs[call[k].t][id] = call[k].config
                  /\ listenerConfigs' = [listenerConfigs EXCEPT ![call[k].t][id] = None]
                  /\ freeIds' = freeIds \cup {id}
<1>1. /\ call[k].t \in Transports /\ call[k].config \in Configs
      /\ call[k].op = "UnregisterListener"
  BY DEF EngineInv, CallInv, Purposeful, ReleaseHandler
<1>2. QED
  BY <1>1 DEF ReleaseHandler, Unregister, DropRelease, release_message_handler,
              release_message_handler_not_found

\* Call s is the same registration as r was, if it is one; s has the engine's
\* answer to the same unregistration only if r had.
SameRegistration(r, s) ==
    s.op = "RegisterListener" =>
        r.op = "RegisterListener" /\ r.t = s.t /\ r.id = s.id /\ r.config = s.config

Answered(r) == r.op = "UnregisterListener" /\ (r.pc = "release" \/ r.reply # None)

SameAnswer(r, s) == Answered(s) => Answered(r) /\ r.t = s.t /\ r.config = s.config

\* One call changes.
LEMMA OtherCallsSame ==
  ASSUME CallInv, NEW k \in Callers, NEW r, call' = [call EXCEPT ![k] = r]
  PROVE  /\ SameRegistration(call[k], r)
              => \A j \in Callers : SameRegistration(call[j], call'[j])
         /\ SameAnswer(call[k], r) => \A j \in Callers : SameAnswer(call[j], call'[j])
<1>1. \A j \in Callers : call'[j] = IF j = k THEN r ELSE call[j]
  BY DEF CallInv
<1>2. \A j \in Callers : SameRegistration(call[j], call[j]) /\ SameAnswer(call[j], call[j])
  BY DEF SameRegistration, SameAnswer
<1>3. QED
  BY <1>1, <1>2

\* A call that begins to unregister, returns or drops registers nothing and has
\* no answer.
LEMMA FreshCalls ==
  ASSUME NEW r, NEW t, NEW c
  PROVE  /\ SameRegistration(r, Returned) /\ SameAnswer(r, Returned)
         /\ SameRegistration(r, Dropping(t)) /\ SameAnswer(r, Dropping(t))
         /\ \A op \in {"UnregisterListener", "StartVsomeipApp", "StopVsomeipApp"} :
               SameRegistration(r, Sending(op, t, c, None)) /\ SameAnswer(r, Sending(op, t, c, None))
<1>1. SameRegistration(r, Returned) /\ SameAnswer(r, Returned)
  BY EngineAssumption DEF SameRegistration, SameAnswer, Answered, Returned, Ops
<1>2. SameRegistration(r, Dropping(t)) /\ SameAnswer(r, Dropping(t))
  BY EngineAssumption DEF SameRegistration, SameAnswer, Answered, Dropping, Returned, Ops
<1>3. ASSUME NEW op \in {"UnregisterListener", "StartVsomeipApp", "StopVsomeipApp"}
      PROVE  SameRegistration(r, Sending(op, t, c, None)) /\ SameAnswer(r, Sending(op, t, c, None))
  BY DEF SameRegistration, SameAnswer, Answered, Sending
<1>4. QED
  BY <1>1, <1>2, <1>3

\* But for RegisterCall, the steps of callers begin no registration; but for
\* giving up, they answer no unregistration.
LEMMA CallersContinue ==
  ASSUME EngineInv, NEW k \in Callers, NEW t \in Transports,
         \/ NewCall(k, t) \/ DropCall(k, t) \/ (\E c \in Configs : UnregisterCall(k, t, c))
         \/ DropNext(k) \/ Enqueue(k) \/ AwaitReply(k) \/ AwaitTimeout(k) \/ ReleaseHandler(k)
  PROVE  /\ \A j \in Callers : SameRegistration(call[j], call'[j])
         /\ AwaitTimeout(k) \/ \A j \in Callers : SameAnswer(call[j], call'[j])
<1> USE DEF EngineInv
<1>0. call[k] \in Calls
  BY DEF CallInv
<1>1. ASSUME NEW r, call' = [call EXCEPT ![k] = r], SameRegistration(call[k], r),
             AwaitTimeout(k) \/ SameAnswer(call[k], r)
      PROVE  /\ \A j \in Callers : SameRegistration(call[j], call'[j])
             /\ AwaitTimeout(k) \/ \A j \in Callers : SameAnswer(call[j], call'[j])
  BY <1>1, OtherCallsSame
<1>2. CASE NewCall(k, t) \/ DropCall(k, t) \/ (\E c \in Configs : UnregisterCall(k, t, c))
  BY <1>1, <1>2, FreshCalls DEF NewCall, DropCall, UnregisterCall
<1>3. CASE DropNext(k) \/ ReleaseHandler(k)
  BY <1>1, <1>3, FreshCalls DEF DropNext, ReleaseHandler
<1>4. CASE Enqueue(k)
  <2> DEFINE r == [call[k] EXCEPT !.pc = "await"]
  <2>1. SameRegistration(call[k], r) /\ SameAnswer(call[k], r)
    BY <1>0 DEF SameRegistration, SameAnswer, Answered, Calls
  <2>2. call' = [call EXCEPT ![k] = r]
    BY <1>4 DEF Enqueue
  <2> HIDE DEF r
  <2>3. QED
    BY <1>1, <2>1, <2>2
<1>5. CASE AwaitReply(k) \/ AwaitTimeout(k)
  <2>1. CASE call' = [call EXCEPT ![k].pc = "release", ![k].reply = None]
             /\ call[k].op = "UnregisterListener"
    <3> DEFINE r == [call[k] EXCEPT !.pc = "release", !.reply = None]
    <3>1. call' = [call EXCEPT ![k] = r]
      BY <1>0, <2>1 DEF CallInv, Calls
    <3>2. SameRegistration(call[k], r)
      BY <1>0, <2>1 DEF SameRegistration, Calls
    <3>3. AwaitReply(k) => SameAnswer(call[k], r)
      BY <1>0, <2>1 DEF SameAnswer, Answered, Calls, AwaitReply
    <3> HIDE DEF r
    <3>4. QED
      BY <1>1, <1>5, <3>1, <3>2, <3>3
  <2>2. CASE call' = [call EXCEPT ![k] = Returned] \/ call' = [call EXCEPT ![k] = Dropping(call[k].t)]
    BY <1>1, <2>2, FreshCalls
  <2>3. QED
    BY <1>5, <2>1, <2>2 DEF AwaitReply, AwaitTimeout, Finish
<1>6. QED
  BY <1>2, <1>3, <1>4, <1>5

\* A reply changes nothing else.
LEMMA ReplyOnly ==
  ASSUME CallInv, NEW t \in Transports, NEW ops, NEW reply, TakeAndReply(t, ops, reply),
         NEW j \in Callers
  PROVE  /\ call'[j].pc = call[j].pc /\ call'[j].op = call[j].op /\ call'[j].t = call[j].t
         /\ call'[j].id = call[j].id /\ call'[j].config = call[j].config
         /\ j # Head(queue[t]).caller => call'[j] = call[j]
<1> DEFINE k == Head(queue[t]).caller
<1>1. call[j] \in Calls
  BY DEF CallInv
<1>2. call' = IF k = None THEN call ELSE [call EXCEPT ![k].reply = reply]
  BY DEF TakeAndReply
<1> HIDE DEF k
<1>3. CASE k = j /\ k # None
  <2>1. call'[j] = [call[j] EXCEPT !.reply = reply]
    BY <1>2, <1>3 DEF CallInv
  <2>2. QED
    BY <1>1, <1>3, <2>1 DEF Calls, k
<1>4. CASE k # j \/ k = None
  BY <1>2, <1>4 DEF CallInv, k
<1>5. QED
  BY <1>3, <1>4

\* Whatever the engine does, it is a reply and leaves the registry alone.
LEMMA EngineStepReplies ==
  ASSUME NEW t \in Transports, EngineStep(t)
  PROVE  \E ops \in SUBSET Ops, reply \in Results : TakeAndReply(t, ops, reply)
<1>0a. {"Ok", "INTERNAL", "ALREADY_EXISTS"} \subseteq Results
  BY DEF Results
<1>0b. /\ {"RegisterListener"} \in SUBSET Ops /\ {"UnregisterListener"} \in SUBSET Ops
       /\ {"StartVsomeipApp"} \in SUBSET Ops /\ {"StopVsomeipApp"} \in SUBSET Ops
       /\ {"RegisterListener", "UnregisterListener", "StopVsomeipApp"} \in SUBSET Ops
  BY DEF Ops
<1>1. CASE register_listener_internal(t)
  BY <1>0a, <1>0b, <1>1 DEF register_listener_internal
<1>2. CASE unregister_listener_internal(t)
  BY <1>0a, <1>0b, <1>2 DEF unregister_listener_internal
<1>3. CASE start_vsomeip_app_internal(t)
  BY <1>0a, <1>0b, <1>3 DEF start_vsomeip_app_internal
<1>4. CASE stop_vsomeip_app_internal(t)
  BY <1>0a, <1>0b, <1>4 DEF stop_vsomeip_app_internal
<1>5. CASE EngineWithoutApp(t)
  BY <1>0a, <1>0b, <1>5 DEF EngineWithoutApp
<1>6. QED
  BY <1>1, <1>2, <1>3, <1>4, <1>5 DEF EngineStep

-----------------------------------------------------------------------------
(* A registration under way.                                               *)

\* No two threads register or unregister the same configuration.
SeparateConfigs == \A j, k \in Callers : j # k => ConfigsFor[j] \cap ConfigsFor[k] = {}

\* The id of a registration under way is still held by its configuration.
RegisteringHolds ==
    \A k \in Callers :
        call[k].op = "RegisterListener" =>
            listenerConfigs[call[k].t][call[k].id] = call[k].config

\* What a registration or an unregistration under way names.
LEMMA ListenerCallNames ==
  ASSUME CallInv, CommandInv, UsageInv, NEW k \in Callers,
         call[k].op \in {"RegisterListener", "UnregisterListener"}
  PROVE  /\ call[k].t \in Transports /\ call[k].config \in Configs
         /\ call[k].op = "RegisterListener" => call[k].id \in Ids
         /\ phase[call[k].t] = "live" => call[k].config \in ConfigsFor[k]
         /\ call[k].op = "RegisterListener" => phase[call[k].t] = "live"
<1>1. ProperUse(k, call[k], phase[call[k].t]) /\ call[k].op # None
  BY EngineAssumption DEF UsageInv, Ops
<1>2. call[k].pc \in {"send", "await", "release"}
  BY <1>1 DEF ProperUse
<1>3. call[k].t \in Transports
  BY <1>2 DEF CallInv, Purposeful
<1>4. CASE call[k].pc = "release"
  BY <1>1, <1>3, <1>4 DEF CallInv, Purposeful, ProperUse
<1>5. CASE call[k].pc \in {"send", "await"}
  <2>1. Complete(call[k].op, call[k].config, call[k].id)
    BY <1>5 DEF CommandInv, CompleteCommands
  <2>2. QED
    BY <1>1, <1>3, <2>1 DEF Complete, ProperUse
<1>6. QED
  BY <1>2, <1>4, <1>5

\* Two calls about the same configuration of a transport are of one caller.
LEMMA OneCallerPerConfig ==
  ASSUME SeparateConfigs, CallInv, CommandInv, UsageInv, NEW j \in Callers, NEW k \in Callers,
         call[j].op \in {"RegisterListener", "UnregisterListener"},
         call[k].op \in {"RegisterListener", "UnregisterListener"},
         call[j].t = call[k].t, call[j].config = call[k].config
  PROVE  j = k
<1>1. CASE phase[call[k].t] = "live"
  <2>1. call[k].config \in ConfigsFor[j] /\ call[k].config \in ConfigsFor[k]
    BY <1>1, ListenerCallNames
  <2>2. QED
    BY <2>1 DEF SeparateConfigs
<1>2. CASE phase[call[k].t] # "live"
  <2>1. call[k].t # None
    BY ListenerCallNames, NoneAssumption
  <2>2. phase[call[k].t] = "dropping"
    BY <1>2, <2>1 DEF UsageInv, ProperUse
  <2>3. QED
    BY <2>1, <2>2 DEF UsageInv, Exclusive
<1>3. QED
  BY <1>1, <1>2

\* Steps that continue calls and leave the registry alone.
LEMMA ContinuingKeepsRegistering ==
  ASSUME RegisteringHolds, \A j \in Callers : SameRegistration(call[j], call'[j]),
         UNCHANGED registry
  PROVE  RegisteringHolds'
  BY DEF RegisteringHolds, SameRegistration, registry

\* Granting an id and releasing one leave the other registrations alone.
LEMMA RegisterCallKeepsRegistering ==
  ASSUME EngineInv, CommandInv, UsageInv, RegisteringHolds,
         NEW k \in Callers, NEW t \in Transports, NEW c \in Configs, RegisterCall(k, t, c)
  PROVE  RegisteringHolds'
<1>1. CASE UNCHANGED <<registry, call>>
  BY <1>1 DEF RegisteringHolds, registry
<1>2. ASSUME NEW id \in Ids,
             listenerConfigs' = [listenerConfigs EXCEPT ![t][id] = c],
             \A u \in Transports : listenerConfigs[u][id] = None,
             call' = [call EXCEPT ![k] = Sending("RegisterListener", t, c, id)]
      PROVE  RegisteringHolds'
  <2>0. listenerConfigs \in [Transports -> [Ids -> Configs \cup {None}]]
    BY DEF EngineInv, IInv, TypeOK
  <2>1. ASSUME NEW j \in Callers, call'[j].op = "RegisterListener"
        PROVE  listenerConfigs'[call'[j].t][call'[j].id] = call'[j].config
    <3>1. CASE j = k
      <4>1. call'[j] = Sending("RegisterListener", t, c, id)
        BY <1>2, <3>1 DEF EngineInv, CallInv
      <4>2. call'[j].t = t /\ call'[j].id = id /\ call'[j].config = c
        BY <4>1 DEF Sending
      <4>3. QED
        BY <1>2, <2>0, <4>2
    <3>2. CASE j # k
      <4>1. call'[j] = call[j] /\ call[j].op = "RegisterListener"
        BY <1>2, <2>1, <3>2 DEF EngineInv, CallInv
      <4>2. /\ call[j].t \in Transports /\ call[j].id \in Ids /\ call[j].config \in Configs
            /\ listenerConfigs[call[j].t][call[j].id] = call[j].config
        BY <4>1, ListenerCallNames DEF EngineInv, RegisteringHolds
      <4>3. call[j].id # id
        BY <1>2, <4>2, NoneAssumption
      <4>4. QED
        BY <1>2, <2>0, <4>1, <4>2, <4>3
    <3>3. QED
      BY <3>1, <3>2
  <2>2. QED
    BY <2>1 DEF RegisteringHolds
<1>3. QED
  BY <1>1, <1>2, RegisterCallGrants

\* An id is released by the only caller that may be registering it.
LEMMA ReleaseKeepsRegistering ==
  ASSUME SeparateConfigs, EngineInv, CommandInv, UsageInv, RegisteringHolds,
         NEW k \in Callers, ReleaseHandler(k), call[k].t \in Transports
  PROVE  RegisteringHolds'
<1>0. \A j \in Callers : SameRegistration(call[j], call'[j])
  BY CallersContinue
<1>1. CASE UNCHANGED registry
  BY <1>0, <1>1, ContinuingKeepsRegistering
<1>2. ASSUME NEW id \in Ids,
             listenerConfigs[call[k].t][id] = call[k].config,
             listenerConfigs' = [listenerConfigs EXCEPT ![call[k].t][id] = None]
      PROVE  RegisteringHolds'
  <2>0. listenerConfigs \in [Transports -> [Ids -> Configs \cup {None}]]
    BY DEF EngineInv, IInv, TypeOK
  <2>1. ASSUME NEW j \in Callers, call'[j].op = "RegisterListener"
        PROVE  listenerConfigs'[call'[j].t][call'[j].id] = call'[j].config
    <3>1. /\ call[j].op = "RegisterListener" /\ call'[j].t = call[j].t
          /\ call'[j].id = call[j].id /\ call'[j].config = call[j].config
      BY <1>0, <2>1 DEF SameRegistration
    <3>2. /\ call[j].t \in Transports /\ call[j].id \in Ids
          /\ listenerConfigs[call[j].t][call[j].id] = call[j].config
      BY <3>1, ListenerCallNames DEF EngineInv, RegisteringHolds
    <3>3. ~(call[j].t = call[k].t /\ call[j].id = id)
      <4> SUFFICES ASSUME call[j].t = call[k].t, call[j].id = id PROVE FALSE
        OBVIOUS
      <4>1. call[k].op = "UnregisterListener" /\ call[j].config = call[k].config
        BY <1>2, <3>2, ReleaseEffect
      <4>2. j = k
        BY <3>1, <4>1, OneCallerPerConfig DEF EngineInv
      <4>3. QED
        BY <3>1, <4>1, <4>2
    <3>4. QED
      BY <1>2, <2>0, <3>1, <3>2, <3>3
  <2>2. QED
    BY <2>1 DEF RegisteringHolds
<1>3. QED
  BY <1>1, <1>2, ReleaseEffect

\* Every step keeps it, whatever times out.
LEMMA NextKeepsRegistering ==
  ASSUME SeparateConfigs, EngineInv, CommandInv, UsageInv, RegisteringHolds, [EngineNext]_evars
  PROVE  RegisteringHolds'
<1> USE DEF EngineInv
<1>1. CASE UNCHANGED <<call, registry>>
  BY <1>1 DEF RegisteringHolds, registry
<1>2. ASSUME NEW k \in Callers, NEW t \in Transports,
             \/ NewCall(k, t) \/ DropCall(k, t) \/ (\E c \in Configs : UnregisterCall(k, t, c))
      PROVE  RegisteringHolds'
  <2>1. UNCHANGED registry
    BY <1>2 DEF NewCall, New, UnregisterCall, DropCall, DropBegin, vars, registry
  <2>2. QED
    BY <1>2, <2>1, CallersContinue, ContinuingKeepsRegistering
<1>3. ASSUME NEW k \in Callers,
             DropNext(k) \/ Enqueue(k) \/ AwaitReply(k) \/ AwaitTimeout(k) \/ ReleaseHandler(k)
      PROVE  RegisteringHolds'
  <2>1. call[k].t \in Transports
    BY <1>3 DEF DropNext, Enqueue, AwaitReply, AwaitTimeout, ReleaseHandler, CallInv, Purposeful
  <2>2. \A j \in Callers : SameRegistration(call[j], call'[j])
    BY <1>3, <2>1, CallersContinue
  <2>3. CASE ReleaseHandler(k)
    BY <2>1, <2>3, ReleaseKeepsRegistering
  <2>4. CASE DropNext(k) \/ Enqueue(k) \/ AwaitReply(k) \/ AwaitTimeout(k)
    <3>1. UNCHANGED registry
      BY <2>4 DEF DropNext, Enqueue, AwaitReply, AwaitTimeout, Finish, DropBegin, DropEnd,
                  vars, registry
    <3>2. QED
      BY <2>2, <3>1, ContinuingKeepsRegistering
  <2>5. QED
    BY <1>3, <2>3, <2>4
<1>4. ASSUME NEW t \in Transports, EngineStep(t) PROVE RegisteringHolds'
  <2>1. PICK ops \in SUBSET Ops, reply \in Results : TakeAndReply(t, ops, reply)
    BY <1>4, EngineStepReplies
  <2>2. UNCHANGED registry
    BY <2>1 DEF TakeAndReply, vars
  <2>3. \A j \in Callers : SameRegistration(call[j], call'[j])
    BY <2>1, ReplyOnly DEF SameRegistration
  <2>4. QED
    BY <2>2, <2>3, ContinuingKeepsRegistering
<1>5. ASSUME NEW k \in Callbacks,
             \/ CallbackStep(k) \/ \E a \in AppNames, key \in Keys : Dispatch(k, a, key)
      PROVE  UNCHANGED <<call, registry>>
  BY <1>5 DEF CallbackStep, Dispatch, engineVars, CallbackLookup, CallbackConvert,
     CallbackFetch, CallbackDeliver
<1>6. QED
  BY <1>1, <1>2, <1>3, <1>4, <1>5, RegisterCallKeepsRegistering
  DEF EngineNext, CallStep, evars, vars, engineVars

-----------------------------------------------------------------------------
(* Handlers.                                                               *)

\* vsomeip has handlers of the transports' applications only, and none of one
\* that does not run.
HandlerTypes ==
    /\ handlers \in [AppNames -> [Keys -> Ids \cup {None}]]
    /\ \A a \in AppNames : a \notin apps => handlers[a] = NoHandlers

\* The command the engine executes.
LEMMA HeadCommand ==
  ASSUME CommandInv, NEW t \in Transports, NEW ops, NEW reply, TakeAndReply(t, ops, reply)
  PROVE  LET cmd == Head(queue[t]) IN
         /\ 1 \in DOMAIN queue[t] /\ cmd = queue[t][1] /\ cmd \in Commands /\ cmd.op \in ops
         /\ Complete(cmd.op, cmd.config, cmd.id)
         /\ cmd.caller # None => cmd.caller \in Callers /\ call[cmd.caller] = Waiting(t, cmd)
<1>1. queue[t] \in Seq(Commands) /\ queue[t] # <<>> /\ Head(queue[t]).op \in ops
  BY DEF CommandInv, TakeAndReply
<1>2. 1 \in DOMAIN queue[t] /\ Head(queue[t]) = queue[t][1]
  BY <1>1, QueueFacts
<1>3. queue[t][1] \in Commands /\ queue[t][1].caller \in Callers \cup {None}
  BY <1>2, CommandHasCaller DEF CommandInv
<1>4. Complete(queue[t][1].op, queue[t][1].config, queue[t][1].id)
  BY <1>2 DEF CommandInv, CompleteCommands
<1>5. queue[t][1].caller # None => call[queue[t][1].caller] = Waiting(t, queue[t][1])
  <2>1. CommandsAwaited
    BY DEF CommandInv
  <2>2. QED
    BY <1>2, <2>1, Zenon DEF CommandsAwaited
<1>6. QED
  BY <1>1, <1>2, <1>3, <1>4, <1>5

\* Addresses the engine uses.
LEMMA AddressesAreKeys ==
  /\ \A t \in Transports : AppName[t] \in AppNames
  /\ \A c \in Configs : RegisterKey(c) \in Keys /\ UnregisterKey(c) \in Keys
  BY DEF AppNames, Keys

\* register_listener_internal installs one handler.
LEMMA InstallEffect ==
  ASSUME CommandInv, HandlerTypes, NEW t \in Transports, register_listener_internal(t)
  PROVE  LET cmd == Head(queue[t]) IN
         /\ cmd.op = "RegisterListener" /\ cmd.config \in Configs /\ cmd.id \in Ids
         /\ TakeAndReply(t, {"RegisterListener"}, "Ok")
         /\ AppName[t] \in apps /\ UNCHANGED apps
         /\ handlers' \in [AppNames -> [Keys -> Ids \cup {None}]]
         /\ \A a \in AppNames, key \in Keys :
               handlers'[a][key] = IF a = AppName[t] /\ key = RegisterKey(cmd.config)
                                   THEN cmd.id ELSE handlers[a][key]
<1> DEFINE cmd == Head(queue[t])
           address == RegisterKey(cmd.config)
<1>1. TakeAndReply(t, {"RegisterListener"}, "Ok") /\ AppName[t] \in apps /\ UNCHANGED apps
  BY DEF register_listener_internal
<1>2. cmd.op = "RegisterListener" /\ cmd.config \in Configs /\ cmd.id \in Ids
  BY <1>1, HeadCommand DEF Complete
<1>3. handlers' = [handlers EXCEPT ![AppName[t]][address] = cmd.id]
  BY DEF register_listener_internal
<1>4. AppName[t] \in AppNames /\ address \in Keys
  BY <1>2, AddressesAreKeys
<1> HIDE DEF address, cmd
<1>5. handlers \in [AppNames -> [Keys -> Ids \cup {None}]]
  BY DEF HandlerTypes
<1>6. /\ handlers' \in [AppNames -> [Keys -> Ids \cup {None}]]
      /\ \A a \in AppNames, key \in Keys :
            handlers'[a][key] = IF a = AppName[t] /\ key = address THEN cmd.id ELSE handlers[a][key]
  BY <1>2, <1>3, <1>4, <1>5
<1>7. QED
  BY <1>1, <1>2, <1>6 DEF address, cmd

\* unregister_listener_internal removes at most one.
LEMMA RemoveEffect ==
  ASSUME CommandInv, HandlerTypes, NEW t \in Transports, unregister_listener_internal(t)
  PROVE  LET cmd == Head(queue[t]) IN
         /\ cmd.op = "UnregisterListener" /\ cmd.config \in Configs
         /\ TakeAndReply(t, {"UnregisterListener"}, "Ok")
         /\ AppName[t] \in apps /\ UNCHANGED apps
         /\ handlers' \in [AppNames -> [Keys -> Ids \cup {None}]]
         /\ \A a \in AppNames, key \in Keys :
               handlers'[a][key] = IF a = AppName[t] /\ key = UnregisterKey(cmd.config)
                                   THEN None ELSE handlers[a][key]
<1> DEFINE cmd == Head(queue[t])
           address == UnregisterKey(cmd.config)
<1>1. TakeAndReply(t, {"UnregisterListener"}, "Ok") /\ AppName[t] \in apps /\ UNCHANGED apps
  BY DEF unregister_listener_internal
<1>2. cmd.op = "UnregisterListener" /\ cmd.config \in Configs
  BY <1>1, HeadCommand DEF Complete
<1>3. handlers' = [handlers EXCEPT ![AppName[t]][address] = None]
  BY DEF unregister_listener_internal
<1>4. AppName[t] \in AppNames /\ address \in Keys
  BY <1>2, AddressesAreKeys
<1> HIDE DEF address, cmd
<1>5. handlers \in [AppNames -> [Keys -> Ids \cup {None}]]
  BY DEF HandlerTypes
<1>6. /\ handlers' \in [AppNames -> [Keys -> Ids \cup {None}]]
      /\ \A a \in AppNames, key \in Keys :
            handlers'[a][key] = IF a = AppName[t] /\ key = address THEN None ELSE handlers[a][key]
  BY <1>2, <1>3, <1>4, <1>5
<1>7. QED
  BY <1>1, <1>2, <1>6 DEF address, cmd

\* stop_vsomeip_app_internal removes all.
LEMMA StopEffect ==
  ASSUME HandlerTypes, NEW t \in Transports, stop_vsomeip_app_internal(t)
  PROVE  /\ TakeAndReply(t, {"StopVsomeipApp"}, "Ok")
         /\ apps' = apps \ {AppName[t]}
         /\ handlers' \in [AppNames -> [Keys -> Ids \cup {None}]]
         /\ handlers'[AppName[t]] = NoHandlers
         /\ \A a \in AppNames : a # AppName[t] => handlers'[a] = handlers[a]
<1>1. NoHandlers \in [Keys -> Ids \cup {None}]
  BY DEF NoHandlers
<1>2. /\ TakeAndReply(t, {"StopVsomeipApp"}, "Ok")
      /\ apps' = apps \ {AppName[t]}
      /\ handlers' = [handlers EXCEPT ![AppName[t]] = NoHandlers]
  BY DEF stop_vsomeip_app_internal
<1>3. QED
  BY <1>1, <1>2, AddressesAreKeys DEF HandlerTypes

\* Starting an application, and commands for one that does not run, install and
\* remove nothing.
LEMMA OtherEngineStepsEffect ==
  ASSUME NEW t \in Transports, start_vsomeip_app_internal(t) \/ EngineWithoutApp(t)
  PROVE  UNCHANGED handlers /\ apps \subseteq apps'
  BY DEF start_vsomeip_app_internal, EngineWithoutApp

\* Every step keeps the types of the handlers.
LEMMA NextKeepsHandlerTypes ==
  ASSUME CommandInv, HandlerTypes, [EngineNext]_evars
  PROVE  HandlerTypes'
<1> USE DEF HandlerTypes
<1>1. CASE UNCHANGED handlers /\ apps \subseteq apps'
  <2>1. UNCHANGED <<AppNames, Keys, NoHandlers>>
    BY DEF AppNames, Keys, NoHandlers
  <2>2. QED
    BY <1>1, <2>1
<1>2. ASSUME NEW t \in Transports, EngineStep(t) PROVE HandlerTypes'
  <2>1. CASE register_listener_internal(t)
    <3>1. handlers' \in [AppNames -> [Keys -> Ids \cup {None}]] /\ AppName[t] \in apps /\ apps' = apps
      BY <2>1, InstallEffect
    <3>2. \A a \in AppNames : a # AppName[t] => handlers'[a] = handlers[a]
      BY <2>1 DEF register_listener_internal
    <3>3. QED
      BY <3>1, <3>2
  <2>2. CASE unregister_listener_internal(t)
    <3>1. handlers' \in [AppNames -> [Keys -> Ids \cup {None}]] /\ AppName[t] \in apps /\ apps' = apps
      BY <2>2, RemoveEffect
    <3>2. \A a \in AppNames : a # AppName[t] => handlers'[a] = handlers[a]
      BY <2>2 DEF unregister_listener_internal
    <3>3. QED
      BY <3>1, <3>2
  <2>3. CASE stop_vsomeip_app_internal(t)
    <3>1. /\ handlers' \in [AppNames -> [Keys -> Ids \cup {None}]]
          /\ handlers'[AppName[t]] = NoHandlers /\ apps' = apps \ {AppName[t]}
          /\ \A a \in AppNames : a # AppName[t] => handlers'[a] = handlers[a]
      BY <2>3, StopEffect
    <3>2. QED
      BY <3>1
  <2>4. QED
    BY <1>1, <1>2, <2>1, <2>2, <2>3, OtherEngineStepsEffect DEF EngineStep
<1>3. ASSUME NEW k \in Callers, NEW t \in Transports,
             \/ NewCall(k, t) \/ DropCall(k, t)
             \/ \E c \in Configs : RegisterCall(k, t, c) \/ UnregisterCall(k, t, c)
      PROVE  UNCHANGED <<handlers, apps>>
  BY <1>3 DEF NewCall, DropCall, RegisterCall, UnregisterCall
<1>4. ASSUME NEW k \in Callers, Enqueue(k) \/ CallStep(k) \/ AwaitTimeout(k)
      PROVE  UNCHANGED <<handlers, apps>>
  BY <1>4 DEF Enqueue, CallStep, DropNext, AwaitReply, ReleaseHandler, AwaitTimeout
<1>5. ASSUME NEW k \in Callbacks,
             \/ CallbackStep(k) \/ \E a \in AppNames, key \in Keys : Dispatch(k, a, key)
      PROVE  UNCHANGED <<handlers, apps>>
  BY <1>5 DEF CallbackStep, Dispatch, engineVars
<1>6. QED
  BY <1>1, <1>2, <1>3, <1>4, <1>5 DEF EngineNext, evars, engineVars

\* What the guarantees below rest on: no call outlasts INTERNAL_FUNCTION_TIMEOUT,
\* no two threads register or unregister the same configuration, and a listener
\* is removed under the address it was installed for.
Undisturbed ==
    /\ ~MayTimeout
    /\ SeparateConfigs
    /\ \A c \in Configs : RegisterKey(c) = UnregisterKey(c)

NobodyGaveUp == \A t \in Transports : \A i \in DOMAIN queue[t] : queue[t][i].caller # None

\* Once the engine has answered an unregistration, vsomeip has no handler left
\* that leads to its configuration.
Cleared(t, c) ==
    \A a \in AppNames, key \in Keys :
        handlers[a][key] # None => listenerConfigs[t][handlers[a][key]] # c

UnregisteringClears ==
    \A k \in Callers : Answered(call[k]) => Cleared(call[k].t, call[k].config)

\* The invariant: unregistering removes the handler before it releases the id,
\* and registering holds the id before it installs the handler.
HandlerInv ==
    /\ RegisteringHolds /\ HandlerTypes /\ NobodyGaveUp
    /\ UnregisteringClears /\ HandlersLeadToListeners

BaseInv == EngineInv /\ CommandInv /\ UsageInv

\* A step that changes no handler, and for no id with a handler its
\* configuration, and answers no unregistration.
LEMMA SameViewKeepsLead ==
  ASSUME HandlersLeadToListeners, UnregisteringClears, UNCHANGED handlers,
         \A j \in Callers : SameAnswer(call[j], call'[j]),
         \A j \in Callers : Answered(call'[j]) => call'[j].t \in Transports,
         \A u \in Transports, a \in AppNames, key \in Keys :
            handlers[a][key] # None =>
                listenerConfigs'[u][handlers[a][key]] = listenerConfigs[u][handlers[a][key]]
  PROVE  HandlersLeadToListeners' /\ UnregisteringClears'
<1>1. HandlersLeadToListeners'
  BY DEF HandlersLeadToListeners
<1>2. ASSUME NEW j \in Callers, Answered(call'[j]), NEW a \in AppNames, NEW key \in Keys,
             handlers[a][key] # None
      PROVE  listenerConfigs'[call'[j].t][handlers[a][key]] # call'[j].config
  <2>1. /\ Answered(call[j]) /\ call[j].t = call'[j].t /\ call[j].config = call'[j].config
        /\ call'[j].t \in Transports
    BY <1>2 DEF SameAnswer
  <2>2. listenerConfigs[call[j].t][handlers[a][key]] # call[j].config
    BY <1>2, <2>1 DEF UnregisteringClears, Cleared
  <2>3. QED
    BY <1>2, <2>1, <2>2
<1>3. QED
  BY <1>1, <1>2 DEF UnregisteringClears, Cleared, Answered

\* An answered unregistration knows its transport.
LEMMA AnsweredNames ==
  ASSUME CallInv, CommandInv, UsageInv, NEW j \in Callers, Answered(call[j])
  PROVE  call[j].t \in Transports /\ call[j].config \in Configs
  BY ListenerCallNames DEF Answered

\* The same after a step of the callers, and then answers are the same.
LEMMA AnswersStay ==
  ASSUME BaseInv, \A j \in Callers : SameAnswer(call[j], call'[j])
  PROVE  \A j \in Callers : Answered(call'[j]) => call'[j].t \in Transports
  BY AnsweredNames DEF BaseInv, EngineInv, SameAnswer

\* A grant: the id was free, so that no handler led to it.
LEMMA RegisterCallKeepsLead ==
  ASSUME BaseInv, HandlerInv, NEW k \in Callers, NEW t \in Transports, NEW c \in Configs,
         RegisterCall(k, t, c)
  PROVE  HandlersLeadToListeners' /\ UnregisteringClears'
<1> USE DEF BaseInv, HandlerInv
<1>0. UNCHANGED handlers
  BY DEF RegisterCall
<1>1. CASE UNCHANGED <<registry, call>>
  <2>1. \A j \in Callers : SameAnswer(call[j], call'[j])
    BY <1>1 DEF SameAnswer
  <2>2. QED
    BY <1>0, <1>1, <2>1, AnswersStay, SameViewKeepsLead DEF registry
<1>2. ASSUME NEW id \in Ids,
             listenerConfigs' = [listenerConfigs EXCEPT ![t][id] = c],
             \A u \in Transports : listenerConfigs[u][id] = None,
             call' = [call EXCEPT ![k] = Sending("RegisterListener", t, c, id)]
      PROVE  HandlersLeadToListeners' /\ UnregisteringClears'
  <2>0. /\ listenerConfigs \in [Transports -> [Ids -> Configs \cup {None}]]
        /\ handlers \in [AppNames -> [Keys -> Ids \cup {None}]]
    BY DEF EngineInv, IInv, TypeOK, HandlerTypes
  <2>1. ASSUME NEW u \in Transports, NEW a \in AppNames, NEW key \in Keys, handlers[a][key] # None
        PROVE  listenerConfigs'[u][handlers[a][key]] = listenerConfigs[u][handlers[a][key]]
    <3>1. handlers[a][key] # id /\ handlers[a][key] \in Ids
      BY <1>2, <2>0, <2>1 DEF HandlersLeadToListeners
    <3>2. QED
      BY <1>2, <2>0, <3>1
  <2>2. SameAnswer(call[k], Sending("RegisterListener", t, c, id))
    BY DEF SameAnswer, Answered, Sending
  <2>3. \A j \in Callers : SameAnswer(call[j], call'[j])
    BY <1>2, <2>2, OtherCallsSame DEF EngineInv
  <2>4. QED
    BY <1>0, <2>1, <2>3, AnswersStay, SameViewKeepsLead
<1>3. QED
  BY <1>1, <1>2, RegisterCallGrants

\* A release: the engine has answered, so that no handler leads to the id.
LEMMA ReleaseKeepsLead ==
  ASSUME BaseInv, HandlerInv, NEW k \in Callers, ReleaseHandler(k)
  PROVE  HandlersLeadToListeners' /\ UnregisteringClears'
<1> USE DEF BaseInv, HandlerInv
<1>0. UNCHANGED handlers /\ call[k].pc = "release"
  BY DEF ReleaseHandler
<1>0a. /\ call[k].t \in Transports /\ call[k].config \in Configs
       /\ call[k].op = "UnregisterListener"
  BY ReleaseEffect
<1>0b. \A j \in Callers : SameAnswer(call[j], call'[j])
  <2>1. ~AwaitTimeout(k)
    BY <1>0 DEF AwaitTimeout
  <2>2. QED
    BY <1>0a, <2>1, CallersContinue
<1>1. CASE UNCHANGED registry
  BY <1>0, <1>0b, <1>1, AnswersStay, SameViewKeepsLead DEF registry
<1>2. ASSUME NEW id \in Ids,
             listenerConfigs[call[k].t][id] = call[k].config,
             listenerConfigs' = [listenerConfigs EXCEPT ![call[k].t][id] = None]
      PROVE  HandlersLeadToListeners' /\ UnregisteringClears'
  <2>0. /\ listenerConfigs \in [Transports -> [Ids -> Configs \cup {None}]]
        /\ handlers \in [AppNames -> [Keys -> Ids \cup {None}]]
    BY DEF EngineInv, IInv, TypeOK, HandlerTypes
  <2>1. Cleared(call[k].t, call[k].config)
    BY <1>0, <1>0a DEF UnregisteringClears, Answered
  <2>2. ASSUME NEW u \in Transports, NEW a \in AppNames, NEW key \in Keys, handlers[a][key] # None
        PROVE  listenerConfigs'[u][handlers[a][key]] = listenerConfigs[u][handlers[a][key]]
    <3>1. handlers[a][key] # id /\ handlers[a][key] \in Ids
      BY <1>2, <2>0, <2>1, <2>2 DEF Cleared
    <3>2. QED
      BY <1>0a, <1>2, <2>0, <3>1
  <2>3. QED
    BY <1>0, <1>0b, <2>2, AnswersStay, SameViewKeepsLead
<1>3. QED
  BY <1>1, <1>2, ReleaseEffect

\* A handler that leads to a configuration is at its address.
LEMMA HandlerAtItsAddress ==
  ASSUME BaseInv, HandlerInv, NEW t \in Transports, NEW c \in Configs,
         NEW a \in AppNames, NEW key \in Keys,
         handlers[a][key] # None, listenerConfigs[t][handlers[a][key]] = c
  PROVE  a = AppName[t] /\ key = RegisterKey(c)
<1> USE DEF BaseInv, HandlerInv
<1>1. PICK u \in Transports :
         /\ AppName[u] = a
         /\ listenerConfigs[u][handlers[a][key]] # None
         /\ RegisterKey(listenerConfigs[u][handlers[a][key]]) = key
  BY DEF HandlersLeadToListeners
<1>2. handlers[a][key] \in Ids
  BY DEF HandlerTypes
<1>3. RoutedToOwner /\ c # None
  BY NoneAssumption DEF EngineInv, IInv, RegistryInv
<1>4. u = t
  BY <1>1, <1>2, <1>3 DEF RoutedToOwner
<1>5. QED
  BY <1>1, <1>4

\* The engine installs a handler for the registration it executes.
LEMMA InstallKeepsLead ==
  ASSUME SeparateConfigs, BaseInv, HandlerInv, NEW t \in Transports, register_listener_internal(t)
  PROVE  HandlersLeadToListeners' /\ UnregisteringClears'
<1> USE DEF BaseInv, HandlerInv
<1> DEFINE cmd == Head(queue[t])
           k == cmd.caller
<1>1. /\ TakeAndReply(t, {"RegisterListener"}, "Ok") /\ UNCHANGED listenerConfigs
      /\ cmd.op = "RegisterListener" /\ cmd.config \in Configs /\ cmd.id \in Ids
      /\ \A a \in AppNames, key \in Keys :
            handlers'[a][key] = IF a = AppName[t] /\ key = RegisterKey(cmd.config)
                                THEN cmd.id ELSE handlers[a][key]
  <2>1. TakeAndReply(t, {"RegisterListener"}, "Ok")
    BY DEF register_listener_internal
  <2>2. UNCHANGED listenerConfigs
    BY <2>1 DEF TakeAndReply, vars, registry
  <2>3. QED
    BY <2>1, <2>2, InstallEffect
<1>2. k # None
  <2>1. 1 \in DOMAIN queue[t] /\ cmd = queue[t][1]
    BY <1>1, HeadCommand
  <2>2. QED
    BY <2>1 DEF NobodyGaveUp
<1>3. k \in Callers /\ call[k] = Waiting(t, cmd)
  BY <1>1, <1>2, HeadCommand
<1>4. /\ call[k].op = "RegisterListener" /\ call[k].t = t /\ call[k].config = cmd.config
      /\ listenerConfigs[t][cmd.id] = cmd.config
  BY <1>1, <1>3 DEF Waiting, RegisteringHolds
<1>5. \A j \in Callers : Answered(call'[j]) => Answered(call[j]) /\ call'[j] = call[j]
  BY <1>1, <1>4, ReplyOnly DEF Answered, EngineInv
<1> HIDE DEF cmd, k
<1>6. HandlersLeadToListeners'
  <2> SUFFICES ASSUME NEW a \in AppNames, NEW key \in Keys, handlers'[a][key] # None
               PROVE  \E u \in Transports :
                         /\ AppName[u] = a
                         /\ LET c == listenerConfigs[u][handlers'[a][key]] IN
                            c # None /\ RegisterKey(c) = key
    BY <1>1 DEF HandlersLeadToListeners
  <2>1. CASE a = AppName[t] /\ key = RegisterKey(cmd.config)
    BY <1>1, <1>4, <2>1, NoneAssumption
  <2>2. CASE ~(a = AppName[t] /\ key = RegisterKey(cmd.config))
    BY <1>1, <2>2 DEF HandlersLeadToListeners
  <2>3. QED
    BY <2>1, <2>2
<1>7. UnregisteringClears'
  <2> SUFFICES ASSUME NEW j \in Callers, Answered(call'[j]), NEW a \in AppNames, NEW key \in Keys,
                      handlers'[a][key] # None
               PROVE  listenerConfigs[call'[j].t][handlers'[a][key]] # call'[j].config
    BY <1>1 DEF UnregisteringClears, Cleared, Answered
  <2>1. /\ Answered(call[j]) /\ call'[j] = call[j] /\ Cleared(call[j].t, call[j].config)
        /\ call[j].t \in Transports /\ call[j].config \in Configs
    BY <1>5, AnsweredNames DEF UnregisteringClears, EngineInv
  <2>2. CASE a = AppName[t] /\ key = RegisterKey(cmd.config)
    <3> SUFFICES ASSUME listenerConfigs[call[j].t][cmd.id] = call[j].config PROVE FALSE
      BY <1>1, <2>1, <2>2
    <3>1. RoutedToOwner /\ call[j].config # None /\ cmd.config # None
      BY <1>1, <2>1, NoneAssumption DEF EngineInv, IInv, RegistryInv
    <3>2. call[j].t = t
      BY <1>1, <1>4, <2>1, <3>1 DEF RoutedToOwner
    <3>3. call[j].config = call[k].config /\ call[j].t = call[k].t
      BY <1>4, <3>2
    <3>4. j = k
      BY <1>3, <1>4, <2>1, <3>3, OneCallerPerConfig DEF EngineInv, Answered
    <3>5. QED
      BY <1>4, <2>1, <3>4 DEF Answered
  <2>3. CASE ~(a = AppName[t] /\ key = RegisterKey(cmd.config))
    BY <1>1, <2>1, <2>3 DEF Cleared
  <2>4. QED
    BY <2>2, <2>3
<1>8. QED
  BY <1>6, <1>7

\* Any other command leaves fewer handlers, and none to the configuration it
\* unregisters.
LEMMA OtherCommandsKeepLead ==
  ASSUME Undisturbed, BaseInv, HandlerInv, NEW t \in Transports,
         \/ unregister_listener_internal(t) \/ start_vsomeip_app_internal(t)
         \/ stop_vsomeip_app_internal(t) \/ EngineWithoutApp(t)
  PROVE  HandlersLeadToListeners' /\ UnregisteringClears'
<1> USE DEF BaseInv, HandlerInv
<1> DEFINE cmd == Head(queue[t])
           k == cmd.caller
<1>1. PICK ops \in SUBSET Ops, reply \in Results : TakeAndReply(t, ops, reply)
  BY EngineStepReplies DEF EngineStep
<1>2. UNCHANGED listenerConfigs
  BY <1>1 DEF TakeAndReply, vars, registry
<1>3. ASSUME NEW a \in AppNames, NEW key \in Keys, handlers'[a][key] # None
      PROVE  handlers'[a][key] = handlers[a][key]
  <2>1. CASE unregister_listener_internal(t)
    BY <1>3, <2>1, RemoveEffect
  <2>2. CASE stop_vsomeip_app_internal(t)
    <3>1. CASE a = AppName[t]
      BY <1>3, <2>2, <3>1, StopEffect DEF NoHandlers
    <3>2. CASE a # AppName[t]
      BY <2>2, <3>2, StopEffect
    <3>3. QED
      BY <3>1, <3>2
  <2>3. CASE start_vsomeip_app_internal(t) \/ EngineWithoutApp(t)
    BY <2>3, OtherEngineStepsEffect
  <2>4. QED
    BY <2>1, <2>2, <2>3
<1>4. HandlersLeadToListeners'
  BY <1>2, <1>3 DEF HandlersLeadToListeners
<1>5. ASSUME k \in Callers, Answered(call'[k]), NEW a \in AppNames, NEW key \in Keys,
             handlers'[a][key] # None, listenerConfigs[call'[k].t][handlers'[a][key]] = call'[k].config
      PROVE  FALSE
  <2>1. call[k] = Waiting(t, cmd)
    BY <1>1, <1>5, HeadCommand, EngineAssumption
  <2>2. call'[k].t = t /\ call'[k].config = cmd.config /\ cmd.op = "UnregisterListener"
    <3>1. call[k].t = t /\ call[k].config = cmd.config /\ call[k].op = cmd.op
      BY <2>1 DEF Waiting
    <3> HIDE DEF k
    <3>2. call'[k].t = call[k].t /\ call'[k].config = call[k].config /\ call'[k].op = call[k].op
      BY <1>1, <1>5, ReplyOnly DEF EngineInv
    <3>3. QED
      BY <1>5, <3>1, <3>2 DEF Answered
  <2>3. cmd.config \in Configs
    BY <1>1, <2>2, HeadCommand DEF Complete
  <2>4. handlers[a][key] = handlers'[a][key]
    BY <1>3, <1>5
  <2> HIDE DEF cmd, k
  <2>5. a = AppName[t] /\ key = RegisterKey(cmd.config) /\ key = UnregisterKey(cmd.config)
    BY <1>5, <2>2, <2>3, <2>4, HandlerAtItsAddress DEF Undisturbed
  <2>6. CASE unregister_listener_internal(t)
    BY <1>5, <2>5, <2>6, RemoveEffect DEF cmd
  <2>7. CASE stop_vsomeip_app_internal(t)
    BY <1>5, <2>5, <2>7, StopEffect DEF NoHandlers
  <2>8. CASE EngineWithoutApp(t)
    <3>1. handlers[a] = NoHandlers
      BY <2>5, <2>8 DEF EngineWithoutApp, HandlerTypes
    <3>2. QED
      BY <1>5, <2>4, <3>1 DEF NoHandlers
  <2>9. CASE start_vsomeip_app_internal(t)
    BY <2>2, <2>9 DEF start_vsomeip_app_internal, TakeAndReply, cmd
  <2>10. QED
    BY <2>6, <2>7, <2>8, <2>9
<1>6. UnregisteringClears'
  <2> SUFFICES ASSUME NEW j \in Callers, Answered(call'[j]), NEW a \in AppNames, NEW key \in Keys,
                      handlers'[a][key] # None
               PROVE  listenerConfigs[call'[j].t][handlers'[a][key]] # call'[j].config
    BY <1>2 DEF UnregisteringClears, Cleared, Answered
  <2>1. CASE j = k
    BY <1>5, <2>1
  <2>2. CASE j # k
    <3>1. call'[j] = call[j]
      BY <1>1, <2>2, ReplyOnly DEF EngineInv
    <3>2. Cleared(call[j].t, call[j].config)
      BY <3>1 DEF UnregisteringClears
    <3>3. QED
      BY <1>3, <3>1, <3>2 DEF Cleared
  <2>3. QED
    BY <2>1, <2>2
<1>7. QED
  BY <1>4, <1>6

\* When nobody gives up, every command in a channel has a caller.
LEMMA NextKeepsCallers ==
  ASSUME ~MayTimeout, CallInv, CommandInv, NobodyGaveUp, [EngineNext]_evars
  PROVE  NobodyGaveUp'
<1>1. CASE UNCHANGED queue
  BY <1>1 DEF NobodyGaveUp
<1>2. ASSUME NEW k \in Callers, Enqueue(k) PROVE NobodyGaveUp'
  <2> DEFINE t == call[k].t
             s == queue[t]
             cmd == [op |-> call[k].op, config |-> call[k].config, id |-> call[k].id, caller |-> k]
  <2>1. t \in Transports /\ queue' = [queue EXCEPT ![t] = Append(s, cmd)] /\ call[k].pc = "send"
    BY <1>2 DEF Enqueue, CallInv, Purposeful
  <2>2. s \in Seq(Commands) /\ call[k].op \in Ops /\ call[k] \in Calls
    BY <2>1 DEF CommandInv, CompleteCommands, CallInv
  <2>3. cmd \in Commands /\ cmd.caller # None
    BY <2>2, EngineAssumption DEF Commands, Calls
  <2> HIDE DEF cmd
  <2>4. /\ queue'[t] = Append(s, cmd) /\ \A u \in Transports : u # t => queue'[u] = queue[u]
    BY <2>1 DEF CommandInv
  <2>5. /\ DOMAIN Append(s, cmd) = 1 .. (Len(s) + 1) /\ DOMAIN s = 1 .. Len(s) /\ Len(s) \in Nat
        /\ \A i \in 1 .. Len(s) : Append(s, cmd)[i] = s[i]
        /\ Append(s, cmd)[Len(s) + 1] = cmd
    BY <2>2, <2>3, QueueFacts
  <2> HIDE DEF s, t
  <2>6. ASSUME NEW u \in Transports, NEW i \in DOMAIN queue'[u] PROVE queue'[u][i].caller # None
    <3>1. CASE u # t
      BY <2>4, <3>1 DEF NobodyGaveUp
    <3>2. CASE u = t
      <4>1. i \in 1 .. (Len(s) + 1)
        BY <2>4, <2>5, <3>2
      <4>2. CASE i = Len(s) + 1
        BY <2>3, <2>4, <2>5, <3>2, <4>2
      <4>3. CASE i # Len(s) + 1
        <5>1. i \in 1 .. Len(s)
          BY <2>5, <4>1, <4>3
        <5>2. queue'[u][i] = queue[u][i] /\ i \in DOMAIN queue[u]
          BY <2>4, <2>5, <3>2, <5>1 DEF s
        <5>3. QED
          BY <5>2 DEF NobodyGaveUp
      <4>4. QED
        BY <4>2, <4>3
    <3>3. QED
      BY <3>1, <3>2
  <2>7. QED
    BY <2>6 DEF NobodyGaveUp
<1>3. ASSUME NEW t \in Transports, EngineStep(t) PROVE NobodyGaveUp'
  <2> DEFINE s == queue[t]
  <2>1. PICK ops \in SUBSET Ops, reply \in Results : TakeAndReply(t, ops, reply)
    BY <1>3, EngineStepReplies
  <2>2. s \in Seq(Commands) /\ s # <<>> /\ queue' = [queue EXCEPT ![t] = Tail(s)]
    BY <2>1 DEF TakeAndReply, CommandInv
  <2>3. /\ queue'[t] = Tail(s) /\ \A u \in Transports : u # t => queue'[u] = queue[u]
    BY <2>2 DEF CommandInv
  <2>4. /\ DOMAIN Tail(s) = 1 .. (Len(s) - 1) /\ DOMAIN s = 1 .. Len(s) /\ Len(s) \in Nat
        /\ \A i \in 1 .. (Len(s) - 1) : Tail(s)[i] = s[i + 1]
    BY <2>2, QueueFacts
  <2> HIDE DEF s
  <2>5. ASSUME NEW u \in Transports, NEW i \in DOMAIN queue'[u] PROVE queue'[u][i].caller # None
    <3>1. CASE u # t
      BY <2>3, <3>1 DEF NobodyGaveUp
    <3>2. CASE u = t
      <4>0. i \in 1 .. (Len(s) - 1)
        BY <2>3, <2>4, <3>2
      <4>1. i \in 1 .. (Len(s) - 1) /\ i + 1 \in DOMAIN s
        <5>1. i + 1 \in 1 .. Len(s)
          BY <2>4, <4>0
        <5>2. QED
          BY <2>4, <4>0, <5>1
      <4>2. queue'[u][i] = queue[t][i + 1]
        BY <2>3, <2>4, <3>2, <4>1 DEF s
      <4>3. QED
        BY <4>1, <4>2 DEF NobodyGaveUp, s
    <3>3. QED
      BY <3>1, <3>2
  <2>6. QED
    BY <2>5 DEF NobodyGaveUp
<1>4. ASSUME NEW k \in Callers, NEW t \in Transports,
             \/ NewCall(k, t) \/ DropCall(k, t)
             \/ \E c \in Configs : RegisterCall(k, t, c) \/ UnregisterCall(k, t, c)
      PROVE  UNCHANGED queue
  BY <1>4 DEF NewCall, DropCall, RegisterCall, UnregisterCall
<1>5. ASSUME NEW k \in Callers, CallStep(k) \/ AwaitTimeout(k) PROVE UNCHANGED queue
  BY <1>5 DEF CallStep, DropNext, AwaitReply, ReleaseHandler, AwaitTimeout
<1>6. ASSUME NEW k \in Callbacks,
             \/ CallbackStep(k) \/ \E a \in AppNames, key \in Keys : Dispatch(k, a, key)
      PROVE  UNCHANGED queue
  BY <1>6 DEF CallbackStep, Dispatch, engineVars
<1>7. QED
  BY <1>1, <1>2, <1>3, <1>4, <1>5, <1>6 DEF EngineNext, evars, engineVars

\* Every step keeps handlers leading to listeners.
LEMMA NextKeepsLead ==
  ASSUME Undisturbed, BaseInv, HandlerInv, [EngineNext]_evars
  PROVE  HandlersLeadToListeners' /\ UnregisteringClears'
<1> USE DEF BaseInv, HandlerInv
<1>0. ASSUME UNCHANGED <<handlers, registry>>, \A j \in Callers : SameAnswer(call[j], call'[j])
      PROVE  HandlersLeadToListeners' /\ UnregisteringClears'
  BY <1>0, AnswersStay, SameViewKeepsLead DEF registry
<1>1. CASE UNCHANGED <<handlers, registry, call>>
  BY <1>0, <1>1 DEF SameAnswer
<1>2. ASSUME NEW k \in Callers, NEW t \in Transports,
             \/ NewCall(k, t) \/ DropCall(k, t) \/ (\E c \in Configs : UnregisterCall(k, t, c))
      PROVE  HandlersLeadToListeners' /\ UnregisteringClears'
  <2>1. UNCHANGED <<handlers, registry>> /\ call[k].pc = "idle"
    BY <1>2 DEF NewCall, New, UnregisterCall, DropCall, DropBegin, vars, registry
  <2>2. ~AwaitTimeout(k)
    BY <2>1 DEF AwaitTimeout
  <2>3. QED
    BY <1>0, <1>2, <2>1, <2>2, CallersContinue
<1>3. ASSUME NEW k \in Callers, DropNext(k) \/ Enqueue(k) \/ AwaitReply(k)
      PROVE  HandlersLeadToListeners' /\ UnregisteringClears'
  <2>1. UNCHANGED <<handlers, registry>>
    BY <1>3 DEF DropNext, Enqueue, AwaitReply, Finish, DropBegin, DropEnd, vars, registry
  <2>2. ~AwaitTimeout(k)
    BY DEF AwaitTimeout, Undisturbed
  <2>3. call[k].t \in Transports
    BY <1>3 DEF DropNext, Enqueue, AwaitReply, EngineInv, CallInv, Purposeful
  <2>4. QED
    BY <1>0, <1>3, <2>1, <2>2, <2>3, CallersContinue
<1>4. ASSUME NEW k \in Callers, AwaitTimeout(k) PROVE FALSE
  BY <1>4 DEF AwaitTimeout, Undisturbed
<1>5. ASSUME NEW t \in Transports, EngineStep(t)
      PROVE  HandlersLeadToListeners' /\ UnregisteringClears'
  BY <1>5, InstallKeepsLead, OtherCommandsKeepLead DEF EngineStep, Undisturbed
<1>6. ASSUME NEW k \in Callbacks,
             \/ CallbackStep(k) \/ \E a \in AppNames, key \in Keys : Dispatch(k, a, key)
      PROVE  UNCHANGED <<handlers, registry, call>>
  BY <1>6 DEF CallbackStep, Dispatch, engineVars, CallbackLookup, CallbackConvert,
     CallbackFetch, CallbackDeliver
<1>7. QED
  BY <1>1, <1>2, <1>3, <1>4, <1>5, <1>6, RegisterCallKeepsLead, ReleaseKeepsLead
  DEF EngineNext, CallStep, evars, vars, engineVars

\* Initially nobody calls, no channel holds a command and vsomeip no handler.
LEMMA InitEstablishesBaseInv == EngineInit => BaseInv /\ RegisteringHolds /\ HandlerTypes
<1> SUFFICES ASSUME EngineInit PROVE BaseInv /\ RegisteringHolds /\ HandlerTypes
  OBVIOUS
<1>1. \A k \in Callers : call[k] = Returned
  BY DEF EngineInit
<1>2. \A k \in Callers : call[k].t = None /\ call[k].op = None /\ call[k].pc = "idle"
  BY <1>1 DEF Returned
<1>3. UsageInv
  BY <1>2, EngineAssumption DEF UsageInv, ProperUse, Exclusive, Ops
<1>4. RegisteringHolds
  BY <1>2, EngineAssumption DEF RegisteringHolds, Ops
<1>5. HandlerTypes
  BY DEF EngineInit, HandlerTypes, NoHandlers
<1>6. QED
  BY <1>3, <1>4, <1>5, EngineInitEstablishesInv, InitEstablishesCommandInv DEF BaseInv

\* So no handler leads astray.
LEMMA InitEstablishesHandlerInv == EngineInit => HandlerInv
<1> SUFFICES ASSUME EngineInit PROVE HandlerInv
  OBVIOUS
<1>1. RegisteringHolds /\ HandlerTypes
  BY InitEstablishesBaseInv
<1>2. NobodyGaveUp
  BY DEF EngineInit, NobodyGaveUp
<1>3. \A a \in AppNames, key \in Keys : handlers[a][key] = None
  BY DEF EngineInit, NoHandlers
<1>4. QED
  BY <1>1, <1>2, <1>3 DEF HandlerInv, UnregisteringClears, Cleared, HandlersLeadToListeners

\* What holds whatever times out is inductive.
LEMMA BaseInductive == BaseInv /\ [EngineNext]_evars => BaseInv'
  BY EngineNextIsRegistryStep, NextKeepsIInv, NextKeepsCommandInv, NextKeepsUsageInv
  DEF BaseInv, EngineInv

\* Under the conditions above so is the invariant about handlers.
LEMMA HandlerInvInductive ==
  ASSUME Undisturbed
  PROVE  BaseInv /\ HandlerInv /\ [EngineNext]_evars => HandlerInv'
  BY NextKeepsRegistering, NextKeepsHandlerTypes, NextKeepsCallers, NextKeepsLead
  DEF BaseInv, EngineInv, HandlerInv, Undisturbed

\* As long as no call times out and nobody else touches a caller's listeners,
\* vsomeip never holds a function pointer that leads to no listener, or to one
\* of another address: whichever calls, drops and commands interleave.
THEOREM HandlersAlwaysLead ==
  ASSUME Undisturbed
  PROVE  EngineSpec => []HandlersLeadToListeners
<1>1. HandlerInv => HandlersLeadToListeners
  BY DEF HandlerInv
<1>2. QED
  BY <1>1, InitEstablishesBaseInv, InitEstablishesHandlerInv, BaseInductive, HandlerInvInductive, PTL
  DEF EngineSpec

\* Hence the ids that get_message_handler hands out are not installed anywhere.
LEMMA GrantsUnused ==
  ASSUME BaseInv, HandlerInv, [EngineNext]_evars,
         NEW id \in Ids, id \in freeIds, id \notin freeIds', NEW a \in AppNames, NEW key \in Keys
  PROVE  handlers[a][key] # id
<1>1. PoolPartition /\ RoutedToOwner
  BY DEF BaseInv, EngineInv, IInv, RegistryInv
<1>2. \A u \in Transports : listenerConfigs[u][id] = None
  BY <1>1, NoneAssumption DEF PoolPartition, RoutedToOwner
<1>3. QED
  BY <1>2, NoneAssumption DEF HandlerInv, HandlersLeadToListeners

\* Under the same conditions a function pointer that register_listener is given
\* is not in use for any address of any application: a recycled id never
\* inherits the messages of its last listener.
THEOREM GrantedHandlersAreUnused ==
  ASSUME Undisturbed
  PROVE  EngineSpec => GrantedHandlerUnused
<1> DEFINE Unused == \A id \in Ids :
              id \in freeIds /\ id \notin freeIds' =>
                  \A a \in AppNames, key \in Keys : handlers[a][key] # id
<1>1. BaseInv /\ HandlerInv /\ [EngineNext]_evars => [Unused]_evars
  BY GrantsUnused
<1>2. QED
  BY <1>1, InitEstablishesBaseInv, InitEstablishesHandlerInv, BaseInductive, HandlerInvInductive, PTL
  DEF EngineSpec, GrantedHandlerUnused

-----------------------------------------------------------------------------
(* Messages.                                                               *)

\* A callback whose listener has not been unregistered meanwhile is about the
\* address of that listener.
AddressInv ==
    /\ DOMAIN dispatched = Callbacks
    /\ \A k \in Callbacks : cb[k].pc # "idle" /\ owner[k] # None =>
          /\ RegisterKey(owner[k]) = dispatched[k]
          /\ cb[k].pc = "deliver" => cb[k].listener = owner[k]

\* Calls and engines leave running callbacks alone, but for the owner of an id
\* that is released.
LEMMA CallersLeaveCallbacks ==
  ASSUME EngineInv, [EngineNext]_evars,
         ~ \E k \in Callbacks :
              \/ CallbackStep(k) \/ \E a \in AppNames, key \in Keys : Dispatch(k, a, key)
  PROVE  UNCHANGED <<cb, dispatched>> /\ \A k \in Callbacks : owner'[k] \in {owner[k], None}
<1>1. CASE UNCHANGED <<cb, owner, dispatched>>
  BY <1>1
<1>2. ASSUME NEW k \in Callers, NEW t \in Transports,
             \/ NewCall(k, t) \/ DropCall(k, t)
             \/ \E c \in Configs : RegisterCall(k, t, c) \/ UnregisterCall(k, t, c)
      PROVE  UNCHANGED <<cb, owner, dispatched>>
  BY <1>2 DEF NewCall, New, DropCall, DropBegin, RegisterCall, Register, UnregisterCall, vars
<1>3. ASSUME NEW k \in Callers,
             Enqueue(k) \/ DropNext(k) \/ AwaitReply(k) \/ AwaitTimeout(k)
      PROVE  UNCHANGED <<cb, owner, dispatched>>
  BY <1>3 DEF Enqueue, DropNext, AwaitReply, AwaitTimeout, Finish, DropBegin, DropEnd, vars
<1>4. ASSUME NEW k \in Callers, ReleaseHandler(k)
      PROVE  UNCHANGED <<cb, dispatched>> /\ \A j \in Callbacks : owner'[j] \in {owner[j], None}
  BY <1>4 DEF ReleaseHandler, Unregister, DropRelease, Disown
<1>5. ASSUME NEW t \in Transports, EngineStep(t) PROVE UNCHANGED <<cb, owner, dispatched>>
  BY <1>5, EngineStepReplies DEF TakeAndReply, vars
<1>6. QED
  BY <1>1, <1>2, <1>3, <1>4, <1>5 DEF EngineNext, CallStep, evars, vars

\* A message that vsomeip dispatches is for the listener its handler leads to.
LEMMA DispatchKeepsAddress ==
  ASSUME BaseInv, HandlerInv, AddressInv, NEW k \in Callbacks,
         NEW a \in AppNames, NEW key \in Keys, Dispatch(k, a, key)
  PROVE  AddressInv'
<1> USE DEF BaseInv
<1> DEFINE id == handlers[a][key]
           t == idToTransport[id]
<1>0. /\ cb \in [Callbacks -> CallbackStates] /\ owner \in [Callbacks -> Configs \cup {None}]
      /\ RoutedToOwner
  BY DEF EngineInv, IInv, TypeOK, RegistryInv
<1>1. id \in Ids /\ id # None
  BY NoneAssumption DEF Dispatch, HandlerInv, HandlerTypes
<1>2. PICK u \in Transports :
         /\ AppName[u] = a
         /\ listenerConfigs[u][id] # None /\ RegisterKey(listenerConfigs[u][id]) = key
  BY <1>1 DEF HandlerInv, HandlersLeadToListeners
<1>3. t = u
  BY <1>0, <1>1, <1>2 DEF RoutedToOwner
<1>4. dispatched' = [dispatched EXCEPT ![k] = IF cb'[k].pc = "idle" THEN None ELSE key]
  BY DEF Dispatch
<1>4a. DOMAIN dispatched = Callbacks /\ DOMAIN dispatched' = Callbacks
  BY <1>4 DEF AddressInv
<1> HIDE DEF id, t
<1>5. CASE UNCHANGED <<cb, owner>>
  <2>1. cb[k].pc = "idle"
    BY DEF Dispatch, CallbackLookup
  <2>2. \A j \in Callbacks : j # k => dispatched'[j] = dispatched[j]
    BY <1>4
  <2>3. QED
    BY <1>4a, <1>5, <2>1, <2>2 DEF AddressInv
<1>6. CASE /\ cb' = [cb EXCEPT ![k] = [pc |-> "convert", id |-> id,
                                       transport |-> t, listener |-> None]]
           /\ owner' = [owner EXCEPT ![k] = listenerConfigs[t][id]]
  <2>1. cb'[k].pc = "convert" /\ owner'[k] = listenerConfigs[u][id]
    BY <1>0, <1>3, <1>6
  <2>2. \A j \in Callbacks : j # k => cb'[j] = cb[j] /\ owner'[j] = owner[j]
                                      /\ dispatched'[j] = dispatched[j]
    BY <1>0, <1>4, <1>6
  <2>3. dispatched'[k] = key
    BY <1>4, <1>4a, <2>1
  <2>4. QED
    BY <1>2, <1>4a, <2>1, <2>2, <2>3 DEF AddressInv
<1>7. QED
  BY <1>5, <1>6 DEF Dispatch, CallbackLookup, id, t

\* A running callback keeps its owner, or ends; what it fetches is its owner's.
LEMMA CallbackStepKeepsAddress ==
  ASSUME BaseInv, AddressInv, NEW k \in Callbacks, CallbackStep(k)
  PROVE  AddressInv'
<1>0. /\ cb \in [Callbacks -> CallbackStates] /\ owner \in [Callbacks -> Configs \cup {None}]
      /\ InFlightKeepsListener
  BY DEF BaseInv, EngineInv, IInv, TypeOK
<1>1. dispatched' = [dispatched EXCEPT ![k] = IF cb'[k].pc = "idle" THEN None ELSE @]
  BY DEF CallbackStep
<1>2. /\ DOMAIN dispatched' = Callbacks /\ \A j \in Callbacks : j # k => dispatched'[j] = dispatched[j]
      /\ cb'[k].pc # "idle" => dispatched'[k] = dispatched[k]
  BY <1>1 DEF AddressInv
<1>3. ASSUME NEW st, NEW o, cb' = [cb EXCEPT ![k] = st], owner' = [owner EXCEPT ![k] = o],
             st.pc # "idle" => /\ cb[k].pc # "idle" /\ o = owner[k]
                               /\ st.pc = "deliver" /\ o # None => st.listener = o
      PROVE  AddressInv'
  <2>1. /\ cb'[k] = st /\ owner'[k] = o
        /\ \A j \in Callbacks : j # k => cb'[j] = cb[j] /\ owner'[j] = owner[j]
    BY <1>0, <1>3
  <2>2. ASSUME NEW j \in Callbacks, cb'[j].pc # "idle", owner'[j] # None
        PROVE  /\ RegisterKey(owner'[j]) = dispatched'[j]
               /\ cb'[j].pc = "deliver" => cb'[j].listener = owner'[j]
    <3>1. CASE j = k
      BY <1>2, <1>3, <2>1, <2>2, <3>1 DEF AddressInv
    <3>2. CASE j # k
      BY <1>2, <2>1, <2>2, <3>2 DEF AddressInv
    <3>3. QED
      BY <3>1, <3>2
  <2>3. QED
    BY <1>2, <2>2 DEF AddressInv
<1>4. CASE CallbackConvert(k)
  <2>1. CASE cb' = [cb EXCEPT ![k].pc = "fetch"] /\ UNCHANGED owner
    <3> DEFINE st == [cb[k] EXCEPT !.pc = "fetch"]
    <3>1. st.pc = "fetch" /\ cb[k].pc # "idle"
      BY <1>0, <1>4 DEF CallbackStates, CallbackConvert
    <3>2. cb' = [cb EXCEPT ![k] = st] /\ owner' = [owner EXCEPT ![k] = owner[k]]
      BY <1>0, <2>1
    <3> HIDE DEF st
    <3>3. QED
      BY <1>3, <3>1, <3>2
  <2>2. CASE cb' = [cb EXCEPT ![k] = Idle] /\ owner' = [owner EXCEPT ![k] = None]
    <3>1. Idle.pc = "idle"
      BY DEF Idle
    <3>2. QED
      BY <1>3, <2>2, <3>1
  <2>3. QED
    BY <1>4, <2>1, <2>2 DEF CallbackConvert
<1>5. CASE CallbackFetch(k) \/ CallbackDeliver(k)
  <2> DEFINE c == listenerConfigs[cb[k].transport][cb[k].id]
             st == [pc |-> "deliver", id |-> cb[k].id, transport |-> None, listener |-> c]
  <2>1. CASE cb[k].pc = "fetch" /\ cb' = [cb EXCEPT ![k] = st] /\ UNCHANGED owner
    <3>1. st.pc = "deliver" /\ st.listener = c
      OBVIOUS
    <3>2. owner[k] # None => c = owner[k]
      BY <1>0, <2>1 DEF InFlightKeepsListener
    <3>3. owner' = [owner EXCEPT ![k] = owner[k]]
      BY <1>0, <2>1
    <3> HIDE DEF st, c
    <3>4. QED
      BY <1>3, <2>1, <3>1, <3>2, <3>3
  <2>2. CASE cb' = [cb EXCEPT ![k] = Idle] /\ owner' = [owner EXCEPT ![k] = None]
    <3>1. Idle.pc = "idle"
      BY DEF Idle
    <3>2. QED
      BY <1>3, <2>2, <3>1
  <2>3. QED
    BY <1>5, <2>1, <2>2 DEF CallbackFetch, CallbackDeliver
<1>6. QED
  BY <1>4, <1>5 DEF CallbackStep

\* As long as no call times out and nobody else touches a caller's listeners, a
\* message is delivered to a listener registered for the address it was sent to,
\* unless that listener was unregistered while the callback ran: however ids are
\* recycled between the callback's two reads.
THEOREM MessagesReachAddressees ==
  ASSUME Undisturbed
  PROVE  EngineSpec => []DeliveredToAddressee
<1>1. EngineInit => AddressInv
  <2> SUFFICES ASSUME EngineInit PROVE AddressInv
    OBVIOUS
  <2>1. \A k \in Callbacks : owner[k] = None
    BY DEF EngineInit, Init
  <2>2. QED
    BY <2>1 DEF EngineInit, AddressInv
<1>2. BaseInv /\ HandlerInv /\ AddressInv /\ [EngineNext]_evars => AddressInv'
  <2> SUFFICES ASSUME BaseInv, HandlerInv, AddressInv, [EngineNext]_evars PROVE AddressInv'
    OBVIOUS
  <2>1. CASE ~ \E k \in Callbacks :
               \/ CallbackStep(k) \/ \E a \in AppNames, key \in Keys : Dispatch(k, a, key)
    <3>1. UNCHANGED <<cb, dispatched>> /\ \A k \in Callbacks : owner'[k] \in {owner[k], None}
      BY <2>1, CallersLeaveCallbacks DEF BaseInv
    <3>2. QED
      BY <3>1 DEF AddressInv
  <2>2. QED
    BY <2>1, CallbackStepKeepsAddress, DispatchKeepsAddress
<1>3. AddressInv => DeliveredToAddressee
  BY DEF AddressInv, DeliveredToAddressee
<1>4. QED
  BY <1>1, <1>2, <1>3, InitEstablishesBaseInv, InitEstablishesHandlerInv, BaseInductive,
     HandlerInvInductive, PTL
  DEF EngineSpec

-----------------------------------------------------------------------------
(* What timeouts leave behind.  A command whose caller gave up is still    *)
(* executed, after calls that began later have changed the registry.  The  *)
(* channel is in order, so that vsomeip's handlers and the registry agree  *)
(* again once the channel is empty.                                        *)

\* What the guarantee rests on: applications of their own, addresses of their
\* own, the same address for installing and removing, and no two threads that
\* register or unregister the same configuration.  Calls may time out.
OwnAddresses ==
    /\ SeparateConfigs
    /\ \A t, u \in Transports : AppName[t] = AppName[u] => t = u
    /\ \A c \in Configs : RegisterKey(c) = UnregisterKey(c)
    /\ \A c, d \in Configs : RegisterKey(c) = RegisterKey(d) => c = d

Starting(k, t) == call[k].op = "StartVsomeipApp" /\ call[k].t = t

\* A live transport's application runs once its constructor has returned, and no
\* command that could stop it is under way.
StartedInv ==
    \A t \in Transports :
        /\ phase[t] = "absent" => DOMAIN queue[t] = {} /\ handlers[AppName[t]] = NoHandlers
        /\ phase[t] = "live" /\ (\A k \in Callers : ~Starting(k, t)) =>
              /\ AppName[t] \in apps
              /\ \A i \in DOMAIN queue[t] :
                    queue[t][i].op \in {"RegisterListener", "UnregisterListener"}
        /\ \A k \in Callers : Starting(k, t) =>
              /\ \A i \in DOMAIN queue[t] : queue[t][i].caller = k
              /\ call[k].reply = "Ok" => AppName[t] \in apps

\* A command that installs or removes the handler of c, and what it leaves.
About(cmd, c) == cmd.op \in {"RegisterListener", "UnregisterListener"} /\ cmd.config = c
HandlerAfter(cmd) == IF cmd.op = "RegisterListener" THEN cmd.id ELSE None

\* Once t's channel is empty, the handler for c will be v.
Ends(t, c, v) ==
    /\ \A i \in DOMAIN queue[t] :
          /\ About(queue[t][i], c)
          /\ \A j \in DOMAIN queue[t] : j > i => ~About(queue[t][j], c)
          => HandlerAfter(queue[t][i]) = v
    /\ (\A i \in DOMAIN queue[t] : ~About(queue[t][i], c)) => handlers[AppName[t]][RegisterKey(c)] = v

\* A registration holds an id that is not in the channel yet; an unregistration
\* has been sent but its id is not released yet.
Ahead(r) ==
    \/ r.op = "RegisterListener" /\ r.pc = "send"
    \/ r.op = "UnregisterListener" /\ r.pc \in {"await", "release"}

AheadOf(t, c) == \E k \in Callers : Ahead(call[k]) /\ call[k].t = t /\ call[k].config = c

\* The channel ends in what the registry says of c, but for calls that are ahead
\* of it.
EndsAt(t, c) ==
    /\ AheadOf(t, c) \/ (\A id \in Ids : listenerConfigs[t][id] # c) => Ends(t, c, None)
    /\ ~AheadOf(t, c) => \A id \in Ids : listenerConfigs[t][id] = c => Ends(t, c, id)

EndsInv == \A t \in Transports, c \in Configs : phase[t] = "live" => EndsAt(t, c)

-----------------------------------------------------------------------------
(* The channels.                                                           *)

\* A command goes to the end of its channel.
LEMMA EnqueueQueue ==
  ASSUME CallInv, CommandInv, NEW k \in Callers, Enqueue(k)
  PROVE  /\ call[k].t \in Transports /\ call[k].pc = "send"
         /\ \A u \in Transports : u # call[k].t => queue'[u] = queue[u]
         /\ \E n \in Nat :
               /\ n \notin DOMAIN queue[call[k].t]
               /\ DOMAIN queue'[call[k].t] = DOMAIN queue[call[k].t] \cup {n}
               /\ \A i \in DOMAIN queue[call[k].t] :
                     i \in Nat /\ i < n /\ queue'[call[k].t][i] = queue[call[k].t][i]
               /\ queue'[call[k].t][n] =
                     [op |-> call[k].op, config |-> call[k].config, id |-> call[k].id, caller |-> k]
<1> DEFINE t == call[k].t
           s == queue[t]
           n == Len(s) + 1
           cmd == [op |-> call[k].op, config |-> call[k].config, id |-> call[k].id, caller |-> k]
<1>1. t \in Transports /\ queue' = [queue EXCEPT ![t] = Append(s, cmd)] /\ call[k].pc = "send"
  BY DEF Enqueue, CallInv, Purposeful
<1>2. s \in Seq(Commands) /\ call[k].op \in Ops /\ call[k] \in Calls
  BY <1>1 DEF CommandInv, CompleteCommands, CallInv
<1>3. cmd \in Commands
  BY <1>2 DEF Commands, Calls
<1> HIDE DEF cmd
<1>4. /\ queue'[t] = Append(s, cmd) /\ \A u \in Transports : u # t => queue'[u] = queue[u]
  BY <1>1 DEF CommandInv
<1>5. /\ DOMAIN Append(s, cmd) = 1 .. (Len(s) + 1) /\ DOMAIN s = 1 .. Len(s) /\ Len(s) \in Nat
      /\ \A i \in 1 .. Len(s) : Append(s, cmd)[i] = s[i]
      /\ Append(s, cmd)[Len(s) + 1] = cmd
  BY <1>2, <1>3, QueueFacts
<1> HIDE DEF s, t
<1>6. n \in Nat /\ n \notin DOMAIN s /\ DOMAIN queue'[t] = DOMAIN s \cup {n}
  BY <1>4, <1>5
<1>7. \A i \in DOMAIN s : i \in Nat /\ i < n /\ queue'[t][i] = s[i]
  BY <1>4, <1>5
<1>8. queue'[t][n] = cmd
  BY <1>4, <1>5
<1> HIDE DEF n
<1>9. QED
  BY <1>1, <1>4, <1>6, <1>7, <1>8 DEF s, t, cmd

\* A command is taken from its beginning.
LEMMA TakeQueue ==
  ASSUME CommandInv, NEW t \in Transports, NEW ops, NEW reply, TakeAndReply(t, ops, reply)
  PROVE  /\ \A u \in Transports : u # t => queue'[u] = queue[u]
         /\ \A i \in DOMAIN queue[t] : i \in Nat /\ i >= 1
         /\ \A i \in DOMAIN queue'[t] :
               i \in Nat /\ i >= 1 /\ i + 1 \in DOMAIN queue[t] /\ queue'[t][i] = queue[t][i + 1]
         /\ \A i \in DOMAIN queue[t] : i # 1 => i - 1 \in DOMAIN queue'[t]
<1> DEFINE s == queue[t]
<1>1. s \in Seq(Commands) /\ s # <<>> /\ queue' = [queue EXCEPT ![t] = Tail(s)]
  BY DEF TakeAndReply, CommandInv
<1>2. queue'[t] = Tail(s) /\ \A u \in Transports : u # t => queue'[u] = queue[u]
  BY <1>1 DEF CommandInv
<1>3. /\ DOMAIN Tail(s) = 1 .. (Len(s) - 1) /\ DOMAIN s = 1 .. Len(s) /\ Len(s) \in Nat
      /\ \A i \in 1 .. (Len(s) - 1) : Tail(s)[i] = s[i + 1]
  BY <1>1, QueueFacts
<1> HIDE DEF s
<1>4. \A i \in DOMAIN s : i \in Nat /\ i >= 1
  BY <1>3
<1>5. \A i \in DOMAIN Tail(s) : i \in Nat /\ i >= 1 /\ i + 1 \in DOMAIN s /\ Tail(s)[i] = s[i + 1]
  BY <1>3
<1>6. \A i \in DOMAIN s : i # 1 => i - 1 \in DOMAIN Tail(s)
  BY <1>3
<1>7. QED
  BY <1>2, <1>4, <1>5, <1>6 DEF s

\* A command whose caller gives up stays where it is.
LEMMA TimeoutQueue ==
  ASSUME CallInv, CommandInv, NEW k \in Callers, AwaitTimeout(k), NEW u \in Transports
  PROVE  /\ DOMAIN queue'[u] = DOMAIN queue[u]
         /\ \A i \in DOMAIN queue[u] :
               /\ queue'[u][i].op = queue[u][i].op /\ queue'[u][i].config = queue[u][i].config
               /\ queue'[u][i].id = queue[u][i].id
               /\ queue[u][i].caller # k => queue'[u][i].caller = queue[u][i].caller
<1> DEFINE t == call[k].t
           s == queue[t]
           f == [i \in DOMAIN s |-> IF s[i].caller = k THEN [s[i] EXCEPT !.caller = None] ELSE s[i]]
<1>1. t \in Transports /\ queue' = [queue EXCEPT ![t] = f]
  BY DEF AwaitTimeout, CallInv, Purposeful
<1>2. DOMAIN f = DOMAIN s /\ \A i \in DOMAIN s :
         f[i] = IF s[i].caller = k THEN [s[i] EXCEPT !.caller = None] ELSE s[i]
  OBVIOUS
<1> HIDE DEF f
<1>3. CASE u # t
  BY <1>1, <1>3 DEF CommandInv
<1>4. CASE u = t
  <2>1. queue'[u] = f /\ queue[u] = s
    BY <1>1, <1>4 DEF CommandInv
  <2>2. ASSUME NEW i \in DOMAIN s
        PROVE  /\ f[i].op = s[i].op /\ f[i].config = s[i].config /\ f[i].id = s[i].id
               /\ s[i].caller # k => f[i].caller = s[i].caller
    <3>1. s[i] \in Commands
      BY <1>1, <2>2, CommandHasCaller DEF CommandInv
    <3> HIDE DEF s, Commands
    <3>2. f[i] = IF s[i].caller = k THEN [s[i] EXCEPT !.caller = None] ELSE s[i]
      BY <1>2, <2>2
    <3>3. QED
      BY <3>1, <3>2, AbandonedCommand
  <2>3. QED
    BY <1>2, <2>1, <2>2
<1>5. QED
  BY <1>3, <1>4

-----------------------------------------------------------------------------
(* Applications run.                                                       *)

\* A step that leaves channels and vsomeip alone.
LEMMA QuietKeepsStarted ==
  ASSUME StartedInv, UNCHANGED <<queue, apps, handlers>>,
         \A t \in Transports : phase'[t] = "absent" => phase[t] = "absent",
         \A t \in Transports :
            phase'[t] = "live" /\ (\A k \in Callers : ~Starting(k, t)') =>
                \/ phase[t] = "live" /\ (\A k \in Callers : ~Starting(k, t))
                \/ AppName[t] \in apps /\ DOMAIN queue[t] = {},
         \A t \in Transports, k \in Callers : Starting(k, t)' =>
             \/ Starting(k, t) /\ call'[k].reply = call[k].reply
             \/ DOMAIN queue[t] = {} /\ call'[k].reply # "Ok"
  PROVE  StartedInv'
<1> SUFFICES ASSUME NEW t \in Transports
             PROVE  /\ phase'[t] = "absent" => DOMAIN queue[t] = {} /\ handlers[AppName[t]] = NoHandlers
                    /\ phase'[t] = "live" /\ (\A k \in Callers : ~Starting(k, t)') =>
                          /\ AppName[t] \in apps
                          /\ \A i \in DOMAIN queue[t] :
                                queue[t][i].op \in {"RegisterListener", "UnregisterListener"}
                    /\ \A k \in Callers : Starting(k, t)' =>
                          /\ \A i \in DOMAIN queue[t] : queue[t][i].caller = k
                          /\ call'[k].reply = "Ok" => AppName[t] \in apps
  BY DEF StartedInv, NoHandlers, Keys
<1>1. phase'[t] = "absent" => DOMAIN queue[t] = {} /\ handlers[AppName[t]] = NoHandlers
  BY DEF StartedInv
<1>2. ASSUME phase'[t] = "live", \A k \in Callers : ~Starting(k, t)'
      PROVE  /\ AppName[t] \in apps
             /\ \A i \in DOMAIN queue[t] :
                   queue[t][i].op \in {"RegisterListener", "UnregisterListener"}
  BY <1>2 DEF StartedInv
<1>3. ASSUME NEW k \in Callers, Starting(k, t)'
      PROVE  /\ \A i \in DOMAIN queue[t] : queue[t][i].caller = k
             /\ call'[k].reply = "Ok" => AppName[t] \in apps
  BY <1>3 DEF StartedInv
<1>4. QED
  BY <1>1, <1>2, <1>3

\* A caller that starts no transport goes on to something else than that.
LEMMA NoStarterKeepsStarted ==
  ASSUME CallInv, StartedInv, NEW k \in Callers, NEW r, UNCHANGED <<queue, apps, handlers>>,
         call' = [call EXCEPT ![k] = r],
         call[k].op # "StartVsomeipApp", r.op # "StartVsomeipApp",
         \A t \in Transports : phase'[t] \in {"absent", "live"} => phase'[t] = phase[t]
  PROVE  StartedInv'
<1>1. \A j \in Callers : call'[j] = IF j = k THEN r ELSE call[j]
  BY DEF CallInv
<1>2. \A t \in Transports, j \in Callers :
         /\ Starting(j, t)' <=> Starting(j, t)
         /\ Starting(j, t) => call'[j].reply = call[j].reply
  BY <1>1 DEF Starting
<1>3. QED
  BY <1>2, QuietKeepsStarted

\* The calls before their command is sent.
LEMMA CallBeginsKeepsStarted ==
  ASSUME BaseInv, StartedInv, NEW k \in Callers, NEW t \in Transports,
         \/ NewCall(k, t) \/ DropCall(k, t)
         \/ \E c \in Configs : RegisterCall(k, t, c) \/ UnregisterCall(k, t, c)
  PROVE  StartedInv'
<1> USE DEF BaseInv, EngineInv
<1>0. call[k].op = None /\ None # "StartVsomeipApp" /\ UNCHANGED <<queue, apps, handlers>>
  <2>1. call[k].pc = "idle" /\ UNCHANGED <<queue, apps, handlers>>
    BY DEF NewCall, DropCall, RegisterCall, UnregisterCall
  <2>2. QED
    BY <2>1, EngineAssumption DEF UsageInv, ProperUse, Ops
<1>0a. phase \in [Transports -> {"absent", "live", "dropping", "gone"}]
  BY DEF IInv, TypeOK
<1>1. CASE NewCall(k, t)
  <2> DEFINE r == Sending("StartVsomeipApp", t, None, None)
  <2>1. r.op = "StartVsomeipApp" /\ r.t = t /\ r.reply = None
    BY DEF Sending
  <2>2. phase[t] = "absent" /\ phase' = [phase EXCEPT ![t] = "live"] /\ call' = [call EXCEPT ![k] = r]
    BY <1>1 DEF NewCall, New
  <2> HIDE DEF r
  <2>3. call'[k] = r /\ \A j \in Callers : j # k => call'[j] = call[j]
    BY <2>2 DEF CallInv
  <2>4. phase'[t] = "live" /\ \A u \in Transports : u # t => phase'[u] = phase[u]
    BY <1>0a, <2>2
  <2>5. DOMAIN queue[t] = {} /\ call'[k].reply # "Ok"
    BY <2>1, <2>2, <2>3, EngineAssumption DEF StartedInv, Results
  <2>6. \A u \in Transports : phase'[u] = "absent" => phase[u] = "absent"
    BY <2>4
  <2>7. ASSUME NEW u \in Transports, phase'[u] = "live", \A j \in Callers : ~Starting(j, u)'
        PROVE  phase[u] = "live" /\ \A j \in Callers : ~Starting(j, u)
    <3>1. u # t
      BY <2>1, <2>3, <2>7 DEF Starting
    <3>2. QED
      BY <1>0, <2>3, <2>4, <2>7, <3>1 DEF Starting
  <2>8. ASSUME NEW u \in Transports, NEW j \in Callers, Starting(j, u)'
        PROVE  \/ Starting(j, u) /\ call'[j].reply = call[j].reply
               \/ DOMAIN queue[u] = {} /\ call'[j].reply # "Ok"
    BY <2>1, <2>3, <2>5, <2>8 DEF Starting
  <2>9. QED
    BY <1>0, <2>6, <2>7, <2>8, QuietKeepsStarted
<1>2. CASE DropCall(k, t)
  <2>1. Dropping(t).op = None
    BY DEF Dropping, Returned
  <2>2. \A u \in Transports : phase'[u] \in {"absent", "live"} => phase'[u] = phase[u]
    BY <1>0a, <1>2 DEF DropCall, DropBegin
  <2>3. QED
    BY <1>0, <1>2, <2>1, <2>2, NoStarterKeepsStarted DEF DropCall
<1>3. ASSUME NEW c \in Configs, UnregisterCall(k, t, c) PROVE StartedInv'
  <2>1. Sending("UnregisterListener", t, c, None).op = "UnregisterListener"
    BY DEF Sending
  <2>2. UNCHANGED phase
    BY <1>3 DEF UnregisterCall, vars, lifecycle
  <2>3. QED
    BY <1>0, <1>3, <2>1, <2>2, NoStarterKeepsStarted DEF UnregisterCall
<1>4. ASSUME NEW c \in Configs, RegisterCall(k, t, c) PROVE StartedInv'
  <2>1. UNCHANGED phase
    BY <1>4 DEF RegisterCall, Register, lifecycle
  <2>2. CASE UNCHANGED call
    BY <1>0, <2>1, <2>2, QuietKeepsStarted DEF Starting
  <2>3. ASSUME NEW id, call' = [call EXCEPT ![k] = Sending("RegisterListener", t, c, id)]
        PROVE  StartedInv'
    <3>1. Sending("RegisterListener", t, c, id).op = "RegisterListener"
      BY DEF Sending
    <3>2. QED
      BY <1>0, <2>1, <2>3, <3>1, NoStarterKeepsStarted
  <2>4. QED
    BY <1>4, <2>2, <2>3, RegisterCallGrants
<1>5. QED
  BY <1>1, <1>2, <1>3, <1>4

\* The rest of a call, but for sending and giving up.
LEMMA CallStepKeepsStarted ==
  ASSUME BaseInv, StartedInv, NEW k \in Callers, CallStep(k)
  PROVE  StartedInv'
<1> USE DEF BaseInv, EngineInv
<1>0. UNCHANGED <<queue, apps, handlers>>
  BY DEF CallStep, DropNext, AwaitReply, ReleaseHandler
<1>0a. /\ phase \in [Transports -> {"absent", "live", "dropping", "gone"}]
       /\ ProperUse(k, call[k], phase[call[k].t]) /\ None # "StartVsomeipApp"
  BY EngineAssumption DEF IInv, TypeOK, UsageInv, Ops
<1>0b. Returned.op = None /\ \A t : Dropping(t).op = None
  BY DEF Dropping, Returned
<1>1. CASE DropNext(k)
  <2>1. call[k].op = None /\ UNCHANGED phase
    BY <1>0a, <1>1 DEF DropNext, ProperUse, vars, lifecycle
  <2>2. \A t, c : /\ Sending("UnregisterListener", t, c, None).op # "StartVsomeipApp"
                  /\ Sending("StopVsomeipApp", t, c, None).op # "StartVsomeipApp"
    BY DEF Sending
  <2>3. QED
    BY <1>0, <1>0a, <1>1, <2>1, <2>2, NoStarterKeepsStarted DEF DropNext
<1>2. CASE ReleaseHandler(k)
  <2>1. call[k].op = "UnregisterListener" /\ UNCHANGED phase
    BY <1>2, ReleaseEffect DEF ReleaseHandler, Unregister, DropRelease, lifecycle
  <2>2. QED
    BY <1>0, <1>0a, <1>0b, <1>2, <2>1, NoStarterKeepsStarted DEF ReleaseHandler
<1>3. CASE AwaitReply(k)
  <2> DEFINE t == call[k].t
  <2>1. /\ call[k].pc = "await" /\ call[k].reply # None /\ t \in Transports
        /\ Finish(k, call[k].reply)
    BY <1>3 DEF AwaitReply, CallInv, Purposeful
  <2>2. CASE call[k].op # "StartVsomeipApp"
    <3>1. \A u \in Transports : phase'[u] \in {"absent", "live"} => phase'[u] = phase[u]
      BY <1>0a, <2>1, <2>2 DEF Finish, DropEnd, vars, lifecycle
    <3>2. CASE call' = [call EXCEPT ![k] = Returned]
      BY <1>0, <1>0a, <1>0b, <2>2, <3>1, <3>2, NoStarterKeepsStarted
    <3>3. CASE /\ call[k].op = "UnregisterListener"
               /\ call' = [call EXCEPT ![k].pc = "release", ![k].reply = None]
      <4> DEFINE r == [call[k] EXCEPT !.pc = "release", !.reply = None]
      <4>1. call[k] \in Calls
        BY DEF CallInv
      <4>2. call' = [call EXCEPT ![k] = r] /\ r.op = "UnregisterListener"
        BY <3>3, <4>1 DEF CallInv, Calls
      <4> HIDE DEF r
      <4>3. QED
        BY <1>0, <2>2, <3>1, <4>2, NoStarterKeepsStarted
    <3>4. QED
      BY <2>1, <2>2, <3>2, <3>3 DEF Finish
  <2>3. CASE call[k].op = "StartVsomeipApp"
    <3>0. PICK r \in {Returned, Dropping(t)} :
             /\ call' = [call EXCEPT ![k] = r]
             /\ \/ call[k].reply = "Ok" /\ UNCHANGED phase
                \/ call[k].reply # "Ok" /\ phase' = [phase EXCEPT ![t] = "dropping"]
      BY <2>1, <2>3 DEF Finish, vars, lifecycle, DropBegin
    <3>1. r.op # "StartVsomeipApp"
      BY <1>0a, <1>0b, <3>0
    <3>2. call'[k] = r /\ \A j \in Callers : j # k => call'[j] = call[j]
      BY <3>0 DEF CallInv
    <3>3. \A j \in Callers, u \in Transports :
             Starting(j, u)' => Starting(j, u) /\ call'[j].reply = call[j].reply
      BY <3>1, <3>2 DEF Starting
    <3>4. DOMAIN queue[t] = {} /\ (call[k].reply = "Ok" => AppName[t] \in apps)
      <4>1. /\ \A i \in DOMAIN queue[t] : queue[t][i].caller = k
            /\ call[k].reply = "Ok" => AppName[t] \in apps
        BY <2>1, <2>3 DEF StartedInv, Starting
      <4>2. ASSUME NEW i \in DOMAIN queue[t] PROVE FALSE
        <5>1. ReplyBelongsToCall
          BY CommandInvGivesReplies
        <5>2. QED
          BY <2>1, <4>1, <5>1 DEF ReplyBelongsToCall
      <4>3. QED
        BY <4>1, <4>2
    <3>5. \A u \in Transports : phase'[u] = "absent" => phase[u] = "absent"
      BY <1>0a, <3>0
    <3>6. ASSUME NEW u \in Transports, phase'[u] = "live", \A j \in Callers : ~Starting(j, u)'
          PROVE  \/ phase[u] = "live" /\ (\A j \in Callers : ~Starting(j, u))
                 \/ AppName[u] \in apps /\ DOMAIN queue[u] = {}
      <4>1. CASE u = t
        BY <1>0a, <2>1, <3>0, <3>4, <3>6, <4>1
      <4>2. CASE u # t
        <5>1. phase[u] = "live"
          BY <1>0a, <3>0, <3>6, <4>2
        <5>2. \A j \in Callers : ~Starting(j, u)
          BY <3>2, <3>6, <4>2 DEF Starting
        <5>3. QED
          BY <5>1, <5>2
      <4>3. QED
        BY <4>1, <4>2
    <3>7. QED
      BY <1>0, <3>3, <3>5, <3>6, QuietKeepsStarted
  <2>4. QED
    BY <2>2, <2>3
<1>4. QED
  BY <1>1, <1>2, <1>3 DEF CallStep

\* A command is sent to a transport that its caller may use.
LEMMA EnqueueKeepsStarted ==
  ASSUME BaseInv, StartedInv, NEW k \in Callers, Enqueue(k)
  PROVE  StartedInv'
<1> USE DEF BaseInv, EngineInv
<1> DEFINE t == call[k].t
<1>1. /\ t \in Transports /\ call[k].pc = "send" /\ UNCHANGED <<phase, apps, handlers>>
      /\ \A u \in Transports : u # t => queue'[u] = queue[u]
  BY EnqueueQueue DEF Enqueue, vars, lifecycle
<1>2. PICK n \in Nat :
         /\ DOMAIN queue'[t] = DOMAIN queue[t] \cup {n}
         /\ \A i \in DOMAIN queue[t] : queue'[t][i] = queue[t][i]
         /\ queue'[t][n] =
               [op |-> call[k].op, config |-> call[k].config, id |-> call[k].id, caller |-> k]
  BY EnqueueQueue
<1>3. queue'[t][n].op = call[k].op /\ queue'[t][n].caller = k
  BY <1>2
<1>4. \A j \in Callers : /\ call'[j].op = call[j].op /\ call'[j].t = call[j].t
                         /\ call'[j].reply = call[j].reply
  <2>1. call' = [call EXCEPT ![k].pc = "await"] /\ call[k] \in Calls
    BY DEF Enqueue, CallInv
  <2>2. QED
    BY <2>1 DEF CallInv, Calls
<1>5. \A j \in Callers, u \in Transports : Starting(j, u)' <=> Starting(j, u)
  BY <1>4 DEF Starting
<1>6. /\ ProperUse(k, call[k], phase[t]) /\ t # None /\ call[k].op \in Ops
  BY <1>1, NoneAssumption DEF UsageInv, CommandInv, CompleteCommands
<1>7. ASSUME NEW j \in Callers, Starting(j, t) PROVE j = k
  BY <1>6, <1>7 DEF UsageInv, Exclusive, Starting
<1> HIDE DEF t
<1> SUFFICES ASSUME NEW u \in Transports
             PROVE  /\ phase[u] = "absent" => DOMAIN queue'[u] = {} /\ handlers[AppName[u]] = NoHandlers
                    /\ phase[u] = "live" /\ (\A j \in Callers : ~Starting(j, u)) =>
                          /\ AppName[u] \in apps
                          /\ \A i \in DOMAIN queue'[u] :
                                queue'[u][i].op \in {"RegisterListener", "UnregisterListener"}
                    /\ \A j \in Callers : Starting(j, u) =>
                          /\ \A i \in DOMAIN queue'[u] : queue'[u][i].caller = j
                          /\ call[j].reply = "Ok" => AppName[u] \in apps
  BY <1>1, <1>4, <1>5 DEF StartedInv, NoHandlers, Keys
<1>8. CASE u # t
  BY <1>1, <1>8 DEF StartedInv
<1>9. CASE u = t
  <2>1. phase[t] # "absent"
    BY <1>6 DEF ProperUse, t
  <2>2. ASSUME phase[t] = "live", \A j \in Callers : ~Starting(j, t)
        PROVE  call[k].op \in {"RegisterListener", "UnregisterListener"}
    <3>1. call[k].op # "StopVsomeipApp"
      BY <1>6, <2>2 DEF ProperUse, t
    <3>2. call[k].op # "StartVsomeipApp"
      BY <2>2 DEF Starting, t
    <3>3. QED
      BY <1>6, <3>1, <3>2 DEF Ops
  <2>3. QED
    BY <1>1, <1>2, <1>3, <1>7, <1>9, <2>1, <2>2 DEF StartedInv
<1>10. QED
  BY <1>8, <1>9

\* A constructor that gives up drops its transport.
LEMMA TimeoutKeepsStarted ==
  ASSUME BaseInv, StartedInv, NEW k \in Callers, AwaitTimeout(k)
  PROVE  StartedInv'
<1> USE DEF BaseInv, EngineInv
<1> DEFINE t == call[k].t
<1>1. /\ t \in Transports /\ call[k].pc = "await" /\ UNCHANGED <<apps, handlers>>
      /\ Finish(k, "DEADLINE_EXCEEDED")
  BY DEF AwaitTimeout, CallInv, Purposeful
<1>2. phase \in [Transports -> {"absent", "live", "dropping", "gone"}] /\ call[k] \in Calls
  BY DEF IInv, TypeOK, CallInv
<1>3. \A u \in Transports : phase'[u] \in {"absent", "live"} => phase'[u] = phase[u]
  BY <1>1, <1>2 DEF Finish, DropBegin, DropEnd, vars, lifecycle
<1>4. call[k].op = "StartVsomeipApp" => phase'[t] = "dropping"
  BY <1>1, <1>2 DEF Finish, DropBegin
<1>5. call'[k].op # "StartVsomeipApp" /\ \A j \in Callers : j # k => call'[j] = call[j]
  <2>1. Returned.op # "StartVsomeipApp" /\ Dropping(t).op # "StartVsomeipApp"
    BY EngineAssumption DEF Returned, Dropping, Ops
  <2>2. CASE call' = [call EXCEPT ![k] = Returned] \/ call' = [call EXCEPT ![k] = Dropping(t)]
    BY <2>1, <2>2 DEF CallInv
  <2>3. CASE /\ call[k].op = "UnregisterListener"
             /\ call' = [call EXCEPT ![k].pc = "release", ![k].reply = None]
    BY <1>2, <2>3 DEF CallInv, Calls
  <2>4. QED
    BY <1>1, <2>2, <2>3 DEF Finish
<1> SUFFICES ASSUME NEW u \in Transports
             PROVE  /\ phase'[u] = "absent" => DOMAIN queue'[u] = {} /\ handlers[AppName[u]] = NoHandlers
                    /\ phase'[u] = "live" /\ (\A j \in Callers : ~Starting(j, u)') =>
                          /\ AppName[u] \in apps
                          /\ \A i \in DOMAIN queue'[u] :
                                queue'[u][i].op \in {"RegisterListener", "UnregisterListener"}
                    /\ \A j \in Callers : Starting(j, u)' =>
                          /\ \A i \in DOMAIN queue'[u] : queue'[u][i].caller = j
                          /\ call'[j].reply = "Ok" => AppName[u] \in apps
  BY <1>1 DEF StartedInv, NoHandlers, Keys
<1>6. /\ DOMAIN queue'[u] = DOMAIN queue[u]
      /\ \A i \in DOMAIN queue[u] :
            /\ queue'[u][i].op = queue[u][i].op
            /\ queue[u][i].caller # k => queue'[u][i].caller = queue[u][i].caller
  BY TimeoutQueue
<1>7. ASSUME phase'[u] = "live", \A j \in Callers : ~Starting(j, u)'
      PROVE  phase[u] = "live" /\ \A j \in Callers : ~Starting(j, u)
  BY <1>3, <1>4, <1>5, <1>7 DEF Starting
<1>8. ASSUME NEW j \in Callers, Starting(j, u)'
      PROVE  j # k /\ Starting(j, u) /\ call'[j] = call[j]
  BY <1>5, <1>8 DEF Starting
<1>9. QED
  BY <1>3, <1>6, <1>7, <1>8 DEF StartedInv

\* What a command does to vsomeip's applications.
LEMMA EngineStepApps ==
  ASSUME CommandInv, HandlerTypes, NEW t \in Transports, EngineStep(t)
  PROVE  LET cmd == Head(queue[t]) IN
         /\ UNCHANGED vars
         /\ \A a \in AppNames : a # AppName[t] =>
               handlers'[a] = handlers[a] /\ (a \in apps => a \in apps')
         /\ cmd.op # "StopVsomeipApp" => apps \subseteq apps'
         /\ \E ops \in SUBSET Ops, reply \in Results :
               /\ TakeAndReply(t, ops, reply)
               /\ cmd.op = "StartVsomeipApp" /\ reply = "Ok" => AppName[t] \in apps'
<1> DEFINE cmd == Head(queue[t])
<1>1. CASE register_listener_internal(t)
  <2>1. /\ cmd.op = "RegisterListener" /\ TakeAndReply(t, {"RegisterListener"}, "Ok") /\ UNCHANGED apps
        /\ \A a \in AppNames, key \in Keys : a # AppName[t] => handlers'[a][key] = handlers[a][key]
        /\ handlers' \in [AppNames -> [Keys -> Ids \cup {None}]]
    BY <1>1, InstallEffect
  <2>2. \A a \in AppNames : a # AppName[t] => handlers'[a] = handlers[a]
    BY <2>1 DEF HandlerTypes
  <2>3. {"RegisterListener"} \in SUBSET Ops /\ "Ok" \in Results
    BY DEF Ops, Results
  <2>4. QED
    BY <2>1, <2>2, <2>3 DEF TakeAndReply
<1>2. CASE unregister_listener_internal(t)
  <2>1. /\ cmd.op = "UnregisterListener" /\ TakeAndReply(t, {"UnregisterListener"}, "Ok") /\ UNCHANGED apps
        /\ \A a \in AppNames, key \in Keys : a # AppName[t] => handlers'[a][key] = handlers[a][key]
        /\ handlers' \in [AppNames -> [Keys -> Ids \cup {None}]]
    BY <1>2, RemoveEffect
  <2>2. \A a \in AppNames : a # AppName[t] => handlers'[a] = handlers[a]
    BY <2>1 DEF HandlerTypes
  <2>3. {"UnregisterListener"} \in SUBSET Ops /\ "Ok" \in Results
    BY DEF Ops, Results
  <2>4. QED
    BY <2>1, <2>2, <2>3 DEF TakeAndReply
<1>3. CASE stop_vsomeip_app_internal(t)
  <2>1. /\ TakeAndReply(t, {"StopVsomeipApp"}, "Ok") /\ apps' = apps \ {AppName[t]}
        /\ \A a \in AppNames : a # AppName[t] => handlers'[a] = handlers[a]
    BY <1>3, StopEffect
  <2>2. cmd.op = "StopVsomeipApp"
    BY <2>1 DEF TakeAndReply
  <2>3. {"StopVsomeipApp"} \in SUBSET Ops /\ "Ok" \in Results
    BY DEF Ops, Results
  <2>4. QED
    BY <2>1, <2>2, <2>3 DEF TakeAndReply
<1>4. CASE start_vsomeip_app_internal(t)
  <2>1. UNCHANGED handlers /\ apps \subseteq apps'
    BY <1>4, OtherEngineStepsEffect
  <2>2. \E reply \in Results :
           TakeAndReply(t, {"StartVsomeipApp"}, reply) /\ (reply = "Ok" => AppName[t] \in apps')
    BY <1>4 DEF start_vsomeip_app_internal, Results
  <2>3. {"StartVsomeipApp"} \in SUBSET Ops
    BY DEF Ops
  <2>4. QED
    BY <2>1, <2>2, <2>3 DEF TakeAndReply
<1>5. CASE EngineWithoutApp(t)
  <2> DEFINE ops == {"RegisterListener", "UnregisterListener", "StopVsomeipApp"}
  <2>1. UNCHANGED <<handlers, apps>> /\ TakeAndReply(t, ops, "INTERNAL")
    BY <1>5 DEF EngineWithoutApp
  <2>2. cmd.op # "StartVsomeipApp" /\ ops \in SUBSET Ops /\ "INTERNAL" \in Results
    BY <2>1 DEF TakeAndReply, Ops, Results
  <2>3. QED
    BY <2>1, <2>2 DEF TakeAndReply
<1>6. QED
  BY <1>1, <1>2, <1>3, <1>4, <1>5 DEF EngineStep

\* The engine stops no application that is in use.
LEMMA EngineStepKeepsStarted ==
  ASSUME OwnAddresses, BaseInv, HandlerTypes, StartedInv, NEW t \in Transports, EngineStep(t)
  PROVE  StartedInv'
<1> USE DEF BaseInv, EngineInv
<1> DEFINE cmd == Head(queue[t])
<1>1. /\ UNCHANGED phase
      /\ \A a \in AppNames : a # AppName[t] =>
            handlers'[a] = handlers[a] /\ (a \in apps => a \in apps')
      /\ cmd.op # "StopVsomeipApp" => apps \subseteq apps'
  BY EngineStepApps DEF vars, lifecycle
<1>2. PICK ops \in SUBSET Ops, reply \in Results :
         /\ TakeAndReply(t, ops, reply)
         /\ cmd.op = "StartVsomeipApp" /\ reply = "Ok" => AppName[t] \in apps'
  BY EngineStepApps
<1>3. /\ 1 \in DOMAIN queue[t] /\ cmd = queue[t][1] /\ cmd \in Commands
      /\ cmd.caller # None => cmd.caller \in Callers /\ call[cmd.caller] = Waiting(t, cmd)
  BY <1>2, HeadCommand
<1>4. /\ \A u \in Transports : u # t => queue'[u] = queue[u]
      /\ \A i \in DOMAIN queue'[t] :
            i + 1 \in DOMAIN queue[t] /\ queue'[t][i] = queue[t][i + 1]
  BY <1>2, TakeQueue
<1>5. \A j \in Callers :
         /\ call'[j].op = call[j].op /\ call'[j].t = call[j].t
         /\ j # cmd.caller => call'[j] = call[j]
  BY <1>2, ReplyOnly
<1>6. \A j \in Callers, u \in Transports : Starting(j, u)' <=> Starting(j, u)
  BY <1>5 DEF Starting
<1>7. cmd.caller # None => call'[cmd.caller].reply = reply
  <2>1. CASE cmd.caller # None
    <3> DEFINE k == cmd.caller
    <3>1. call' = [call EXCEPT ![k].reply = reply] /\ k \in Callers /\ call[k] \in Calls
      BY <1>2, <1>3, <2>1 DEF TakeAndReply, CallInv
    <3> HIDE DEF k
    <3>2. call'[k].reply = reply
      BY <3>1 DEF CallInv, Calls
    <3>3. QED
      BY <3>2 DEF k
  <2>2. QED
    BY <2>1
<1>8. cmd.caller # None => call[cmd.caller].t = t /\ call[cmd.caller].op = cmd.op
  BY <1>3 DEF Waiting
<1> HIDE DEF cmd
<1> SUFFICES ASSUME NEW u \in Transports
             PROVE  /\ phase[u] = "absent" => DOMAIN queue'[u] = {} /\ handlers'[AppName[u]] = NoHandlers
                    /\ phase[u] = "live" /\ (\A j \in Callers : ~Starting(j, u)) =>
                          /\ AppName[u] \in apps'
                          /\ \A i \in DOMAIN queue'[u] :
                                queue'[u][i].op \in {"RegisterListener", "UnregisterListener"}
                    /\ \A j \in Callers : Starting(j, u) =>
                          /\ \A i \in DOMAIN queue'[u] : queue'[u][i].caller = j
                          /\ call'[j].reply = "Ok" => AppName[u] \in apps'
  BY <1>1, <1>6 DEF StartedInv, NoHandlers, Keys
<1>9. CASE u # t
  <2>1. AppName[u] # AppName[t] /\ AppName[u] \in AppNames
    BY <1>9, AddressesAreKeys DEF OwnAddresses
  <2>2. /\ handlers'[AppName[u]] = handlers[AppName[u]] /\ queue'[u] = queue[u]
        /\ AppName[u] \in apps => AppName[u] \in apps'
    BY <1>1, <1>4, <1>9, <2>1
  <2>3. ASSUME NEW j \in Callers, Starting(j, u) PROVE call'[j] = call[j]
    <3>1. call[j].t = u
      BY <2>3 DEF Starting
    <3>2. j \in Callers /\ None \notin Callers
      BY EngineAssumption
    <3>3. j # cmd.caller
      BY <1>8, <1>9, <3>1, <3>2
    <3>4. QED
      BY <1>5, <3>3
  <2>4. QED
    BY <2>2, <2>3 DEF StartedInv
<1>10. CASE u = t
  <2>1. phase[t] # "absent"
    BY <1>3 DEF StartedInv
  <2>2. ASSUME phase[t] = "live", \A j \in Callers : ~Starting(j, t)
        PROVE  /\ AppName[t] \in apps'
               /\ \A i \in DOMAIN queue'[t] :
                     queue'[t][i].op \in {"RegisterListener", "UnregisterListener"}
    <3>1. /\ AppName[t] \in apps
          /\ \A i \in DOMAIN queue[t] :
                queue[t][i].op \in {"RegisterListener", "UnregisterListener"}
      BY <2>2 DEF StartedInv
    <3>2. cmd.op # "StopVsomeipApp"
      BY <1>3, <3>1
    <3>3. QED
      BY <1>1, <1>4, <3>1, <3>2
  <2>3. ASSUME NEW j \in Callers, Starting(j, t)
        PROVE  /\ \A i \in DOMAIN queue'[t] : queue'[t][i].caller = j
               /\ call'[j].reply = "Ok" => AppName[t] \in apps'
    <3>1. \A i \in DOMAIN queue[t] : queue[t][i].caller = j
      BY <2>3 DEF StartedInv
    <3>2. cmd.caller = j /\ j # None
      BY <1>3, <3>1, EngineAssumption
    <3>3. cmd.op = "StartVsomeipApp"
      BY <1>8, <2>3, <3>2 DEF Starting
    <3>4. QED
      BY <1>2, <1>4, <1>7, <3>1, <3>2, <3>3
  <2>4. QED
    BY <1>10, <2>1, <2>2, <2>3
<1>11. QED
  BY <1>9, <1>10

\* Callbacks and stuttering change nothing here.
LEMMA NextKeepsStarted ==
  ASSUME OwnAddresses, BaseInv, HandlerTypes, StartedInv, [EngineNext]_evars
  PROVE  StartedInv'
<1>1. ASSUME NEW k \in Callers, NEW t \in Transports,
             \/ NewCall(k, t) \/ DropCall(k, t)
             \/ \E c \in Configs : RegisterCall(k, t, c) \/ UnregisterCall(k, t, c)
      PROVE  StartedInv'
  BY <1>1, CallBeginsKeepsStarted
<1>2. ASSUME NEW k \in Callers, Enqueue(k) \/ CallStep(k) \/ AwaitTimeout(k)
      PROVE  StartedInv'
  BY <1>2, EnqueueKeepsStarted, CallStepKeepsStarted, TimeoutKeepsStarted
<1>3. ASSUME NEW t \in Transports, EngineStep(t) PROVE StartedInv'
  BY <1>3, EngineStepKeepsStarted
<1>4. ASSUME UNCHANGED <<queue, call, apps, handlers, phase>> PROVE StartedInv'
  BY <1>4, QuietKeepsStarted DEF Starting
<1>5. ASSUME NEW k \in Callbacks,
             CallbackStep(k) \/ \E a \in AppNames, key \in Keys : Dispatch(k, a, key)
      PROVE  StartedInv'
  BY <1>4, <1>5 DEF CallbackStep, Dispatch, CallbackLookup, CallbackConvert, CallbackFetch,
     CallbackDeliver, engineVars, lifecycle
<1>6. CASE UNCHANGED evars
  BY <1>4, <1>6 DEF evars, engineVars, vars, lifecycle
<1>7. QED
  BY <1>1, <1>2, <1>3, <1>5, <1>6 DEF EngineNext

-----------------------------------------------------------------------------
(* The channel ends in what the registry says.                             *)

\* A step that changes neither side.
LEMMA SameEnds ==
  ASSUME NEW t \in Transports, NEW c \in Configs, EndsAt(t, c),
         AheadOf(t, c)' <=> AheadOf(t, c),
         \A v : Ends(t, c, v) => Ends(t, c, v)',
         \A id \in Ids : listenerConfigs'[t][id] = c <=> listenerConfigs[t][id] = c
  PROVE  EndsAt(t, c)'
<1> DEFINE E(v) == Ends(t, c, v)
           F(v) == Ends(t, c, v)'
           A == AheadOf(t, c)
           B == AheadOf(t, c)'
<1>1. /\ A \/ (\A id \in Ids : listenerConfigs[t][id] # c) => E(None)
      /\ ~A => \A id \in Ids : listenerConfigs[t][id] = c => E(id)
  BY DEF EndsAt
<1>2. (B <=> A) /\ \A v : E(v) => F(v)
  OBVIOUS
<1> SUFFICES /\ B \/ (\A id \in Ids : listenerConfigs'[t][id] # c) => F(None)
             /\ ~B => \A id \in Ids : listenerConfigs'[t][id] = c => F(id)
  BY DEF EndsAt
<1> HIDE DEF E, F, A, B
<1>3. QED
  BY <1>1, <1>2

\* The channel keeps its commands and vsomeip its handlers.
LEMMA QuietEnds ==
  ASSUME NEW t \in Transports, NEW c, NEW v, Ends(t, c, v), UNCHANGED handlers,
         DOMAIN queue'[t] = DOMAIN queue[t],
         \A i \in DOMAIN queue[t] :
            /\ queue'[t][i].op = queue[t][i].op /\ queue'[t][i].config = queue[t][i].config
            /\ queue'[t][i].id = queue[t][i].id
  PROVE  Ends(t, c, v)'
  BY DEF Ends, About, HandlerAfter

\* Whose call is ahead of the channel, when one caller goes on.
LEMMA SameAhead ==
  ASSUME CallInv, NEW k \in Callers, NEW r, call' = [call EXCEPT ![k] = r],
         NEW t \in Transports, NEW c \in Configs,
         Ahead(r) /\ r.t = t /\ r.config = c
            <=> Ahead(call[k]) /\ call[k].t = t /\ call[k].config = c
  PROVE  AheadOf(t, c)' <=> AheadOf(t, c)
<1>1. \A j \in Callers : call'[j] = IF j = k THEN r ELSE call[j]
  BY DEF CallInv
<1>2. \A j \in Callers :
         Ahead(call'[j]) /\ call'[j].t = t /\ call'[j].config = c
            <=> Ahead(call[j]) /\ call[j].t = t /\ call[j].config = c
  BY <1>1
<1>3. QED
  BY <1>2 DEF AheadOf

\* A caller goes on, and leaves the channel, vsomeip and the registry as they are.
LEMMA QuietCallerKeepsEnds ==
  ASSUME CallInv, EndsInv, NEW k \in Callers, NEW r, call' = [call EXCEPT ![k] = r],
         UNCHANGED <<handlers, listenerConfigs>>,
         \A t \in Transports :
            /\ phase'[t] = "live" => phase[t] = "live"
            /\ DOMAIN queue'[t] = DOMAIN queue[t]
            /\ \A i \in DOMAIN queue[t] :
                  /\ queue'[t][i].op = queue[t][i].op /\ queue'[t][i].config = queue[t][i].config
                  /\ queue'[t][i].id = queue[t][i].id,
         Ahead(r) \/ Ahead(call[k]) =>
            Ahead(r) /\ Ahead(call[k]) /\ r.t = call[k].t /\ r.config = call[k].config
  PROVE  EndsInv'
<1> SUFFICES ASSUME NEW t \in Transports, NEW c \in Configs, phase'[t] = "live"
             PROVE  EndsAt(t, c)'
  BY DEF EndsInv
<1>1. EndsAt(t, c)
  BY DEF EndsInv
<1>2. AheadOf(t, c)' <=> AheadOf(t, c)
  <2>1. Ahead(r) /\ r.t = t /\ r.config = c
            <=> Ahead(call[k]) /\ call[k].t = t /\ call[k].config = c
    OBVIOUS
  <2>2. QED
    BY <2>1, SameAhead
<1>3. ASSUME NEW v, Ends(t, c, v) PROVE Ends(t, c, v)'
  BY <1>3, QuietEnds
<1>4. QED
  BY <1>1, <1>2, <1>3, SameEnds

\* Calls that are not ahead of the channel.
LEMMA NotAhead ==
  /\ ~Ahead(Returned)
  /\ \A t : ~Ahead(Dropping(t))
  /\ \A t, c : /\ ~Ahead(Sending("UnregisterListener", t, c, None))
               /\ ~Ahead(Sending("StartVsomeipApp", t, c, None))
               /\ ~Ahead(Sending("StopVsomeipApp", t, c, None))
  /\ \A r : r.op = None => ~Ahead(r)
<1>1. None # "RegisterListener" /\ None # "UnregisterListener"
  BY EngineAssumption DEF Ops
<1>2. QED
  BY <1>1 DEF Ahead, Returned, Dropping, Sending

\* new: nothing is registered and nothing is in the channel.
LEMMA NewCallKeepsEnds ==
  ASSUME BaseInv, HandlerTypes, StartedInv, EndsInv, NEW k \in Callers, NEW t \in Transports,
         NewCall(k, t)
  PROVE  EndsInv'
<1> USE DEF BaseInv, EngineInv
<1> DEFINE r == Sending("StartVsomeipApp", t, None, None)
<1>1. /\ call[k].pc = "idle" /\ phase[t] = "absent" /\ call' = [call EXCEPT ![k] = r]
      /\ phase' = [phase EXCEPT ![t] = "live"] /\ UNCHANGED <<queue, handlers, listenerConfigs>>
  BY DEF NewCall, New, registry
<1>2. ~Ahead(r) /\ ~Ahead(call[k])
  <2>1. call[k].op = None
    BY <1>1, EngineAssumption DEF UsageInv, ProperUse
  <2>2. QED
    BY <2>1, NotAhead
<1> HIDE DEF r
<1> SUFFICES ASSUME NEW u \in Transports, NEW c \in Configs, phase'[u] = "live"
             PROVE  EndsAt(u, c)'
  BY DEF EndsInv
<1>3. CASE u # t
  <2>1. phase[u] = "live"
    BY <1>1, <1>3 DEF IInv, TypeOK
  <2>2. EndsAt(u, c)
    BY <2>1 DEF EndsInv
  <2>3. AheadOf(u, c)' <=> AheadOf(u, c)
    BY <1>1, <1>2, SameAhead
  <2>4. ASSUME NEW v, Ends(u, c, v) PROVE Ends(u, c, v)'
    BY <1>1, <2>4, QuietEnds
  <2>5. QED
    BY <1>1, <2>2, <2>3, <2>4, SameEnds
<1>4. CASE u = t
  <2>1. DOMAIN queue'[t] = {} /\ handlers'[AppName[t]] = NoHandlers
    BY <1>1 DEF StartedInv
  <2>2. handlers'[AppName[t]][RegisterKey(c)] = None
    BY <2>1, AddressesAreKeys DEF NoHandlers
  <2>3. Ends(t, c, None)'
    BY <2>1, <2>2 DEF Ends
  <2>4. \A id \in Ids : listenerConfigs'[t][id] # c
    BY <1>1, NoneAssumption DEF IInv, NothingHeldAfterDrop
  <2>5. QED
    BY <1>4, <2>3, <2>4 DEF EndsAt
<1>5. QED
  BY <1>3, <1>4

\* register_listener: the configuration had no handler, and the call is ahead.
LEMMA RegisterCallKeepsEnds ==
  ASSUME BaseInv, EndsInv, NEW k \in Callers, NEW t \in Transports, NEW c \in Configs,
         RegisterCall(k, t, c)
  PROVE  EndsInv'
<1> USE DEF BaseInv, EngineInv
<1>1. call[k].pc = "idle" /\ phase[t] = "live" /\ UNCHANGED <<phase, queue, handlers>>
  BY DEF RegisterCall, Usable, Register, lifecycle
<1>2. call[k].op = None
  BY <1>1, EngineAssumption DEF UsageInv, ProperUse
<1>3. CASE UNCHANGED <<registry, call>>
  <2> SUFFICES ASSUME NEW u \in Transports, NEW d \in Configs, phase'[u] = "live"
               PROVE  EndsAt(u, d)'
    BY DEF EndsInv
  <2>1. EndsAt(u, d) /\ (AheadOf(u, d)' <=> AheadOf(u, d))
    BY <1>1, <1>3 DEF EndsInv, AheadOf
  <2>2. ASSUME NEW v, Ends(u, d, v) PROVE Ends(u, d, v)'
    BY <1>1, <2>2, QuietEnds
  <2>3. QED
    BY <1>3, <2>1, <2>2, SameEnds DEF registry
<1>4. ASSUME NEW id \in Ids, \A u \in Transports : listenerConfigs[u][id] = None,
             listenerConfigs' = [listenerConfigs EXCEPT ![t][id] = c],
             call' = [call EXCEPT ![k] = Sending("RegisterListener", t, c, id)]
      PROVE  EndsInv'
  <2> DEFINE r == Sending("RegisterListener", t, c, id)
  <2>1. Ahead(r) /\ r.t = t /\ r.config = c /\ ~Ahead(call[k])
    <3>1. ~Ahead(call[k])
      BY <1>2, NotAhead
    <3>2. QED
      BY <3>1 DEF Ahead, Sending
  <2>2. call' = [call EXCEPT ![k] = r]
    BY <1>4
  <2> HIDE DEF r
  <2>3. /\ \A i \in Ids : listenerConfigs'[t][i] = IF i = id THEN c ELSE listenerConfigs[t][i]
        /\ \A u \in Transports : u # t => listenerConfigs'[u] = listenerConfigs[u]
    BY <1>4 DEF IInv, TypeOK
  <2>4. \A i \in Ids : listenerConfigs[t][i] # c
    <3>1. OneHandlerPerConfig'
      <4>1. [EngineNext]_evars
        BY DEF EngineNext
      <4>2. QED
        BY <4>1, BaseInductive DEF IInv, RegistryInv
    <3>2. ASSUME NEW i \in Ids, listenerConfigs[t][i] = c PROVE FALSE
      <4>1. i # id
        BY <1>4, <3>2, NoneAssumption
      <4>2. listenerConfigs'[t][i] = c /\ listenerConfigs'[t][id] = c /\ c # None
        BY <2>3, <3>2, <4>1, NoneAssumption
      <4>3. QED
        BY <3>1, <4>1, <4>2 DEF OneHandlerPerConfig
    <3>3. QED
      BY <3>2
  <2> SUFFICES ASSUME NEW u \in Transports, NEW d \in Configs, phase'[u] = "live"
               PROVE  EndsAt(u, d)'
    BY DEF EndsInv
  <2>5. EndsAt(u, d) /\ \A v : Ends(u, d, v) => Ends(u, d, v)'
    <3>1. ASSUME NEW v, Ends(u, d, v) PROVE Ends(u, d, v)'
      BY <1>1, <3>1, QuietEnds
    <3>2. QED
      BY <1>1, <3>1 DEF EndsInv
  <2>6. CASE u = t /\ d = c
    <3>1. AheadOf(t, c)'
      <4>1. call'[k] = r
        BY <2>2 DEF CallInv
      <4>2. QED
        BY <2>1, <4>1 DEF AheadOf
    <3>2. Ends(t, c, None)'
      BY <2>4, <2>5, <2>6 DEF EndsAt
    <3>3. QED
      BY <2>6, <3>1, <3>2 DEF EndsAt
  <2>7. CASE ~(u = t /\ d = c)
    <3>1. AheadOf(u, d)' <=> AheadOf(u, d)
      BY <2>1, <2>2, <2>7, SameAhead
    <3>2. \A i \in Ids : listenerConfigs'[u][i] = d <=> listenerConfigs[u][i] = d
      <4>1. CASE u # t
        BY <2>3, <4>1
      <4>2. CASE u = t
        BY <1>4, <2>3, <2>7, <4>2, NoneAssumption
      <4>3. QED
        BY <4>1, <4>2
    <3>3. QED
      BY <2>5, <3>1, <3>2, SameEnds
  <2>8. QED
    BY <2>6, <2>7
<1>5. QED
  BY <1>3, <1>4, RegisterCallGrants

\* The other calls begin without being ahead of the channel.
LEMMA OtherCallsKeepEnds ==
  ASSUME BaseInv, EndsInv, NEW k \in Callers, NEW t \in Transports,
         DropCall(k, t) \/ DropNext(k) \/ \E c \in Configs : UnregisterCall(k, t, c)
  PROVE  EndsInv'
<1> USE DEF BaseInv, EngineInv
<1>1. UNCHANGED <<queue, handlers, listenerConfigs>> /\ call[k].pc \in {"idle", "drop"}
  BY DEF DropCall, DropNext, UnregisterCall, DropBegin, registry, vars
<1>2. \A u \in Transports : phase'[u] = "live" => phase[u] = "live"
  BY DEF DropCall, DropNext, UnregisterCall, DropBegin, vars, lifecycle, IInv, TypeOK
<1>3. ~Ahead(call[k])
  <2>1. call[k].op = None
    BY <1>1 DEF UsageInv, ProperUse
  <2>2. QED
    BY <2>1, NotAhead
<1>4. ASSUME NEW r, call' = [call EXCEPT ![k] = r], ~Ahead(r) PROVE EndsInv'
  BY <1>1, <1>2, <1>3, <1>4, QuietCallerKeepsEnds
<1>5. CASE DropCall(k, t)
  BY <1>4, <1>5, NotAhead DEF DropCall
<1>6. CASE DropNext(k)
  BY <1>4, <1>6, NotAhead DEF DropNext
<1>7. ASSUME NEW c \in Configs, UnregisterCall(k, t, c) PROVE EndsInv'
  BY <1>4, <1>7, NotAhead DEF UnregisterCall
<1>8. QED
  BY <1>5, <1>6, <1>7

\* A call that has its answer, or gives up waiting for it, is as far ahead of the
\* channel as it was.
LEMMA FinishKeepsEnds ==
  ASSUME BaseInv, EndsInv, NEW k \in Callers, NEW reply, call[k].pc = "await", Finish(k, reply),
         UNCHANGED handlers,
         \A t \in Transports :
            /\ DOMAIN queue'[t] = DOMAIN queue[t]
            /\ \A i \in DOMAIN queue[t] :
                  /\ queue'[t][i].op = queue[t][i].op /\ queue'[t][i].config = queue[t][i].config
                  /\ queue'[t][i].id = queue[t][i].id
  PROVE  EndsInv'
<1> USE DEF BaseInv, EngineInv
<1>1. UNCHANGED listenerConfigs /\ \A u \in Transports : phase'[u] = "live" => phase[u] = "live"
  BY DEF Finish, DropBegin, DropEnd, registry, vars, lifecycle, IInv, TypeOK
<1>2. CASE call[k].op # "UnregisterListener"
  <2>1. ~Ahead(call[k])
    BY <1>2 DEF Ahead
  <2>2. PICK r : call' = [call EXCEPT ![k] = r] /\ ~Ahead(r)
    BY <1>2, NotAhead DEF Finish
  <2>3. QED
    BY <1>1, <2>1, <2>2, QuietCallerKeepsEnds
<1>3. CASE call[k].op = "UnregisterListener"
  <2> DEFINE r == [call[k] EXCEPT !.pc = "release", !.reply = None]
  <2>1. call[k] \in Calls /\ call' = [call EXCEPT ![k].pc = "release", ![k].reply = None]
    BY <1>3 DEF Finish, CallInv
  <2>2. call' = [call EXCEPT ![k] = r]
    BY <2>1 DEF CallInv, Calls
  <2>3. r.pc = "release" /\ r.op = call[k].op /\ r.t = call[k].t /\ r.config = call[k].config
    BY <2>1 DEF Calls
  <2> HIDE DEF r
  <2>4. Ahead(r) /\ Ahead(call[k])
    BY <1>3, <2>3 DEF Ahead
  <2>5. QED
    BY <1>1, <2>2, <2>3, <2>4, QuietCallerKeepsEnds
<1>4. QED
  BY <1>2, <1>3

\* release_message_handler: the registry catches up with the channel.
LEMMA ReleaseKeepsEnds ==
  ASSUME BaseInv, EndsInv, NEW k \in Callers, ReleaseHandler(k)
  PROVE  EndsInv'
<1> USE DEF BaseInv, EngineInv
<1> DEFINE t == call[k].t
           c == call[k].config
<1>1. t \in Transports /\ c \in Configs /\ call[k].op = "UnregisterListener" /\ call[k].pc = "release"
  BY ReleaseEffect DEF ReleaseHandler
<1>2. UNCHANGED <<phase, queue, handlers>>
  BY DEF ReleaseHandler, Unregister, DropRelease, lifecycle
<1>3. PICK r : call' = [call EXCEPT ![k] = r] /\ ~Ahead(r)
  BY NotAhead DEF ReleaseHandler
<1>4. Ahead(call[k])
  BY <1>1 DEF Ahead
<1>5. /\ \A i \in Ids : listenerConfigs'[t][i] # c
      /\ \A u \in Transports, d \in Configs, i \in Ids : u # t \/ d # c =>
            (listenerConfigs'[u][i] = d <=> listenerConfigs[u][i] = d)
  <2>1. CASE UNCHANGED registry
    <3>1. c \notin ConfigsOf(t)
      <4>1. ASSUME NEW id \in Ids, release_message_handler(t, c, id) PROVE FALSE
        <5>1. listenerConfigs[t][id] = c /\ listenerConfigs'[t][id] = None
          BY <1>1, <4>1 DEF release_message_handler, IInv, TypeOK
        <5>2. QED
          BY <1>1, <2>1, <5>1, NoneAssumption DEF registry
      <4>2. QED
        BY <4>1 DEF ReleaseHandler, Unregister, DropRelease, release_message_handler_not_found
    <3>2. QED
      BY <1>1, <2>1, <3>1, NoneAssumption DEF ConfigsOf, registry
  <2>2. ASSUME NEW id \in Ids, listenerConfigs[t][id] = c,
               listenerConfigs' = [listenerConfigs EXCEPT ![t][id] = None]
        PROVE  /\ \A i \in Ids : listenerConfigs'[t][i] # c
               /\ \A u \in Transports, d \in Configs, i \in Ids : u # t \/ d # c =>
                     (listenerConfigs'[u][i] = d <=> listenerConfigs[u][i] = d)
    <3> HIDE DEF t, c
    <3>1. /\ \A i \in Ids : listenerConfigs'[t][i] = IF i = id THEN None ELSE listenerConfigs[t][i]
          /\ \A u \in Transports : u # t => listenerConfigs'[u] = listenerConfigs[u]
      BY <1>1, <2>2 DEF IInv, TypeOK
    <3>2. \A i \in Ids : listenerConfigs[t][i] = c => i = id
      BY <1>1, <2>2, NoneAssumption DEF IInv, RegistryInv, OneHandlerPerConfig
    <3>3. \A i \in Ids : listenerConfigs'[t][i] # c
      BY <1>1, <3>1, <3>2, NoneAssumption
    <3>4. ASSUME NEW u \in Transports, NEW d \in Configs, NEW i \in Ids, u # t \/ d # c
          PROVE  listenerConfigs'[u][i] = d <=> listenerConfigs[u][i] = d
      <4>1. CASE u # t
        BY <3>1, <4>1
      <4>2. CASE u = t /\ d # c
        BY <2>2, <3>1, <4>2, NoneAssumption
      <4>3. QED
        BY <3>4, <4>1, <4>2
    <3>5. QED
      BY <3>3, <3>4
  <2>3. QED
    BY <2>1, <2>2, ReleaseEffect
<1> SUFFICES ASSUME NEW u \in Transports, NEW d \in Configs, phase'[u] = "live"
             PROVE  EndsAt(u, d)'
  BY DEF EndsInv
<1>6. EndsAt(u, d) /\ \A v : Ends(u, d, v) => Ends(u, d, v)'
  <2>1. ASSUME NEW v, Ends(u, d, v) PROVE Ends(u, d, v)'
    BY <1>2, <2>1, QuietEnds
  <2>2. QED
    BY <1>2, <2>1 DEF EndsInv
<1>7. CASE u = t /\ d = c
  <2>1. AheadOf(u, d)
    BY <1>4, <1>7 DEF AheadOf
  <2> HIDE DEF t, c
  <2>2. Ends(u, d, None)'
    BY <1>6, <2>1 DEF EndsAt
  <2>3. QED
    BY <1>5, <1>7, <2>2 DEF EndsAt
<1>8. CASE ~(u = t /\ d = c)
  <2>1. AheadOf(u, d)' <=> AheadOf(u, d)
    BY <1>3, <1>8, SameAhead
  <2> HIDE DEF t, c
  <2>2. QED
    BY <1>5, <1>6, <1>8, <2>1, SameEnds
<1>9. QED
  BY <1>7, <1>8

\* The command of a registration or unregistration decides how the channel ends.
LEMMA EnqueueKeepsEnds ==
  ASSUME SeparateConfigs, BaseInv, RegisteringHolds, EndsInv, NEW k \in Callers, Enqueue(k)
  PROVE  EndsInv'
<1> USE DEF BaseInv, EngineInv
<1>1. PICK t, c, id, op :
         /\ t = call[k].t /\ c = call[k].config /\ id = call[k].id /\ op = call[k].op
         /\ t \in Transports /\ op \in Ops
  BY EnqueueQueue DEF CommandInv, CompleteCommands
<1>2. /\ call[k].pc = "send" /\ UNCHANGED <<phase, handlers, listenerConfigs>>
      /\ \A u \in Transports : u # t => queue'[u] = queue[u]
  BY <1>1, EnqueueQueue DEF Enqueue, vars, lifecycle, registry
<1>3. PICK n \in Nat :
         /\ n \notin DOMAIN queue[t]
         /\ DOMAIN queue'[t] = DOMAIN queue[t] \cup {n}
         /\ \A i \in DOMAIN queue[t] : i \in Nat /\ i < n /\ queue'[t][i] = queue[t][i]
         /\ queue'[t][n] = [op |-> op, config |-> c, id |-> id, caller |-> k]
  BY <1>1, EnqueueQueue
<1>4. queue'[t][n].op = op /\ queue'[t][n].config = c /\ queue'[t][n].id = id
  BY <1>3
<1>5. PICK r : /\ call' = [call EXCEPT ![k] = r]
               /\ r.pc = "await" /\ r.op = op /\ r.t = t /\ r.config = c
  <2>1. call' = [call EXCEPT ![k].pc = "await"] /\ call[k] \in Calls
    BY DEF Enqueue, CallInv
  <2> WITNESS [call[k] EXCEPT !.pc = "await"]
  <2>2. QED
    BY <1>1, <2>1 DEF CallInv, Calls
<1>6. \A j \in Callers : call'[j] = IF j = k THEN r ELSE call[j]
  BY <1>5 DEF CallInv
<1>7. op \in {"RegisterListener", "UnregisterListener"} => c \in Configs
  BY <1>1, <1>2 DEF CommandInv, CompleteCommands, Complete
<1> SUFFICES ASSUME NEW u \in Transports, NEW d \in Configs, phase'[u] = "live"
             PROVE  EndsAt(u, d)'
  BY DEF EndsInv
<1>8. EndsAt(u, d) /\ phase[u] = "live"
  BY <1>2 DEF EndsInv
<1>9. CASE u # t \/ d # c \/ op \notin {"RegisterListener", "UnregisterListener"}
  <2>1. AheadOf(u, d)' <=> AheadOf(u, d)
    <3>1. Ahead(r) /\ r.t = u /\ r.config = d
            <=> Ahead(call[k]) /\ call[k].t = u /\ call[k].config = d
      BY <1>1, <1>5, <1>9 DEF Ahead
    <3>2. QED
      BY <1>5, <3>1, SameAhead
  <2>2. ASSUME NEW v, Ends(u, d, v) PROVE Ends(u, d, v)'
    <3>1. CASE u # t
      BY <1>2, <2>2, <3>1, QuietEnds
    <3>2. CASE u = t
      <4>1. ~About(queue'[t][n], d)
        BY <1>4, <1>9, <3>2 DEF About
      <4>2. QED
        BY <1>2, <1>3, <2>2, <3>2, <4>1 DEF Ends
    <3>3. QED
      BY <3>1, <3>2
  <2>3. QED
    BY <1>2, <1>8, <2>1, <2>2, SameEnds
<1>10. CASE u = t /\ d = c /\ op = "UnregisterListener"
  <2>1. About(queue'[t][n], c) /\ HandlerAfter(queue'[t][n]) = None
    BY <1>4, <1>10 DEF About, HandlerAfter
  <2>2. Ends(t, c, None)'
    BY <1>3, <2>1 DEF Ends
  <2>3. AheadOf(t, c)'
    <3>1. Ahead(call'[k]) /\ call'[k].t = t /\ call'[k].config = c
      BY <1>5, <1>6, <1>10 DEF Ahead
    <3>2. QED
      BY <3>1 DEF AheadOf
  <2>4. QED
    BY <1>10, <2>2, <2>3 DEF EndsAt
<1>11. CASE u = t /\ d = c /\ op = "RegisterListener"
  <2>1. About(queue'[t][n], c) /\ HandlerAfter(queue'[t][n]) = id
    BY <1>4, <1>11 DEF About, HandlerAfter
  <2>2. Ends(t, c, id)'
    BY <1>3, <2>1 DEF Ends
  <2>3. id \in Ids /\ listenerConfigs[t][id] = c
    BY <1>1, <1>2, <1>11 DEF CommandInv, CompleteCommands, Complete, RegisteringHolds
  <2>4. ASSUME NEW i \in Ids, listenerConfigs[t][i] = c PROVE i = id
    BY <1>7, <1>11, <2>3, <2>4, NoneAssumption DEF IInv, RegistryInv, OneHandlerPerConfig
  <2>5. ~AheadOf(t, c)'
    <3>1. ASSUME NEW j \in Callers, Ahead(call'[j]), call'[j].t = t, call'[j].config = c
          PROVE  FALSE
      <4>1. j # k
        BY <1>5, <1>6, <1>11, <3>1 DEF Ahead
      <4>2. Ahead(call[j]) /\ call[j].t = t /\ call[j].config = c
        BY <1>6, <3>1, <4>1
      <4>3. call[j].op \in {"RegisterListener", "UnregisterListener"}
        BY <4>2 DEF Ahead
      <4>4. call[k].op \in {"RegisterListener", "UnregisterListener"}
        BY <1>1, <1>11
      <4>5. QED
        BY <1>1, <4>1, <4>2, <4>3, <4>4, OneCallerPerConfig
    <3>2. QED
      BY <3>1 DEF AheadOf
  <2>6. QED
    BY <1>2, <1>11, <2>2, <2>3, <2>4, <2>5 DEF EndsAt
<1>12. QED
  BY <1>9, <1>10, <1>11

\* Taking the first command: what it leaves is what the rest of the channel
\* starts from.
LEMMA TakeKeepsEnds ==
  ASSUME CommandInv, NEW t \in Transports, NEW ops, NEW reply, TakeAndReply(t, ops, reply),
         NEW c \in Configs, NEW v, Ends(t, c, v),
         About(Head(queue[t]), c) =>
            handlers'[AppName[t]][RegisterKey(c)] = HandlerAfter(Head(queue[t])),
         ~About(Head(queue[t]), c) =>
            handlers'[AppName[t]][RegisterKey(c)] = handlers[AppName[t]][RegisterKey(c)]
  PROVE  Ends(t, c, v)'
<1>1. 1 \in DOMAIN queue[t] /\ Head(queue[t]) = queue[t][1]
  BY HeadCommand
<1>2. /\ \A i \in DOMAIN queue[t] : i \in Nat /\ i >= 1
      /\ \A i \in DOMAIN queue'[t] :
            i \in Nat /\ i >= 1 /\ i + 1 \in DOMAIN queue[t] /\ queue'[t][i] = queue[t][i + 1]
      /\ \A i \in DOMAIN queue[t] : i # 1 => i - 1 \in DOMAIN queue'[t]
  BY TakeQueue
<1>3. \A i \in DOMAIN queue[t] : i # 1 => queue[t][i] = queue'[t][i - 1]
  <2>1. ASSUME NEW i \in DOMAIN queue[t], i # 1 PROVE queue[t][i] = queue'[t][i - 1]
    <3>1. i - 1 \in DOMAIN queue'[t] /\ i \in Nat
      BY <1>2, <2>1
    <3>2. queue'[t][i - 1] = queue[t][(i - 1) + 1] /\ (i - 1) + 1 = i
      BY <1>2, <3>1
    <3>3. QED
      BY <3>2
  <2>2. QED
    BY <2>1
<1>4. ASSUME NEW i \in DOMAIN queue'[t], About(queue'[t][i], c),
             \A j \in DOMAIN queue'[t] : j > i => ~About(queue'[t][j], c)
      PROVE  HandlerAfter(queue'[t][i]) = v
  <2>1. i \in Nat /\ i >= 1 /\ i + 1 \in DOMAIN queue[t] /\ queue'[t][i] = queue[t][i + 1]
    BY <1>2
  <2>2. ASSUME NEW j \in DOMAIN queue[t], j > i + 1 PROVE ~About(queue[t][j], c)
    <3>1. j \in Nat /\ j # 1 /\ j - 1 > i
      BY <1>2, <2>1, <2>2
    <3>2. j - 1 \in DOMAIN queue'[t] /\ queue[t][j] = queue'[t][j - 1]
      BY <1>2, <1>3, <3>1
    <3>3. QED
      BY <1>4, <3>1, <3>2
  <2>3. QED
    BY <1>4, <2>1, <2>2 DEF Ends
<1>5. ASSUME \A i \in DOMAIN queue'[t] : ~About(queue'[t][i], c)
      PROVE  handlers'[AppName[t]][RegisterKey(c)] = v
  <2>1. \A i \in DOMAIN queue[t] : i # 1 => ~About(queue[t][i], c)
    BY <1>2, <1>3, <1>5
  <2>2. CASE About(queue[t][1], c)
    <3>1. \A j \in DOMAIN queue[t] : j > 1 => ~About(queue[t][j], c)
      BY <1>2, <2>1
    <3>2. HandlerAfter(queue[t][1]) = v
      BY <1>1, <2>2, <3>1 DEF Ends
    <3>3. QED
      BY <1>1, <2>2, <3>2
  <2>3. CASE ~About(queue[t][1], c)
    BY <1>1, <2>1, <2>3 DEF Ends
  <2>4. QED
    BY <2>2, <2>3
<1>6. QED
  BY <1>4, <1>5 DEF Ends

\* What a command for a live transport does to the address of a configuration.
LEMMA LiveCommandEffect ==
  ASSUME OwnAddresses, BaseInv, HandlerTypes, StartedInv,
         NEW t \in Transports, EngineStep(t), phase[t] = "live", NEW c \in Configs
  PROVE  LET cmd == Head(queue[t]) IN
         /\ About(cmd, c) => handlers'[AppName[t]][RegisterKey(c)] = HandlerAfter(cmd)
         /\ ~About(cmd, c) =>
               handlers'[AppName[t]][RegisterKey(c)] = handlers[AppName[t]][RegisterKey(c)]
<1> USE DEF BaseInv, EngineInv
<1> DEFINE cmd == Head(queue[t])
           key == RegisterKey(c)
           a == AppName[t]
<1>0. a \in AppNames /\ key \in Keys
  BY AddressesAreKeys
<1>1. CASE register_listener_internal(t)
  <2>1. /\ cmd.op = "RegisterListener" /\ cmd.config \in Configs
        /\ handlers'[a][key] = IF key = RegisterKey(cmd.config) THEN cmd.id ELSE handlers[a][key]
    BY <1>0, <1>1, InstallEffect
  <2>2. key = RegisterKey(cmd.config) <=> cmd.config = c
    BY <2>1 DEF OwnAddresses
  <2> HIDE DEF cmd, key, a
  <2>3. QED
    BY <2>1, <2>2 DEF About, HandlerAfter, cmd, key, a
<1>2. CASE unregister_listener_internal(t)
  <2>1. /\ cmd.op = "UnregisterListener" /\ cmd.config \in Configs
        /\ handlers'[a][key] = IF key = UnregisterKey(cmd.config) THEN None ELSE handlers[a][key]
    BY <1>0, <1>2, RemoveEffect
  <2>2. key = UnregisterKey(cmd.config) <=> cmd.config = c
    BY <2>1 DEF OwnAddresses
  <2> HIDE DEF cmd, key, a
  <2>3. QED
    BY <2>1, <2>2 DEF About, HandlerAfter, cmd, key, a
<1>3. CASE start_vsomeip_app_internal(t)
  <2>1. cmd.op = "StartVsomeipApp"
    BY <1>3 DEF start_vsomeip_app_internal, TakeAndReply
  <2>2. UNCHANGED handlers
    BY <1>3, OtherEngineStepsEffect
  <2>3. QED
    BY <2>1, <2>2 DEF About
<1>4. CASE stop_vsomeip_app_internal(t) \/ EngineWithoutApp(t)
  <2>0. PICK ops, reply : TakeAndReply(t, ops, reply) /\ "StartVsomeipApp" \notin ops
    BY <1>4 DEF stop_vsomeip_app_internal, EngineWithoutApp
  <2>1. /\ 1 \in DOMAIN queue[t] /\ cmd = queue[t][1] /\ cmd.op # "StartVsomeipApp"
        /\ cmd.caller # None => cmd.caller \in Callers /\ call[cmd.caller] = Waiting(t, cmd)
    BY <2>0, HeadCommand
  <2>2. ASSUME NEW k \in Callers, Starting(k, t) PROVE FALSE
    <3>1. cmd.caller = k /\ k # None
      BY <2>1, <2>2, EngineAssumption DEF StartedInv
    <3>2. call[k].op = cmd.op
      BY <2>1, <3>1 DEF Waiting
    <3>3. QED
      BY <2>1, <2>2, <3>2 DEF Starting
  <2>3. a \in apps /\ cmd.op \in {"RegisterListener", "UnregisterListener"}
    BY <2>1, <2>2 DEF StartedInv
  <2>4. QED
    BY <1>4, <2>3 DEF EngineWithoutApp, stop_vsomeip_app_internal, TakeAndReply
<1>5. QED
  BY <1>1, <1>2, <1>3, <1>4 DEF EngineStep

\* The engine brings vsomeip closer to what the channel ends in.
LEMMA EngineStepKeepsEnds ==
  ASSUME OwnAddresses, BaseInv, HandlerTypes, StartedInv, EndsInv,
         NEW t \in Transports, EngineStep(t)
  PROVE  EndsInv'
<1> USE DEF BaseInv, EngineInv
<1>1. UNCHANGED <<phase, listenerConfigs>> /\ \A a \in AppNames : a # AppName[t] => handlers'[a] = handlers[a]
  BY EngineStepApps DEF vars, lifecycle, registry
<1>2. PICK ops \in SUBSET Ops, reply \in Results : TakeAndReply(t, ops, reply)
  BY EngineStepReplies
<1> SUFFICES ASSUME NEW u \in Transports, NEW c \in Configs, phase'[u] = "live"
             PROVE  EndsAt(u, c)'
  BY DEF EndsInv
<1>3. EndsAt(u, c) /\ phase[u] = "live"
  BY <1>1 DEF EndsInv
<1>4. AheadOf(u, c)' <=> AheadOf(u, c)
  <2>1. \A j \in Callers : /\ call'[j].pc = call[j].pc /\ call'[j].op = call[j].op
                           /\ call'[j].t = call[j].t /\ call'[j].config = call[j].config
    BY <1>2, ReplyOnly
  <2>2. QED
    BY <2>1 DEF AheadOf, Ahead
<1>5. ASSUME NEW v, Ends(u, c, v) PROVE Ends(u, c, v)'
  <2>1. CASE u # t
    <3>1. AppName[u] # AppName[t] /\ AppName[u] \in AppNames
      BY <2>1, AddressesAreKeys DEF OwnAddresses
    <3>2. queue'[u] = queue[u] /\ handlers'[AppName[u]] = handlers[AppName[u]]
      BY <1>1, <1>2, <2>1, <3>1, TakeQueue
    <3>3. QED
      BY <1>5, <3>2 DEF Ends
  <2>2. CASE u = t
    BY <1>2, <1>3, <1>5, <2>2, LiveCommandEffect, TakeKeepsEnds
  <2>3. QED
    BY <2>1, <2>2
<1>6. QED
  BY <1>1, <1>3, <1>4, <1>5, SameEnds

\* Every step.
LEMMA NextKeepsEnds ==
  ASSUME OwnAddresses, BaseInv, RegisteringHolds, HandlerTypes, StartedInv, EndsInv,
         [EngineNext]_evars
  PROVE  EndsInv'
<1>1. ASSUME NEW k \in Callers, NEW t \in Transports,
             \/ NewCall(k, t) \/ DropCall(k, t)
             \/ \E c \in Configs : RegisterCall(k, t, c) \/ UnregisterCall(k, t, c)
      PROVE  EndsInv'
  BY <1>1, NewCallKeepsEnds, RegisterCallKeepsEnds, OtherCallsKeepEnds
<1>2. ASSUME NEW k \in Callers, DropNext(k) PROVE EndsInv'
  <2>1. call[k].t \in Transports
    BY <1>2 DEF DropNext, BaseInv, EngineInv, CallInv, Purposeful
  <2>2. QED
    BY <1>2, <2>1, OtherCallsKeepEnds
<1>3. ASSUME NEW k \in Callers, AwaitReply(k) PROVE EndsInv'
  BY <1>3, FinishKeepsEnds DEF AwaitReply
<1>4. ASSUME NEW k \in Callers, AwaitTimeout(k) PROVE EndsInv'
  <2>1. \A t \in Transports :
            /\ DOMAIN queue'[t] = DOMAIN queue[t]
            /\ \A i \in DOMAIN queue[t] :
                  /\ queue'[t][i].op = queue[t][i].op /\ queue'[t][i].config = queue[t][i].config
                  /\ queue'[t][i].id = queue[t][i].id
    BY <1>4, TimeoutQueue DEF BaseInv, EngineInv
  <2>2. /\ call[k].pc = "await" /\ UNCHANGED handlers
        /\ Finish(k, "DEADLINE_EXCEEDED")
    BY <1>4 DEF AwaitTimeout
  <2>3. QED
    BY <2>1, <2>2, FinishKeepsEnds
<1>5. ASSUME NEW k \in Callers, Enqueue(k) \/ CallStep(k) \/ AwaitTimeout(k) PROVE EndsInv'
  BY <1>2, <1>3, <1>4, <1>5, EnqueueKeepsEnds, ReleaseKeepsEnds DEF CallStep, OwnAddresses
<1>6. ASSUME NEW t \in Transports, EngineStep(t) PROVE EndsInv'
  BY <1>6, EngineStepKeepsEnds
<1>7. ASSUME UNCHANGED <<queue, call, handlers, phase, listenerConfigs>> PROVE EndsInv'
  BY <1>7 DEF EndsInv, EndsAt, Ends, AheadOf, Ahead, About, HandlerAfter
<1>8. ASSUME NEW k \in Callbacks,
             CallbackStep(k) \/ \E a \in AppNames, key \in Keys : Dispatch(k, a, key)
      PROVE  EndsInv'
  BY <1>7, <1>8 DEF CallbackStep, Dispatch, CallbackLookup, CallbackConvert, CallbackFetch,
     CallbackDeliver, engineVars, lifecycle, registry
<1>9. CASE UNCHANGED evars
  BY <1>7, <1>9 DEF evars, engineVars, vars, lifecycle, registry
<1>10. QED
  BY <1>1, <1>5, <1>6, <1>8, <1>9 DEF EngineNext

\* At the beginning there is nothing to agree on.
LEMMA InitEstablishesEnds == EngineInit => StartedInv /\ EndsInv
<1> SUFFICES ASSUME EngineInit PROVE StartedInv /\ EndsInv
  OBVIOUS
<1>1. \A t \in Transports : phase[t] = "absent" /\ queue[t] = <<>> /\ handlers[AppName[t]] = NoHandlers
  BY AddressesAreKeys DEF EngineInit, Init
<1>2. \A k \in Callers : call[k].op = None
  BY DEF EngineInit, Returned
<1>3. \A k \in Callers, t \in Transports : ~Starting(k, t)
  BY <1>2, EngineAssumption DEF Starting, Ops
<1>4. StartedInv
  BY <1>1, <1>3 DEF StartedInv
<1>5. QED
  BY <1>1, <1>4 DEF EndsInv

\* Nothing ahead and nothing in the channel: the two sides are the same.
LEMMA EndsGiveAgreement ==
  ASSUME OwnAddresses, BaseInv, EndsInv
  PROVE  SettledAgreement
<1> USE DEF BaseInv, EngineInv
<1> SUFFICES ASSUME NEW t \in Transports, Settled(t), NEW key \in Keys, NEW id \in Ids
             PROVE  handlers[AppName[t]][key] = id <=>
                       listenerConfigs[t][id] # None /\ RegisterKey(listenerConfigs[t][id]) = key
  BY DEF SettledAgreement
<1>1. phase[t] = "live" /\ DOMAIN queue[t] = {} /\ \A c \in Configs : ~AheadOf(t, c)
  BY DEF Settled, Usable, UnusedByOthers, AheadOf
<1>2. \A c \in Configs : \A v : Ends(t, c, v) => handlers[AppName[t]][RegisterKey(c)] = v
  BY <1>1 DEF Ends
<1>3. \A c \in Configs :
         /\ (\A i \in Ids : listenerConfigs[t][i] # c) => handlers[AppName[t]][RegisterKey(c)] = None
         /\ \A i \in Ids : listenerConfigs[t][i] = c => handlers[AppName[t]][RegisterKey(c)] = i
  BY <1>1, <1>2 DEF EndsInv, EndsAt
<1>4. PICK c \in Configs : key = RegisterKey(c)
  BY DEF Keys, OwnAddresses
<1>5. listenerConfigs[t][id] \in Configs \cup {None}
  BY DEF IInv, TypeOK
<1>6. ASSUME handlers[AppName[t]][key] = id
      PROVE  listenerConfigs[t][id] # None /\ RegisterKey(listenerConfigs[t][id]) = key
  BY <1>3, <1>4, <1>6, NoneAssumption
<1>7. ASSUME listenerConfigs[t][id] # None, RegisterKey(listenerConfigs[t][id]) = key
      PROVE  handlers[AppName[t]][key] = id
  BY <1>3, <1>5, <1>7
<1>8. QED
  BY <1>6, <1>7

\* Whatever calls timed out on the way, once nobody calls a transport and its
\* engine has emptied the channel, vsomeip's handlers are exactly those of the
\* registered listeners: register_listener and unregister_listener touch the
\* registry in the order that makes the last command sent the right one.
THEOREM SettledTransportsAgree ==
  ASSUME OwnAddresses
  PROVE  EngineSpec => []SettledAgreement
<1> DEFINE I == BaseInv /\ RegisteringHolds /\ HandlerTypes /\ StartedInv /\ EndsInv
<1>1. EngineInit => I
  BY InitEstablishesBaseInv, InitEstablishesEnds
<1>2. I /\ [EngineNext]_evars => I'
  BY BaseInductive, NextKeepsRegistering, NextKeepsHandlerTypes, NextKeepsStarted, NextKeepsEnds
  DEF OwnAddresses, BaseInv, EngineInv
<1>3. I => SettledAgreement
  BY EndsGiveAgreement
<1>4. QED
  BY <1>1, <1>2, <1>3, PTL DEF EngineSpec

=============================================================================
