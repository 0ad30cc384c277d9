----------------------------- MODULE AppLifecycle -----------------------------
(***************************************************************************)
(* Starting and stopping vsomeip applications: create_app and the pool of  *)
(* application state handlers it draws on.                                 *)
(*                                                                         *)
(* vsomeip reports the state of an application to an extern "C" function.  *)
(* A process-wide pool holds the ids of the generated ones, and each has   *)
(* a bounded channel that lives as long as the process.  The engine of a   *)
(* transport takes an id, gives the function to the new application, lets  *)
(* a thread of its own start the application and waits 50 ms for a state   *)
(* to come out of the channel.  Nothing empties a channel when its id goes *)
(* back, the starting thread finds its application by name only, and an id *)
(* is given back on one of the paths out of create_app.                    *)
(***************************************************************************)
EXTENDS Naturals, Sequences, FiniteSets

CONSTANTS
    StateIds,     \* ids of the generated state handlers (1000 in the code)
    Transports,   \* transports of the process, each with an engine thread;
                  \* also names the application that transport creates
    AppName,      \* the vsomeip application name each transport is given
    ChannelCap,   \* capacity of a state channel (1000 in the code)
    MaxStates,    \* bound: states an application reports in its life
    MayFail,      \* transports whose application vsomeip may fail to create, or
                  \* may take more than 50 ms to start
    None

ASSUME LifecycleAssumption ==
    /\ None \notin StateIds \cup Transports
    /\ ChannelCap \in Nat \ {0} /\ MaxStates \in Nat
    /\ MayFail \subseteq Transports
    /\ DOMAIN AppName = Transports

VARIABLES
    freeStateIds,  \* FREE_AVAILABLE_STATE_HANDLER_EXTERN_FN_IDS
    channel,       \* AVAILABLE_STATE_SENDERS and _RECEIVERS: who reported
    pc,            \* where each transport is between construction and Drop
    stateId,       \* the id create_app holds, kept when it fails
    outcome,       \* the result of StartVsomeipApp
    starter,       \* the thread create_app spawns
    known,         \* external: the application vsomeip knows under a name
    app,           \* external: life of each application
    stateHandler,  \* external: the state handler of each application
    reported,      \* external: how many states an application has reported
    received       \* history: the application whose state ended the wait

pool == <<freeStateIds, channel, stateId>>
vsomeip == <<known, app, stateHandler, reported>>
vars == <<pool, pc, outcome, starter, vsomeip, received>>

AppNames == {AppName[t] : t \in Transports}

Init ==
    /\ freeStateIds = StateIds
    /\ channel = [id \in StateIds |-> <<>>]
    /\ pc = [t \in Transports |-> "absent"]
    /\ stateId = [t \in Transports |-> None]
    /\ outcome = [t \in Transports |-> None]
    /\ starter = [t \in Transports |-> "none"]
    /\ known = [a \in AppNames |-> None]
    /\ app = [t \in Transports |-> "none"]
    /\ stateHandler = [t \in Transports |-> None]
    /\ reported = [t \in Transports |-> 0]
    /\ received = [t \in Transports |-> None]

Goto(t, from, to) == pc[t] = from /\ pc' = [pc EXCEPT ![t] = to]

Return(t, from, result) ==
    Goto(t, from, "returned") /\ outcome' = [outcome EXCEPT ![t] = result]

-----------------------------------------------------------------------------
(* create_app, on the engine thread of a transport.                        *)

\* The name may be taken by an application of another transport.
CheckName(t) ==
    /\ \/ known[AppName[t]] # None /\ Return(t, "absent", "ALREADY_EXISTS")
       \/ known[AppName[t]] = None /\ Goto(t, "absent", "find") /\ UNCHANGED outcome
    /\ UNCHANGED <<pool, starter, vsomeip, received>>

\* Mutant: the id is looked at and stays in the pool.
find_available_state_handler_id_peeks(t) ==
    /\ freeStateIds # {}
    /\ \E id \in freeStateIds : stateId' = [stateId EXCEPT ![t] = id]
    /\ Goto(t, "find", "create")
    /\ UNCHANGED <<freeStateIds, outcome, channel, starter, vsomeip, received>>

find_available_state_handler_id(t) ==
    /\ \/ /\ freeStateIds = {}
          /\ Return(t, "find", "RESOURCE_EXHAUSTED")
          /\ UNCHANGED <<freeStateIds, stateId>>
       \/ \E id \in freeStateIds :
             /\ freeStateIds' = freeStateIds \ {id}
             /\ stateId' = [stateId EXCEPT ![t] = id]
             /\ Goto(t, "find", "create")
             /\ UNCHANGED outcome
    /\ UNCHANGED <<channel, starter, vsomeip, received>>

\* create_application returns null, as it does for a name taken meanwhile, and
\* create_app returns with the id in its hand.
CreateFails(t) ==
    /\ t \in MayFail \/ known[AppName[t]] # None
    /\ Return(t, "create", "INTERNAL")
    /\ UNCHANGED <<pool, starter, vsomeip, received>>

\* Mutant: the application is started before anyone listens to its state.
CreateApplicationStarted(t) ==
    /\ known[AppName[t]] = None
    /\ Goto(t, "create", "register")
    /\ known' = [known EXCEPT ![AppName[t]] = t]
    /\ app' = [app EXCEPT ![t] = "started"]
    /\ UNCHANGED <<pool, outcome, starter, stateHandler, reported, received>>

CreateApplication(t) ==
    /\ known[AppName[t]] = None
    /\ Goto(t, "create", "register")
    /\ known' = [known EXCEPT ![AppName[t]] = t]
    /\ app' = [app EXCEPT ![t] = "created"]
    /\ UNCHANGED <<pool, outcome, starter, stateHandler, reported, received>>

\* init, register_state_handler, and the spawning of the starting thread.
RegisterStateHandler(t) ==
    /\ Goto(t, "register", "wait")
    /\ stateHandler' = [stateHandler EXCEPT ![t] = stateId[t]]
    /\ starter' = [starter EXCEPT ![t] = "spawned"]
    /\ UNCHANGED <<pool, outcome, known, app, reported, received>>

\* recv_timeout returns the oldest state in the channel of the id.
ReceiveState(t) ==
    /\ Goto(t, "wait", "unregister")
    /\ channel[stateId[t]] # <<>>
    /\ received' = [received EXCEPT ![t] = Head(channel[stateId[t]])]
    /\ channel' = [channel EXCEPT ![stateId[t]] = Tail(@)]
    /\ UNCHANGED <<freeStateIds, stateId, outcome, starter, vsomeip>>

\* Mutant: recv in place of recv_timeout.
WaitForever(t) == FALSE

\* Mutant: the id of a start that timed out goes back to the pool.
WaitTimeoutFreesId(t) ==
    /\ t \in MayFail
    /\ Return(t, "wait", "INTERNAL")
    /\ channel[stateId[t]] = <<>>
    /\ freeStateIds' = freeStateIds \cup {stateId[t]}
    /\ stateId' = [stateId EXCEPT ![t] = None]
    /\ UNCHANGED <<channel, starter, vsomeip, received>>

\* Neither the id is freed nor the handler taken from the application.
WaitTimeout(t) ==
    /\ t \in MayFail
    /\ Return(t, "wait", "INTERNAL")
    /\ channel[stateId[t]] = <<>>
    /\ UNCHANGED <<pool, starter, vsomeip, received>>

\* Mutant: the handler is left with the application.
UnregisterStateHandlerForgotten(t) ==
    /\ Goto(t, "unregister", "free")
    /\ UNCHANGED <<pool, outcome, starter, vsomeip, received>>

UnregisterStateHandler(t) ==
    /\ Goto(t, "unregister", "free")
    /\ stateHandler' = [stateHandler EXCEPT ![t] = None]
    /\ UNCHANGED <<pool, outcome, starter, known, app, reported, received>>

free_state_handler_id(t) ==
    /\ Return(t, "free", "Ok")
    /\ freeStateIds' = freeStateIds \cup {stateId[t]}
    /\ stateId' = [stateId EXCEPT ![t] = None]
    /\ UNCHANGED <<channel, starter, vsomeip, received>>

\* Drop, also of a constructor that failed: whatever application has the name
\* is stopped.
StopApp(t) ==
    /\ Goto(t, "returned", "gone")
    /\ LET a == known[AppName[t]] IN
       /\ known' = [known EXCEPT ![AppName[t]] = None]
       /\ app' = IF a = None THEN app
                 ELSE [app EXCEPT ![a] = IF @ = "started" THEN "stopping" ELSE "stopped"]
    /\ UNCHANGED <<pool, outcome, starter, stateHandler, reported, received>>

-----------------------------------------------------------------------------
(* The spawned thread and vsomeip.                                         *)

\* The thread looks its application up by name when it gets to run; by then
\* the name may be unknown or another transport's.
StartThread(t) ==
    /\ starter[t] = "spawned"
    /\ starter' = [starter EXCEPT ![t] = "ended"]
    /\ LET a == known[AppName[t]] IN
       app' = IF a # None /\ app[a] = "created" THEN [app EXCEPT ![a] = "started"] ELSE app
    /\ UNCHANGED <<pool, pc, outcome, known, stateHandler, reported, received>>

\* call_shared_extern_fn waits for room in the channel; an application
\* without a state handler tells nobody.
ReportState(a) ==
    /\ app[a] \in {"started", "stopping"}
    /\ reported[a] < MaxStates
    /\ reported' = [reported EXCEPT ![a] = @ + 1]
    /\ LET id == stateHandler[a] IN
       \/ id = None /\ UNCHANGED channel
       \/ /\ id # None /\ Len(channel[id]) < ChannelCap
          /\ channel' = [channel EXCEPT ![id] = Append(@, a)]
    /\ UNCHANGED <<freeStateIds, stateId, pc, outcome, starter, known, app, stateHandler, received>>

EngineStep(t) ==
    \/ CheckName(t) \/ find_available_state_handler_id(t)
    \/ CreateFails(t) \/ CreateApplication(t) \/ RegisterStateHandler(t)
    \/ ReceiveState(t) \/ WaitTimeout(t)
    \/ UnregisterStateHandler(t) \/ free_state_handler_id(t)

Next == \E t \in Transports : EngineStep(t) \/ StopApp(t) \/ StartThread(t) \/ ReportState(t)

Spec == Init /\ [][Next]_vars

\* Threads run, and an application that was started reports a state.
Fairness ==
    \A t \in Transports :
        WF_vars(EngineStep(t)) /\ WF_vars(StartThread(t)) /\ WF_vars(ReportState(t))

FairSpec == Spec /\ Fairness

-----------------------------------------------------------------------------
(* Properties.                                                             *)

Waiting == {"create", "register", "wait", "unregister", "free"}

\* The ids missing from the pool are exactly those of starts in progress and of
\* starts that failed after taking one, one id each: nothing else leaks an id
\* and no two starts share one.
StateIdsAccounted ==
    /\ StateIds \ freeStateIds = {stateId[t] : t \in Transports} \ {None}
    /\ \A t, u \in Transports : stateId[t] # None /\ stateId[t] = stateId[u] => t = u

\* A function that vsomeip may call for an application is neither in the pool
\* nor another application's, although handlers outlive starts that timed out.
StateHandlerExclusive ==
    \A t \in Transports : stateHandler[t] # None =>
        /\ stateHandler[t] \notin freeStateIds
        /\ \A u \in Transports : stateHandler[u] = stateHandler[t] => u = t

\* The state that ends a start comes from the application that start created,
\* unless some application reported more than once: one surplus state puts every
\* later user of its channel one behind, but states that come after a timeout
\* never reach another start.
WokenByOwnApp ==
    \A t \in Transports :
        received[t] \notin {None, t} => \E u \in Transports : reported[u] > 1

\* A start ends with a result, also when another transport of the same name
\* stops the application it is waiting for.
StartsReturn == \A t \in Transports : pc[t] \in Waiting ~> pc[t] = "returned"

\* A start that was given a state handler succeeds when vsomeip is timely and
\* nobody shares its name, whatever other starts fail meanwhile: the state cannot
\* be reported before someone listens to it.
StartsSucceed ==
    \A t \in Transports \ MayFail :
        (\A u \in Transports \ {t} : AppName[u] # AppName[t]) =>
            (pc[t] = "create" ~> outcome[t] = "Ok")

=============================================================================
