---------------------------- MODULE CallbackRuntime ----------------------------
(***************************************************************************)
(* The tokio runtime on which a transport's listeners run.                 *)
(*                                                                         *)
(* The constructor spawns a thread that builds the runtime, hands back a   *)
(* handle to it and waits for a signal.  Callbacks of vsomeip spawn one    *)
(* task per message on the runtime.  Drop unregisters the listeners, sends *)
(* the signal and joins the thread, which shuts the runtime down within    *)
(* two seconds.  Listeners are the application's code: one may block its   *)
(* worker for ever, and one may hold the last reference to the transport,  *)
(* so that Drop runs on the very runtime it shuts down.                    *)
(***************************************************************************)
EXTENDS Naturals, FiniteSets

CONSTANTS
    Messages,    \* messages for the transport's listeners, a task each
    Workers,     \* num_threads of the RuntimeConfig (10 by default)
    Blocking,    \* messages whose listener never returns and never yields
    None

ASSUME RuntimeAssumption ==
    /\ Workers \in Nat \ {0}
    /\ Blocking \subseteq Messages /\ None \notin Messages

VARIABLES
    constructor,  \* get_callback_runtime_handle in new_internal
    runtime,      \* the thread that owns the runtime
    signal,       \* the shutdown channel: empty, a message, or no sender
    registered,   \* whether a callback can find a listener of the transport
    engine,       \* the engine thread, which a panic may end
    task,         \* each message from vsomeip's callback to the listener's end
    drop,         \* Drop of the transport
    dropper       \* the message whose listener runs Drop, None for a thread outside

vars == <<constructor, runtime, signal, registered, engine, task, drop, dropper>>

Running == {m \in Messages : task[m] = "running"}

\* Whatever is queued is dropped when the runtime goes.
CancelQueued == task' = [m \in Messages |-> IF task[m] = "queued" THEN "cancelled" ELSE task[m]]

Init ==
    /\ constructor = "waiting" /\ runtime = "building"
    /\ signal = "empty"
    /\ registered = FALSE
    /\ engine = "up"
    /\ task = [m \in Messages |-> "none"]
    /\ drop = "none" /\ dropper = None

-----------------------------------------------------------------------------
(* Construction.                                                           *)

BuildRuntime ==
    /\ runtime = "building" /\ runtime' \in {"serving", "panicked"}
    /\ UNCHANGED <<constructor, signal, registered, engine, task, drop, dropper>>

\* Mutant: the sender of the shutdown channel is not kept.
ReceiveHandleOnly ==
    /\ constructor = "waiting" /\ runtime = "serving"
    /\ constructor' = "ready" /\ signal' = "closed"
    /\ UNCHANGED <<runtime, registered, engine, task, drop, dropper>>

ReceiveHandle ==
    /\ constructor = "waiting" /\ runtime = "serving"
    /\ constructor' = "ready"
    /\ UNCHANGED <<runtime, signal, registered, engine, task, drop, dropper>>

\* The thread ended without sending a handle.
HandleSenderDropped ==
    /\ constructor = "waiting" /\ runtime = "panicked"
    /\ constructor' = "panicked"
    /\ UNCHANGED <<runtime, signal, registered, engine, task, drop, dropper>>

-----------------------------------------------------------------------------
(* The life of a transport.                                                *)

InUse == constructor = "ready" /\ drop = "none"

Register ==
    /\ InUse /\ engine = "up" /\ registered' = TRUE
    /\ UNCHANGED <<constructor, runtime, signal, engine, task, drop, dropper>>

\* The engine thread panics, as retrieve_session_id does at the end of u16 in a
\* build with overflow checks.
EngineDies ==
    /\ constructor = "ready" /\ drop \in {"none", "unregistering"}
    /\ engine = "up" /\ engine' = "down"
    /\ UNCHANGED <<constructor, runtime, signal, registered, task, drop, dropper>>

\* A callback passes its look-ups; it keeps the handle of the runtime.
Callback(m) ==
    /\ registered /\ task[m] = "none"
    /\ task' = [task EXCEPT ![m] = "callback"]
    /\ UNCHANGED <<constructor, runtime, signal, registered, engine, drop, dropper>>

\* A task spawned on a runtime that has been shut down is dropped.
SpawnTask(m) ==
    /\ task[m] = "callback"
    /\ task' = [task EXCEPT ![m] = IF runtime = "serving" THEN "queued" ELSE "cancelled"]
    /\ UNCHANGED <<constructor, runtime, signal, registered, engine, drop, dropper>>

\* Mutant: the runtime is built with one worker thread.
RunTaskOnOneWorker(m) ==
    /\ task[m] = "queued" /\ Running = {}
    /\ task' = [task EXCEPT ![m] = "running"]
    /\ UNCHANGED <<constructor, runtime, signal, registered, engine, drop, dropper>>

RunTask(m) ==
    /\ task[m] = "queued" /\ Cardinality(Running) < Workers
    /\ task' = [task EXCEPT ![m] = "running"]
    /\ UNCHANGED <<constructor, runtime, signal, registered, engine, drop, dropper>>

\* on_receive returns; the one that drops the transport has to get through it.
FinishTask(m) ==
    /\ task[m] = "running" /\ m \notin Blocking
    /\ m = dropper => drop \in {"returned", "panicked"}
    /\ task' = [task EXCEPT ![m] = "done"]
    /\ UNCHANGED <<constructor, runtime, signal, registered, engine, drop, dropper>>

\* External: after a shutdown a running task is dropped where it next yields.
CancelTask(m) ==
    /\ task[m] = "running" /\ m \notin Blocking \cup {dropper}
    /\ runtime \in {"closing", "ended", "panicked"}
    /\ task' = [task EXCEPT ![m] = "cancelled"]
    /\ UNCHANGED <<constructor, runtime, signal, registered, engine, drop, dropper>>

-----------------------------------------------------------------------------
(* Drop and the end of the runtime.                                        *)

\* The last reference goes on a thread of the application or in a listener.
DropBegin ==
    /\ InUse /\ drop' = "unregistering"
    /\ dropper' \in (Running \ Blocking) \cup {None}
    /\ UNCHANGED <<constructor, runtime, signal, registered, engine, task>>

\* unregister_listener and shutdown_vsomeip_app panic when the engine is gone; the
\* fields of the transport are dropped all the same, its storage and the sender
\* of the signal among them.
DropUnregisters ==
    /\ drop = "unregistering" /\ registered' = FALSE
    /\ \/ engine = "up" /\ drop' = "signalling" /\ UNCHANGED signal
       \/ engine = "down" /\ drop' = "panicked" /\ signal' = "closed"
    /\ UNCHANGED <<constructor, runtime, engine, task, dropper>>

\* Mutant: the thread is not joined.
DropSignalsOnly ==
    /\ drop = "signalling" /\ drop' = "returned" /\ signal' = "sent"
    /\ UNCHANGED <<constructor, runtime, registered, engine, task, dropper>>

DropSignals ==
    /\ drop = "signalling" /\ drop' = "joining" /\ signal' = "sent"
    /\ UNCHANGED <<constructor, runtime, registered, engine, task, dropper>>

ReceiveSignal ==
    /\ runtime = "serving" /\ signal # "empty"
    /\ runtime' = IF signal = "sent" THEN "closing" ELSE "panicked"
    /\ CancelQueued
    /\ UNCHANGED <<constructor, signal, registered, engine, drop, dropper>>

TasksEnded ==
    /\ runtime = "closing" /\ Running = {} /\ runtime' = "ended"
    /\ UNCHANGED <<constructor, signal, registered, engine, task, drop, dropper>>

\* Mutant: the runtime is dropped, which waits for its tasks.
ShutdownWaits == FALSE

\* shutdown_timeout leaves tasks that still run to themselves.
ShutdownTimeout ==
    /\ runtime = "closing" /\ Running # {} /\ runtime' = "ended"
    /\ UNCHANGED <<constructor, signal, registered, engine, task, drop, dropper>>

DropJoins ==
    /\ drop = "joining" /\ runtime = "ended" /\ drop' = "returned"
    /\ UNCHANGED <<constructor, runtime, signal, registered, engine, task, dropper>>

-----------------------------------------------------------------------------

RuntimeThread == BuildRuntime \/ ReceiveSignal \/ TasksEnded \/ ShutdownTimeout
DropStep == DropUnregisters \/ DropSignals \/ DropJoins
TaskStep(m) == SpawnTask(m) \/ RunTask(m) \/ FinishTask(m) \/ CancelTask(m)

Next ==
    \/ ReceiveHandle \/ HandleSenderDropped
    \/ RuntimeThread
    \/ Register \/ EngineDies \/ DropBegin \/ DropStep
    \/ \E m \in Messages : Callback(m) \/ TaskStep(m)

Spec == Init /\ [][Next]_vars

\* Threads run; nobody has to use the transport, and the engine need not die.
Fairness ==
    /\ WF_vars(ReceiveHandle \/ HandleSenderDropped)
    /\ WF_vars(RuntimeThread) /\ WF_vars(DropStep)
    /\ \A m \in Messages : WF_vars(TaskStep(m))

FairSpec == Spec /\ Fairness

-----------------------------------------------------------------------------
(* Properties.                                                             *)

\* The runtime serves from the return of the constructor until Drop signals it,
\* so that no message is lost to a runtime that went away early: one is only
\* ever cancelled by a Drop in progress.
CancelledOnlyByDrop ==
    /\ constructor = "ready" /\ drop \in {"none", "unregistering", "signalling"}
          => runtime = "serving"
    /\ \A m \in Messages : task[m] = "cancelled" => drop \notin {"none", "unregistering"}

\* Once Drop has returned no listener is called any more, although callbacks
\* that have passed their look-ups are still on their way to spawn one.
NoListenerAfterDrop ==
    [][drop = "returned" => \A m \in Running' : m \in Running]_vars

\* Construction ends with a handle or a panic, and Drop ends whatever the
\* listeners do: one that never returns, or one that is itself running Drop.
DropReturns ==
    /\ constructor = "waiting" ~> constructor # "waiting"
    /\ drop = "unregistering" ~> drop \in {"returned", "panicked"}

\* While fewer listeners block than there are workers, a message that was
\* spawned is handed to its listener or cancelled by Drop.
ListenersRun ==
    \A m \in Messages \ Blocking : task[m] = "callback" ~> task[m] \in {"done", "cancelled"}

=============================================================================
