------------------------- MODULE CallbackRuntimeProofs -------------------------
(***************************************************************************)
(* Proofs about CallbackRuntime, for any number of messages and workers    *)
(* and any listeners that block or drop the transport.                     *)
(***************************************************************************)
EXTENDS CallbackRuntime, TLAPS

TaskStates == {"none", "callback", "queued", "running", "done", "cancelled"}

\* Before the constructor has its handle nothing else has happened.
NotYetUsed ==
    IF constructor = "ready" THEN runtime # "building"
    ELSE
        /\ runtime \in {"building", "serving", "panicked"}
        /\ signal = "empty" /\ drop = "none" /\ ~registered
        /\ \A m \in Messages : task[m] = "none"

\* The runtime has no reason to stop before Drop signals.
ServesUntilSignalled ==
    constructor = "ready" /\ drop \in {"none", "unregistering", "signalling"} =>
        runtime = "serving" /\ signal = "empty"

CancelledInDrop ==
    \A m \in Messages : task[m] = "cancelled" => drop \notin {"none", "unregistering"}

\* A runtime that is going has no task left to start, and Drop returns only
\* once it has gone.
NothingQueuedAfterwards ==
    /\ runtime \notin {"building", "serving"} => \A m \in Messages : task[m] # "queued"
    /\ drop = "returned" => runtime = "ended"

RuntimeInv ==
    /\ task \in [Messages -> TaskStates]
    /\ NotYetUsed
    /\ ServesUntilSignalled
    /\ CancelledInDrop
    /\ NothingQueuedAfterwards

-----------------------------------------------------------------------------

\* The inductive invariant holds when the runtime's thread has been spawned.
LEMMA RuntimeInvInit == Init => RuntimeInv
  BY DEF Init, RuntimeInv, TaskStates, NotYetUsed, ServesUntilSignalled, CancelledInDrop,
         NothingQueuedAfterwards

\* Every step of the constructor, the callbacks, the runtime and Drop keeps it.
LEMMA RuntimeInvStep == RuntimeInv /\ [Next]_vars => RuntimeInv'
<1> SUFFICES ASSUME RuntimeInv, [Next]_vars PROVE RuntimeInv'
  OBVIOUS
<1> USE DEF RuntimeInv, TaskStates, NotYetUsed, ServesUntilSignalled, CancelledInDrop,
            NothingQueuedAfterwards
<1>1. CASE ReceiveHandle
  BY <1>1 DEF ReceiveHandle
<1>2. CASE HandleSenderDropped
  BY <1>2 DEF HandleSenderDropped
<1>3. CASE BuildRuntime
  BY <1>3 DEF BuildRuntime
<1>4. CASE ReceiveSignal
  BY <1>4 DEF ReceiveSignal, CancelQueued
<1>5. CASE TasksEnded
  BY <1>5 DEF TasksEnded
<1>6. CASE ShutdownTimeout
  BY <1>6 DEF ShutdownTimeout
<1>7. CASE Register
  BY <1>7 DEF Register, InUse
<1>8. CASE EngineDies
  BY <1>8 DEF EngineDies
<1>9. CASE DropBegin
  BY <1>9 DEF DropBegin, InUse, Running
<1>10. CASE DropUnregisters
  BY <1>10 DEF DropUnregisters
<1>11. CASE DropSignals
  BY <1>11 DEF DropSignals
<1>12. CASE DropJoins
  BY <1>12 DEF DropJoins
<1>13. ASSUME NEW m \in Messages, Callback(m) PROVE RuntimeInv'
  BY <1>13 DEF Callback
<1>14. ASSUME NEW m \in Messages, SpawnTask(m) PROVE RuntimeInv'
  BY <1>14 DEF SpawnTask
<1>15. ASSUME NEW m \in Messages, RunTask(m) PROVE RuntimeInv'
  BY <1>15 DEF RunTask
<1>16. ASSUME NEW m \in Messages, FinishTask(m) PROVE RuntimeInv'
  BY <1>16 DEF FinishTask
<1>17. ASSUME NEW m \in Messages, CancelTask(m) PROVE RuntimeInv'
  BY <1>17 DEF CancelTask
<1>18. CASE UNCHANGED vars
  BY <1>18 DEF vars
<1>19. QED
  BY <1>1, <1>2, <1>3, <1>4, <1>5, <1>6, <1>7, <1>8, <1>9, <1>10, <1>11, <1>12, <1>13,
     <1>14, <1>15, <1>16, <1>17, <1>18
  DEF Next, RuntimeThread, DropStep, TaskStep

\* The inductive invariant holds throughout.
LEMMA RuntimeInvHolds == Spec => []RuntimeInv
  BY RuntimeInvInit, RuntimeInvStep, PTL DEF Spec

\* From the constructor's return until Drop signals it the runtime serves, and a
\* message is cancelled by a Drop in progress only.
THEOREM RuntimeServesTransport == Spec => []CancelledOnlyByDrop
<1>1. RuntimeInv => CancelledOnlyByDrop
  BY DEF RuntimeInv, ServesUntilSignalled, CancelledInDrop, CancelledOnlyByDrop
<1>2. QED
  BY RuntimeInvHolds, <1>1, PTL

\* No listener is called once Drop has returned.
THEOREM SilentAfterDrop == Spec => NoListenerAfterDrop
<1>1. ASSUME RuntimeInv, [Next]_vars
      PROVE  [drop = "returned" => \A m \in Running' : m \in Running]_vars
  <2> SUFFICES ASSUME drop = "returned", NEW m \in Running' PROVE m \in Running
    OBVIOUS
  <2>1. runtime = "ended" /\ task[m] # "queued" /\ m \in Messages /\ task'[m] = "running"
    BY <1>1 DEF RuntimeInv, NothingQueuedAfterwards, Running
  <2>2. task \in [Messages -> TaskStates]
    BY <1>1 DEF RuntimeInv
  <2>3. task[m] = "running"
    <3>1. ASSUME NEW n \in Messages, Callback(n) \/ TaskStep(n) PROVE task[m] = "running"
      BY <2>1, <2>2, <3>1
      DEF Callback, TaskStep, SpawnTask, RunTask, FinishTask, CancelTask, TaskStates
    <3>2. CASE task' = task
      BY <2>1, <3>2
    <3>3. CASE RuntimeThread
      BY <2>1, <3>3 DEF RuntimeThread, BuildRuntime, ReceiveSignal, TasksEnded, ShutdownTimeout
    <3>4. CASE ReceiveHandle \/ HandleSenderDropped \/ Register \/ EngineDies \/ DropBegin \/ DropStep
      BY <3>2, <3>4 DEF ReceiveHandle, HandleSenderDropped, Register, EngineDies, DropBegin,
         DropStep, DropUnregisters, DropSignals, DropJoins
    <3>5. QED
      BY <1>1, <3>1, <3>2, <3>3, <3>4 DEF Next, vars
  <2>4. QED
    BY <2>1, <2>3 DEF Running
<1>2. QED
  BY RuntimeInvHolds, <1>1, PTL DEF Spec, NoListenerAfterDrop

=============================================================================
