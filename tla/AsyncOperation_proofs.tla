----------------------- MODULE AsyncOperation_proofs -----------------------
(***************************************************************************)
(* Proofs about AsyncOperation, for any number of producers, any bound on  *)
(* the queue and on the emits.                                             *)
(*                                                                         *)
(* First what each step owns: the type invariant, the reference count and  *)
(* the safety of the thread-safe function's handle.  Then what reaches     *)
(* from the first step to the last: the slots of the event queue, the      *)
(* abort registration and the controller's future are accounted for,       *)
(* nothing follows the settlement, and the operation implements the        *)
(* contract of AsyncTask.  Last, who waits for whom: no wake-up is lost.   *)
(***************************************************************************)
EXTENDS AsyncOperation, FiniteSetTheorems, SequenceTheorems, TLAPS

\* What the JavaScript thread is in the middle of.
JsShape ==
  /\ js \in {"settle", "release", "finish"} <=> jsReturn \in {"unstarted", "started", "record"}
  /\ js \in {"abort", "abort_wake"} <=> jsReturn \in {"idle", "listener"}
  /\ js = "submit" => handle = "none" /\ ~js_released
  /\ jsReturn = "unstarted" => handle = "none"
  /\ js \in {"spawn_task", "spawn_controller", "join"} => handle = "open"
  /\ jsReturn \in {"started", "record"} => handle = "open"
  /\ js = "finalize" => handle = "closing" /\ closing
  /\ js \in {"release", "finish"} => outcome # "none"
  /\ js = "release" => owned

\* Threads that were not started.
SpawnShape ==
  /\ js \in {"submit", "spawn_task"} => task = "off"
  /\ js \in {"submit", "spawn_task", "spawn_controller", "join"} => pc[Controller] = "off"
  /\ js = "spawn_controller" => task # "off"
  /\ task = "off" => pc[Controller] = "off"

\* A producer is in an emit only while the task runs, and never where only the
\* controller can be.
ProducerShape ==
  \A p \in Producers :
    /\ pc[p] \in {"user", "reserve", "asleep", "stopped", "admit", "push", "sent", "refused", "failed",
                  "unwind_refused", "unwind_failed"}
    /\ pc[p] \notin {"user", "stopped"} => task = "running"

\* Only a handle whose release was claimed has lost its reference while open.
HandleShape ==
  /\ handle = "open" /\ ~owned => threads = 1
  /\ js = "release" => handle \in {"none", "open"}
  /\ js = "release" /\ handle = "open" => threads = 1

\* The reaper is given only a future that was claimed.
ReapShape == ~claimed => reap = "idle"

\* How the actors' states fit each other.
Shape == JsShape /\ SpawnShape /\ ProducerShape /\ HandleShape /\ ReapShape

\* The inductive invariant.
IInv == TypeOK /\ Shape /\ RefCountExact /\ GateCounts /\ NoPushAfterFinalizer

-----------------------------------------------------------------------------
\* The threads that post are finitely many, the controller being one of them.
LEMMA PostersFinite ==
  /\ IsFiniteSet(Posters)
  /\ Controller \in Posters /\ Producers \subseteq Posters
  /\ \A p \in Posters : p = Controller \/ p \in Producers
<1>1. IsFiniteSet({Controller})
  BY FS_Singleton
<1> QED
  BY <1>1, FS_Union, OperationAssumption DEF Posters

\* Waking producers changes no program counter but those of sleeping producers.
LEMMA WokenOthers ==
  ASSUME NEW f \in [Posters -> PosterStates]
  PROVE  /\ Woken(f) \in [Posters -> PosterStates]
         /\ \A p \in Posters : Woken(f)[p] # f[p] => f[p] = "asleep" /\ Woken(f)[p] = "reserve" /\ p \in Producers
BY DEF Woken, Asleep, PosterStates

\* Nor does signalling.
LEMMA SignalledOthers ==
  ASSUME NEW f \in [Posters -> PosterStates], NEW g \in Signalled(f)
  PROVE  /\ g \in [Posters -> PosterStates]
         /\ \A p \in Posters : g[p] # f[p] => f[p] = "asleep" /\ g[p] = "reserve" /\ p \in Producers
BY PostersFinite DEF Signalled, Asleep, PosterStates

\* Every step keeps the types of the variables other than pc and the counters.
LEMMA FieldsStep ==
  ASSUME IInv, Next
  PROVE  FieldsOK'
<1> USE DEF IInv, TypeOK, FieldsOK, JsStates, jsVars, taskVars, ownership, word, engine,
    events, cancellation, reaping, listener, settlement, history
<1>1. ASSUME NEW p \in Producers, Emit(p) PROVE FieldsOK'
  <2>1. CASE EmitBegins(p)
    BY <2>1 DEF EmitBegins
  <2>2. CASE Reserve(p)
    BY <2>2 DEF Reserve
  <2>3. CASE EmitFails(p)
    BY <2>3 DEF EmitFails, releaseEventSlot
  <2>4. CASE EventRefused(p)
    BY <2>4 DEF EventRefused, releaseEventSlot
  <2>5. CASE ProducerStops(p)
    BY <2>5 DEF ProducerStops
  <2> QED
    BY <1>1, <2>1, <2>2, <2>3, <2>4, <2>5 DEF Emit
<1>2. ASSUME NEW p \in Posters, Post(p) PROVE FieldsOK'
  <2>1. CASE Admit(p)
    BY <2>1 DEF Admit
  <2>2. CASE PushQueued(p)
    BY <2>2 DEF PushQueued
  <2>3. CASE PushOnClosing(p)
    BY <2>3 DEF PushOnClosing
  <2>4. CASE PushFails(p)
    BY <2>4 DEF PushFails
  <2>5. CASE Leave(p)
    BY <2>5 DEF Leave, leaveDispatcherPush
  <2>6. CASE Unwind(p)
    BY <2>6 DEF Unwind
  <2> QED
    BY <1>2, <2>1, <2>2, <2>3, <2>4, <2>5, <2>6 DEF Post
<1>3. CASE Task
  <2>1. CASE TaskFinishes
    BY <2>1 DEF TaskFinishes
  <2>2. CASE TaskReturns
    BY <2>2 DEF TaskReturns, ControllerWoken
  <2> QED
    BY <1>3, <2>1, <2>2 DEF Task
<1>4. CASE Control
  <2>1. CASE ControllerChecks
    BY <2>1 DEF ControllerChecks
  <2>2. CASE ControllerDecides
    BY <2>2 DEF ControllerDecides
  <2>3. CASE ControllerJoins
    BY <2>3 DEF ControllerJoins, taskJoined
  <2>4. CASE CompletionRefused
    BY <2>4 DEF CompletionRefused
  <2>5. CASE ControllerReturns
    BY <2>5 DEF ControllerReturns
  <2> QED
    BY <1>4, <2>1, <2>2, <2>3, <2>4, <2>5 DEF Control
<1>5. CASE Submit
  <2>1. CASE SubmitAborted
    BY <2>1 DEF SubmitAborted
  <2>2. CASE SubmitRefused
    <3>1. registration' \in BOOLEAN /\ js_released' \in BOOLEAN /\ queue_closed' \in BOOLEAN
      BY <2>2 DEF SubmitRefused, abandon, destroyJs
    <3>2. listener_ref' \in BOOLEAN /\ lease' \in {"none", "held", "released"}
      BY <2>2 DEF SubmitRefused, abandon, destroyJs
    <3> QED
      BY <2>2, <3>1, <3>2 DEF SubmitRefused, abandon, destroyJs
  <2>3. CASE SubmitUnwound
    <3>1. registration' \in BOOLEAN /\ js_released' \in BOOLEAN /\ queue_closed' \in BOOLEAN
      BY <2>3 DEF SubmitUnwound, abandon, destroyJs
    <3>2. listener_ref' \in BOOLEAN /\ threads' \in Nat
      BY <2>3 DEF SubmitUnwound, abandon, destroyJs
    <3> QED
      BY <2>3, <3>1, <3>2 DEF SubmitUnwound, abandon, destroyJs
  <2>4. CASE SubmitReady
    BY <2>4 DEF SubmitReady
  <2>5. CASE SpawnTask
    BY <2>5 DEF SpawnTask
  <2>6. CASE SpawnTaskFails
    BY <2>6 DEF SpawnTaskFails
  <2>7. CASE SpawnController
    BY <2>7 DEF SpawnController
  <2>8. CASE SpawnControllerFails
    BY <2>8 DEF SpawnControllerFails
  <2>9. CASE SubmitJoins
    BY <2>9 DEF SubmitJoins, taskJoined
  <2> QED
    BY <1>5, <2>1, <2>2, <2>3, <2>4, <2>5, <2>6, <2>7, <2>8, <2>9 DEF Submit
<1>6. CASE Settlement
  <2>1. CASE Settle
    <3>1. registration' \in BOOLEAN /\ js_released' \in BOOLEAN /\ queue_closed' \in BOOLEAN
      BY <2>1 DEF Settle, destroyJs, settlementFor
    <3>2. listener_ref' \in BOOLEAN
      BY <2>1 DEF Settle, destroyJs, settlementFor
    <3>3. outcome' \in {"none", "listener", "abort", "error", "resolved"}
      BY <2>1 DEF Settle, destroyJs, settlementFor
    <3> QED
      BY <2>1, <3>1, <3>2, <3>3 DEF Settle, destroyJs, settlementFor
  <2>2. CASE ReleaseHandle
    BY <2>2 DEF ReleaseHandle, pushesReturned, HandleShape, Shape
  <2>3. CASE FinishSettlement
    BY <2>3 DEF FinishSettlement, settledWith, settlementDrops, JsShape, Shape
  <2> QED
    BY <1>6, <2>1, <2>2, <2>3 DEF Settlement
<1>7. CASE Dispatch
  <2>1. CASE DispatchEvent
    BY <2>1 DEF DispatchEvent, Dispatchable
  <2>2. CASE DispatchUnheard
    BY <2>2 DEF DispatchUnheard, releaseEventSlot, Dispatchable
  <2>3. CASE ListenerReturns
    <3>1. listener_failed' \in BOOLEAN
      BY <2>3 DEF ListenerReturns, releaseEventSlot
    <3>2. inflight_events' \in Nat /\ delivered' \in Nat
      BY <2>3 DEF ListenerReturns, releaseEventSlot
    <3> QED
      BY <2>3, <3>1, <3>2 DEF ListenerReturns, releaseEventSlot
  <2>4. CASE DispatchCompletion
    BY <2>4 DEF DispatchCompletion, Dispatchable
  <2> QED
    BY <1>7, <2>1, <2>2, <2>3, <2>4 DEF Dispatch
<1>8. CASE Abort
  <2>1. CASE AbortBegins
    BY <2>1 DEF AbortBegins
  <2>2. CASE AbortTooLate
    BY <2>2 DEF AbortTooLate, JsShape, Shape
  <2>3. CASE AbortRequests
    BY <2>3 DEF AbortRequests
  <2>4. CASE AbortWakes
    BY <2>4 DEF AbortWakes, ControllerWoken, JsShape, Shape
  <2> QED
    BY <1>8, <2>1, <2>2, <2>3, <2>4 DEF Abort
<1>9. CASE Engine
  <2>1. CASE HandleCloses
    BY <2>1 DEF HandleCloses
  <2>2. CASE FinalizeBegins
    BY <2>2 DEF FinalizeBegins
  <2>3. CASE FinalizeEnds
    BY <2>3 DEF FinalizeEnds, pushesReturned, finalizerRefs, handOver
  <2>4. CASE DrainItem
    BY <2>4 DEF DrainItem, releaseEventSlot
  <2>5. CASE HandleDeleted
    BY <2>5 DEF HandleDeleted
  <2> QED
    BY <1>9, <2>1, <2>2, <2>3, <2>4, <2>5 DEF Engine
<1>10. CASE Reap
  BY <1>10 DEF Reap
<1>11. CASE ReleaseNative
  <2>1. registration' \in BOOLEAN /\ js_released' \in BOOLEAN /\ queue_closed' \in BOOLEAN
    BY <1>11 DEF ReleaseNative
  <2>2. native_released' \in BOOLEAN /\ lease' \in {"none", "held", "released"}
    BY <1>11 DEF ReleaseNative
  <2> QED
    BY <1>11, <2>1, <2>2 DEF ReleaseNative
<1>12. CASE TearDown
  BY <1>12 DEF TearDown
<1> QED
  BY <1>1, <1>2, <1>3, <1>4, <1>5, <1>6, <1>7, <1>8, <1>9, <1>10, <1>11, <1>12 DEF Next

\* Every step moves each thread to a program counter it knows.
LEMMA PcStep ==
  ASSUME IInv, Next
  PROVE  pc' \in [Posters -> PosterStates]
<1> USE PostersFinite DEF IInv, TypeOK, PosterStates, jsVars, taskVars, ownership, word,
    engine, events, cancellation, reaping, listener, settlement, history
<1>1. ASSUME NEW p \in Producers, Emit(p) PROVE pc' \in [Posters -> PosterStates]
  <2>1. CASE EmitBegins(p)
    BY <2>1 DEF EmitBegins
  <2>2. CASE Reserve(p)
    BY <2>2 DEF Reserve
  <2>3. CASE EmitFails(p)
    BY <2>3, SignalledOthers DEF EmitFails, releaseEventSlot
  <2>4. CASE EventRefused(p)
    BY <2>4, SignalledOthers DEF EventRefused, releaseEventSlot
  <2>5. CASE ProducerStops(p)
    BY <2>5 DEF ProducerStops
  <2> QED
    BY <1>1, <2>1, <2>2, <2>3, <2>4, <2>5 DEF Emit
<1>2. ASSUME NEW p \in Posters, Post(p) PROVE pc' \in [Posters -> PosterStates]
  <2>1. CASE Admit(p)
    BY <2>1 DEF Admit
  <2>2. CASE PushQueued(p)
    BY <2>2 DEF PushQueued
  <2>3. CASE PushOnClosing(p)
    BY <2>3 DEF PushOnClosing
  <2>4. CASE PushFails(p)
    BY <2>4 DEF PushFails
  <2>5. CASE Leave(p)
    BY <2>5 DEF Leave, leaveDispatcherPush
  <2>6. CASE Unwind(p)
    BY <2>6, WokenOthers DEF Unwind
  <2> QED
    BY <1>2, <2>1, <2>2, <2>3, <2>4, <2>5, <2>6 DEF Post
<1>3. CASE Task
  <2>1. CASE TaskFinishes
    BY <2>1 DEF TaskFinishes
  <2>2. CASE TaskReturns
    BY <2>2 DEF TaskReturns, ControllerWoken
  <2> QED
    BY <1>3, <2>1, <2>2 DEF Task
<1>4. CASE Control
  <2>1. CASE ControllerChecks
    BY <2>1 DEF ControllerChecks
  <2>2. CASE ControllerDecides
    BY <2>2 DEF ControllerDecides
  <2>3. CASE ControllerJoins
    BY <2>3 DEF ControllerJoins, taskJoined
  <2>4. CASE CompletionRefused
    BY <2>4, WokenOthers DEF CompletionRefused
  <2>5. CASE ControllerReturns
    BY <2>5 DEF ControllerReturns
  <2> QED
    BY <1>4, <2>1, <2>2, <2>3, <2>4, <2>5 DEF Control
<1>5. CASE Submit
  <2>1. CASE SubmitAborted
    BY <2>1 DEF SubmitAborted
  <2>2. CASE SubmitRefused
    BY <2>2 DEF SubmitRefused, abandon, destroyJs
  <2>3. CASE SubmitUnwound
    BY <2>3 DEF SubmitUnwound, abandon, destroyJs
  <2>4. CASE SubmitReady
    BY <2>4 DEF SubmitReady
  <2>5. CASE SpawnTask
    BY <2>5 DEF SpawnTask
  <2>6. CASE SpawnTaskFails
    BY <2>6 DEF SpawnTaskFails
  <2>7. CASE SpawnController
    BY <2>7 DEF SpawnController
  <2>8. CASE SpawnControllerFails
    BY <2>8, WokenOthers DEF SpawnControllerFails
  <2>9. CASE SubmitJoins
    BY <2>9 DEF SubmitJoins, taskJoined
  <2> QED
    BY <1>5, <2>1, <2>2, <2>3, <2>4, <2>5, <2>6, <2>7, <2>8, <2>9 DEF Submit
<1>6. CASE Settlement
  <2>1. CASE Settle
    BY <2>1, WokenOthers DEF Settle, destroyJs, settlementFor
  <2>2. CASE ReleaseHandle
    BY <2>2 DEF ReleaseHandle, pushesReturned
  <2>3. CASE FinishSettlement
    BY <2>3 DEF FinishSettlement, settlementDrops
  <2> QED
    BY <1>6, <2>1, <2>2, <2>3 DEF Settlement
<1>7. CASE Dispatch
  <2>1. CASE DispatchEvent
    BY <2>1 DEF DispatchEvent, Dispatchable
  <2>2. CASE DispatchUnheard
    BY <2>2, SignalledOthers DEF DispatchUnheard, releaseEventSlot, Dispatchable
  <2>3. CASE ListenerReturns
    BY <2>3, SignalledOthers DEF ListenerReturns, releaseEventSlot
  <2>4. CASE DispatchCompletion
    BY <2>4 DEF DispatchCompletion, Dispatchable
  <2> QED
    BY <1>7, <2>1, <2>2, <2>3, <2>4 DEF Dispatch
<1>8. CASE Abort
  <2>1. CASE AbortBegins
    BY <2>1 DEF AbortBegins
  <2>2. CASE AbortTooLate
    BY <2>2 DEF AbortTooLate
  <2>3. CASE AbortRequests
    BY <2>3 DEF AbortRequests
  <2>4. CASE AbortWakes
    BY <2>4, WokenOthers DEF AbortWakes, ControllerWoken
  <2> QED
    BY <1>8, <2>1, <2>2, <2>3, <2>4 DEF Abort
<1>9. CASE Engine
  <2>1. CASE HandleCloses
    BY <2>1 DEF HandleCloses
  <2>2. CASE FinalizeBegins
    BY <2>2 DEF FinalizeBegins
  <2>3. CASE FinalizeEnds
    BY <2>3, WokenOthers DEF FinalizeEnds, pushesReturned, finalizerRefs, handOver
  <2>4. CASE DrainItem
    BY <2>4, SignalledOthers DEF DrainItem, releaseEventSlot
  <2>5. CASE HandleDeleted
    BY <2>5 DEF HandleDeleted
  <2> QED
    BY <1>9, <2>1, <2>2, <2>3, <2>4, <2>5 DEF Engine
<1>10. CASE Reap
  BY <1>10 DEF Reap
<1>11. CASE ReleaseNative
  BY <1>11, WokenOthers DEF ReleaseNative
<1>12. CASE TearDown
  BY <1>12 DEF TearDown
<1> QED
  BY <1>1, <1>2, <1>3, <1>4, <1>5, <1>6, <1>7, <1>8, <1>9, <1>10, <1>11, <1>12 DEF Next

\* What the JavaScript thread is doing fits the handle and the controller's
\* future, after every step.
LEMMA JsShapeStep ==
  ASSUME IInv, Next
  PROVE  JsShape' /\ HandleShape' /\ ReapShape'
<1> USE PostersFinite, OperationAssumption DEF IInv, TypeOK, Shape, JsShape, HandleShape,
    ReapShape, SpawnShape, ProducerShape, jsVars, taskVars, ownership, word, engine, events,
    cancellation, reaping, listener, settlement, history
<1>1. ASSUME NEW p \in Producers, Emit(p) PROVE JsShape' /\ HandleShape' /\ ReapShape'
  <2>1. CASE EmitBegins(p)
    BY <2>1 DEF EmitBegins
  <2>2. CASE Reserve(p)
    BY <2>2 DEF Reserve
  <2>3. CASE EmitFails(p)
    BY <2>3 DEF EmitFails, releaseEventSlot
  <2>4. CASE EventRefused(p)
    BY <2>4 DEF EventRefused, releaseEventSlot
  <2>5. CASE ProducerStops(p)
    BY <2>5 DEF ProducerStops
  <2> QED
    BY <1>1, <2>1, <2>2, <2>3, <2>4, <2>5 DEF Emit
<1>2. ASSUME NEW p \in Posters, Post(p) PROVE JsShape' /\ HandleShape' /\ ReapShape'
  <2>1. CASE Admit(p)
    BY <2>1 DEF Admit
  <2>2. CASE PushQueued(p)
    BY <2>2 DEF PushQueued
  <2>3. CASE PushOnClosing(p)
    BY <2>3 DEF PushOnClosing
  <2>4. CASE PushFails(p)
    BY <2>4 DEF PushFails
  <2>5. CASE Leave(p)
    BY <2>5 DEF Leave, leaveDispatcherPush
  <2>6. CASE Unwind(p)
    BY <2>6 DEF Unwind
  <2> QED
    BY <1>2, <2>1, <2>2, <2>3, <2>4, <2>5, <2>6 DEF Post
<1>3. CASE Task
  <2>1. CASE TaskFinishes
    BY <2>1 DEF TaskFinishes
  <2>2. CASE TaskReturns
    BY <2>2 DEF TaskReturns, ControllerWoken
  <2> QED
    BY <1>3, <2>1, <2>2 DEF Task
<1>4. CASE Control
  <2>1. CASE ControllerChecks
    BY <2>1 DEF ControllerChecks
  <2>2. CASE ControllerDecides
    BY <2>2 DEF ControllerDecides
  <2>3. CASE ControllerJoins
    BY <2>3 DEF ControllerJoins, taskJoined
  <2>4. CASE CompletionRefused
    BY <2>4 DEF CompletionRefused
  <2>5. CASE ControllerReturns
    BY <2>5 DEF ControllerReturns
  <2> QED
    BY <1>4, <2>1, <2>2, <2>3, <2>4, <2>5 DEF Control
<1>5. CASE Submit
  <2>1. CASE SubmitAborted
    BY <2>1 DEF SubmitAborted
  <2>2. CASE SubmitRefused
    BY <2>2 DEF SubmitRefused, abandon, destroyJs
  <2>3. CASE SubmitUnwound
    BY <2>3 DEF SubmitUnwound, abandon, destroyJs
  <2>4. CASE SubmitReady
    BY <2>4 DEF SubmitReady
  <2>5. CASE SpawnTask
    BY <2>5 DEF SpawnTask
  <2>6. CASE SpawnTaskFails
    BY <2>6 DEF SpawnTaskFails
  <2>7. CASE SpawnController
    BY <2>7 DEF SpawnController
  <2>8. CASE SpawnControllerFails
    BY <2>8 DEF SpawnControllerFails
  <2>9. CASE SubmitJoins
    BY <2>9 DEF SubmitJoins, taskJoined
  <2> QED
    BY <1>5, <2>1, <2>2, <2>3, <2>4, <2>5, <2>6, <2>7, <2>8, <2>9 DEF Submit
<1>6. CASE Settlement
  <2>1. CASE Settle
    BY <2>1 DEF Settle, destroyJs, settlementFor
  <2>2. CASE ReleaseHandle
    BY <2>2 DEF ReleaseHandle, pushesReturned
  <2>3. CASE FinishSettlement
    BY <2>3 DEF FinishSettlement, settlementDrops
  <2> QED
    BY <1>6, <2>1, <2>2, <2>3 DEF Settlement
<1>7. CASE Dispatch
  <2>1. CASE DispatchEvent
    BY <2>1 DEF DispatchEvent, Dispatchable
  <2>2. CASE DispatchUnheard
    BY <2>2 DEF DispatchUnheard, releaseEventSlot, Dispatchable
  <2>3. CASE ListenerReturns
    BY <2>3 DEF ListenerReturns, releaseEventSlot
  <2>4. CASE DispatchCompletion
    BY <2>4 DEF DispatchCompletion, Dispatchable
  <2> QED
    BY <1>7, <2>1, <2>2, <2>3, <2>4 DEF Dispatch
<1>8. CASE Abort
  <2>1. CASE AbortBegins
    BY <2>1 DEF AbortBegins
  <2>2. CASE AbortTooLate
    BY <2>2 DEF AbortTooLate
  <2>3. CASE AbortRequests
    BY <2>3 DEF AbortRequests
  <2>4. CASE AbortWakes
    BY <2>4 DEF AbortWakes, ControllerWoken
  <2> QED
    BY <1>8, <2>1, <2>2, <2>3, <2>4 DEF Abort
<1>9. CASE Engine
  <2>1. CASE HandleCloses
    BY <2>1 DEF HandleCloses
  <2>2. CASE FinalizeBegins
    BY <2>2 DEF FinalizeBegins
  <2>3. CASE FinalizeEnds
    BY <2>3 DEF FinalizeEnds, pushesReturned, finalizerRefs, handOver
  <2>4. CASE DrainItem
    BY <2>4 DEF DrainItem, releaseEventSlot
  <2>5. CASE HandleDeleted
    BY <2>5 DEF HandleDeleted
  <2> QED
    BY <1>9, <2>1, <2>2, <2>3, <2>4, <2>5 DEF Engine
<1>10. CASE Reap
  BY <1>10 DEF Reap
<1>11. CASE ReleaseNative
  BY <1>11 DEF ReleaseNative
<1>12. CASE TearDown
  BY <1>12 DEF TearDown
<1> QED
  BY <1>1, <1>2, <1>3, <1>4, <1>5, <1>6, <1>7, <1>8, <1>9, <1>10, <1>11, <1>12 DEF Next

\* A thread runs only after submit started it.
LEMMA SpawnShapeStep ==
  ASSUME IInv, Next
  PROVE  SpawnShape'
<1> USE PostersFinite, OperationAssumption DEF IInv, TypeOK, Shape, SpawnShape,
    ProducerShape, jsVars, taskVars, ownership, word, engine, events, cancellation, reaping,
    listener, settlement, history
<1>1. ASSUME NEW p \in Producers, Emit(p) PROVE SpawnShape'
  <2>1. CASE EmitBegins(p)
    BY <2>1 DEF EmitBegins
  <2>2. CASE Reserve(p)
    BY <2>2 DEF Reserve
  <2>3. CASE EmitFails(p)
    BY <2>3, SignalledOthers DEF EmitFails, releaseEventSlot, Signalled, Asleep
  <2>4. CASE EventRefused(p)
    BY <2>4, SignalledOthers DEF EventRefused, releaseEventSlot, Signalled, Asleep
  <2>5. CASE ProducerStops(p)
    BY <2>5 DEF ProducerStops
  <2> QED
    BY <1>1, <2>1, <2>2, <2>3, <2>4, <2>5 DEF Emit
<1>2. ASSUME NEW p \in Posters, Post(p) PROVE SpawnShape'
  <2>1. CASE Admit(p)
    BY <2>1 DEF Admit
  <2>2. CASE PushQueued(p)
    BY <2>2 DEF PushQueued
  <2>3. CASE PushOnClosing(p)
    BY <2>3 DEF PushOnClosing
  <2>4. CASE PushFails(p)
    BY <2>4 DEF PushFails
  <2>5. CASE Leave(p)
    BY <2>5 DEF Leave, leaveDispatcherPush
  <2>6. CASE Unwind(p)
    BY <2>6, WokenOthers DEF Unwind, Woken, Asleep
  <2> QED
    BY <1>2, <2>1, <2>2, <2>3, <2>4, <2>5, <2>6 DEF Post
<1>3. CASE Task
  <2>1. CASE TaskFinishes
    BY <2>1 DEF TaskFinishes
  <2>2. CASE TaskReturns
    BY <2>2 DEF TaskReturns, ControllerWoken
  <2> QED
    BY <1>3, <2>1, <2>2 DEF Task
<1>4. CASE Control
  <2>1. CASE ControllerChecks
    BY <2>1 DEF ControllerChecks
  <2>2. CASE ControllerDecides
    BY <2>2 DEF ControllerDecides
  <2>3. CASE ControllerJoins
    BY <2>3 DEF ControllerJoins, taskJoined
  <2>4. CASE CompletionRefused
    BY <2>4, WokenOthers DEF CompletionRefused, Woken, Asleep
  <2>5. CASE ControllerReturns
    BY <2>5 DEF ControllerReturns
  <2> QED
    BY <1>4, <2>1, <2>2, <2>3, <2>4, <2>5 DEF Control
<1>5. CASE Submit
  <2>1. CASE SubmitAborted
    BY <2>1 DEF SubmitAborted
  <2>2. CASE SubmitRefused
    BY <2>2 DEF SubmitRefused, abandon, destroyJs
  <2>3. CASE SubmitUnwound
    BY <2>3 DEF SubmitUnwound, abandon, destroyJs
  <2>4. CASE SubmitReady
    BY <2>4 DEF SubmitReady
  <2>5. CASE SpawnTask
    BY <2>5 DEF SpawnTask
  <2>6. CASE SpawnTaskFails
    BY <2>6 DEF SpawnTaskFails
  <2>7. CASE SpawnController
    BY <2>7 DEF SpawnController
  <2>8. CASE SpawnControllerFails
    BY <2>8, WokenOthers DEF SpawnControllerFails
  <2>9. CASE SubmitJoins
    BY <2>9 DEF SubmitJoins, taskJoined
  <2> QED
    BY <1>5, <2>1, <2>2, <2>3, <2>4, <2>5, <2>6, <2>7, <2>8, <2>9 DEF Submit
<1>6. CASE Settlement
  <2>1. CASE Settle
    BY <2>1, WokenOthers DEF Settle, destroyJs, settlementFor
  <2>2. CASE ReleaseHandle
    BY <2>2 DEF ReleaseHandle, pushesReturned
  <2>3. CASE FinishSettlement
    BY <2>3 DEF FinishSettlement, settlementDrops
  <2> QED
    BY <1>6, <2>1, <2>2, <2>3 DEF Settlement
<1>7. CASE Dispatch
  <2>1. CASE DispatchEvent
    BY <2>1 DEF DispatchEvent, Dispatchable
  <2>2. CASE DispatchUnheard
    BY <2>2, SignalledOthers DEF DispatchUnheard, releaseEventSlot, Dispatchable
  <2>3. CASE ListenerReturns
    BY <2>3, SignalledOthers DEF ListenerReturns, releaseEventSlot
  <2>4. CASE DispatchCompletion
    BY <2>4 DEF DispatchCompletion, Dispatchable
  <2> QED
    BY <1>7, <2>1, <2>2, <2>3, <2>4 DEF Dispatch
<1>8. CASE Abort
  <2>1. CASE AbortBegins
    BY <2>1 DEF AbortBegins
  <2>2. CASE AbortTooLate
    BY <2>2 DEF AbortTooLate, JsShape
  <2>3. CASE AbortRequests
    BY <2>3 DEF AbortRequests
  <2>4. CASE AbortWakes
    BY <2>4, WokenOthers DEF AbortWakes, ControllerWoken, Woken, Asleep, JsShape
  <2> QED
    BY <1>8, <2>1, <2>2, <2>3, <2>4 DEF Abort
<1>9. CASE Engine
  <2>1. CASE HandleCloses
    BY <2>1 DEF HandleCloses
  <2>2. CASE FinalizeBegins
    BY <2>2 DEF FinalizeBegins
  <2>3. CASE FinalizeEnds
    BY <2>3, WokenOthers DEF FinalizeEnds, pushesReturned, finalizerRefs, handOver
  <2>4. CASE DrainItem
    BY <2>4, SignalledOthers DEF DrainItem, releaseEventSlot
  <2>5. CASE HandleDeleted
    BY <2>5 DEF HandleDeleted
  <2> QED
    BY <1>9, <2>1, <2>2, <2>3, <2>4, <2>5 DEF Engine
<1>10. CASE Reap
  BY <1>10 DEF Reap
<1>11. CASE ReleaseNative
  BY <1>11, WokenOthers DEF ReleaseNative
<1>12. CASE TearDown
  BY <1>12 DEF TearDown
<1> QED
  BY <1>1, <1>2, <1>3, <1>4, <1>5, <1>6, <1>7, <1>8, <1>9, <1>10, <1>11, <1>12 DEF Next

\* A producer emits only while the task runs.
LEMMA ProducerShapeStep ==
  ASSUME IInv, Next
  PROVE  ProducerShape'
<1> USE PostersFinite, OperationAssumption DEF IInv, TypeOK, Shape, ProducerShape, jsVars,
    taskVars, ownership, word, engine, events, cancellation, reaping, listener, settlement, history
<1>1. ASSUME NEW p \in Producers, Emit(p) PROVE ProducerShape'
  <2>1. CASE EmitBegins(p)
    BY <2>1 DEF EmitBegins
  <2>2. CASE Reserve(p)
    BY <2>2 DEF Reserve
  <2>3. CASE EmitFails(p)
    BY <2>3, SignalledOthers DEF EmitFails, releaseEventSlot, Signalled, Asleep
  <2>4. CASE EventRefused(p)
    BY <2>4, SignalledOthers DEF EventRefused, releaseEventSlot, Signalled, Asleep
  <2>5. CASE ProducerStops(p)
    BY <2>5 DEF ProducerStops
  <2> QED
    BY <1>1, <2>1, <2>2, <2>3, <2>4, <2>5 DEF Emit
<1>2. ASSUME NEW p \in Posters, Post(p) PROVE ProducerShape'
  <2>1. CASE Admit(p)
    BY <2>1 DEF Admit
  <2>2. CASE PushQueued(p)
    BY <2>2 DEF PushQueued
  <2>3. CASE PushOnClosing(p)
    BY <2>3 DEF PushOnClosing
  <2>4. CASE PushFails(p)
    BY <2>4 DEF PushFails
  <2>5. CASE Leave(p)
    BY <2>5 DEF Leave, leaveDispatcherPush
  <2>6. CASE Unwind(p)
    BY <2>6, WokenOthers DEF Unwind, Woken, Asleep
  <2> QED
    BY <1>2, <2>1, <2>2, <2>3, <2>4, <2>5, <2>6 DEF Post
<1>3. CASE Task
  <2>1. CASE TaskFinishes
    BY <2>1 DEF TaskFinishes
  <2>2. CASE TaskReturns
    BY <2>2 DEF TaskReturns, ControllerWoken
  <2> QED
    BY <1>3, <2>1, <2>2 DEF Task
<1>4. CASE Control
  <2>1. CASE ControllerChecks
    BY <2>1 DEF ControllerChecks
  <2>2. CASE ControllerDecides
    BY <2>2 DEF ControllerDecides
  <2>3. CASE ControllerJoins
    BY <2>3 DEF ControllerJoins, taskJoined
  <2>4. CASE CompletionRefused
    BY <2>4, WokenOthers DEF CompletionRefused, Woken, Asleep
  <2>5. CASE ControllerReturns
    BY <2>5 DEF ControllerReturns
  <2> QED
    BY <1>4, <2>1, <2>2, <2>3, <2>4, <2>5 DEF Control
<1>5. CASE Submit
  <2>1. CASE SubmitAborted
    BY <2>1 DEF SubmitAborted
  <2>2. CASE SubmitRefused
    BY <2>2 DEF SubmitRefused, abandon, destroyJs
  <2>3. CASE SubmitUnwound
    BY <2>3 DEF SubmitUnwound, abandon, destroyJs
  <2>4. CASE SubmitReady
    BY <2>4 DEF SubmitReady
  <2>5. CASE SpawnTask
    BY <2>5 DEF SpawnTask
  <2>6. CASE SpawnTaskFails
    BY <2>6 DEF SpawnTaskFails
  <2>7. CASE SpawnController
    BY <2>7 DEF SpawnController
  <2>8. CASE SpawnControllerFails
    BY <2>8, WokenOthers DEF SpawnControllerFails
  <2>9. CASE SubmitJoins
    BY <2>9 DEF SubmitJoins, taskJoined
  <2> QED
    BY <1>5, <2>1, <2>2, <2>3, <2>4, <2>5, <2>6, <2>7, <2>8, <2>9 DEF Submit
<1>6. CASE Settlement
  <2>1. CASE Settle
    BY <2>1, WokenOthers DEF Settle, destroyJs, settlementFor
  <2>2. CASE ReleaseHandle
    BY <2>2 DEF ReleaseHandle, pushesReturned
  <2>3. CASE FinishSettlement
    BY <2>3 DEF FinishSettlement, settlementDrops
  <2> QED
    BY <1>6, <2>1, <2>2, <2>3 DEF Settlement
<1>7. CASE Dispatch
  <2>1. CASE DispatchEvent
    BY <2>1 DEF DispatchEvent, Dispatchable
  <2>2. CASE DispatchUnheard
    BY <2>2, SignalledOthers DEF DispatchUnheard, releaseEventSlot, Dispatchable
  <2>3. CASE ListenerReturns
    BY <2>3, SignalledOthers DEF ListenerReturns, releaseEventSlot
  <2>4. CASE DispatchCompletion
    BY <2>4 DEF DispatchCompletion, Dispatchable
  <2> QED
    BY <1>7, <2>1, <2>2, <2>3, <2>4 DEF Dispatch
<1>8. CASE Abort
  <2>1. CASE AbortBegins
    BY <2>1 DEF AbortBegins
  <2>2. CASE AbortTooLate
    BY <2>2 DEF AbortTooLate, JsShape
  <2>3. CASE AbortRequests
    BY <2>3 DEF AbortRequests
  <2>4. CASE AbortWakes
    BY <2>4, WokenOthers DEF AbortWakes, ControllerWoken, Woken, Asleep, JsShape
  <2> QED
    BY <1>8, <2>1, <2>2, <2>3, <2>4 DEF Abort
<1>9. CASE Engine
  <2>1. CASE HandleCloses
    BY <2>1 DEF HandleCloses
  <2>2. CASE FinalizeBegins
    BY <2>2 DEF FinalizeBegins
  <2>3. CASE FinalizeEnds
    BY <2>3, WokenOthers DEF FinalizeEnds, pushesReturned, finalizerRefs, handOver
  <2>4. CASE DrainItem
    BY <2>4, SignalledOthers DEF DrainItem, releaseEventSlot
  <2>5. CASE HandleDeleted
    BY <2>5 DEF HandleDeleted
  <2> QED
    BY <1>9, <2>1, <2>2, <2>3, <2>4, <2>5 DEF Engine
<1>10. CASE Reap
  BY <1>10 DEF Reap
<1>11. CASE ReleaseNative
  BY <1>11, WokenOthers DEF ReleaseNative
<1>12. CASE TearDown
  BY <1>12 DEF TearDown
<1> QED
  BY <1>1, <1>2, <1>3, <1>4, <1>5, <1>6, <1>7, <1>8, <1>9, <1>10, <1>11, <1>12 DEF Next

-----------------------------------------------------------------------------
\* The steps that are not part of a push.
Quiet ==
  \/ \E p \in Producers : Emit(p)
  \/ Task \/ Control \/ Reap \/ ReleaseNative
  \/ Submit \/ Settlement \/ Dispatch \/ Abort
  \/ TearDown \/ Engine

\* A step that is not part of a push neither takes nor gives back the record of a push.
LEMMA QuietSets ==
  ASSUME IInv, Quiet
  PROVE  Holders' = Holders /\ Pushers' = Pushers
<1> USE PostersFinite, OperationAssumption DEF IInv, TypeOK, Holders, HoldsRecord, Pushers,
    InPush, jsVars, taskVars, ownership, word, engine, events, cancellation, reaping,
    listener, settlement, history
<1>1. ASSUME NEW p \in Producers, Emit(p) PROVE Holders' = Holders /\ Pushers' = Pushers
  <2>1. CASE EmitBegins(p)
    BY <2>1 DEF EmitBegins
  <2>2. CASE Reserve(p)
    BY <2>2 DEF Reserve
  <2>3. CASE EmitFails(p)
    BY <2>3 DEF EmitFails, releaseEventSlot, Signalled, Asleep
  <2>4. CASE EventRefused(p)
    BY <2>4 DEF EventRefused, releaseEventSlot, Signalled, Asleep
  <2>5. CASE ProducerStops(p)
    BY <2>5 DEF ProducerStops
  <2> QED
    BY <1>1, <2>1, <2>2, <2>3, <2>4, <2>5 DEF Emit
<1>2. CASE Task
  <2>1. CASE TaskFinishes
    BY <2>1 DEF TaskFinishes
  <2>2. CASE TaskReturns
    BY <2>2 DEF TaskReturns, ControllerWoken
  <2> QED
    BY <1>2, <2>1, <2>2 DEF Task
<1>3. CASE Control
  <2>1. CASE ControllerChecks
    BY <2>1 DEF ControllerChecks
  <2>2. CASE ControllerDecides
    BY <2>2 DEF ControllerDecides
  <2>3. CASE ControllerJoins
    BY <2>3 DEF ControllerJoins, taskJoined
  <2>4. CASE CompletionRefused
    BY <2>4 DEF CompletionRefused, Woken, Asleep
  <2>5. CASE ControllerReturns
    BY <2>5 DEF ControllerReturns
  <2> QED
    BY <1>3, <2>1, <2>2, <2>3, <2>4, <2>5 DEF Control
<1>4. CASE Submit
  <2>1. CASE SubmitAborted
    BY <2>1 DEF SubmitAborted
  <2>2. CASE SubmitRefused
    BY <2>2 DEF SubmitRefused, abandon, destroyJs
  <2>3. CASE SubmitUnwound
    BY <2>3 DEF SubmitUnwound, abandon, destroyJs
  <2>4. CASE SubmitReady
    BY <2>4 DEF SubmitReady
  <2>5. CASE SpawnTask
    BY <2>5 DEF SpawnTask
  <2>6. CASE SpawnTaskFails
    BY <2>6 DEF SpawnTaskFails
  <2>7. CASE SpawnController
    BY <2>7 DEF SpawnController, SpawnShape, Shape
  <2>8. CASE SpawnControllerFails
    BY <2>8 DEF SpawnControllerFails, Woken, Asleep
  <2>9. CASE SubmitJoins
    BY <2>9 DEF SubmitJoins, taskJoined
  <2> QED
    BY <1>4, <2>1, <2>2, <2>3, <2>4, <2>5, <2>6, <2>7, <2>8, <2>9 DEF Submit
<1>5. CASE Settlement
  <2>1. CASE Settle
    BY <2>1 DEF Settle, destroyJs, settlementFor, Woken, Asleep
  <2>2. CASE ReleaseHandle
    BY <2>2 DEF ReleaseHandle, pushesReturned
  <2>3. CASE FinishSettlement
    BY <2>3 DEF FinishSettlement, settlementDrops
  <2> QED
    BY <1>5, <2>1, <2>2, <2>3 DEF Settlement
<1>6. CASE Dispatch
  <2>1. CASE DispatchEvent
    BY <2>1 DEF DispatchEvent, Dispatchable
  <2>2. CASE DispatchUnheard
    BY <2>2 DEF DispatchUnheard, releaseEventSlot, Dispatchable, Signalled, Asleep
  <2>3. CASE ListenerReturns
    BY <2>3 DEF ListenerReturns, releaseEventSlot, Signalled, Asleep
  <2>4. CASE DispatchCompletion
    BY <2>4 DEF DispatchCompletion, Dispatchable
  <2> QED
    BY <1>6, <2>1, <2>2, <2>3, <2>4 DEF Dispatch
<1>7. CASE Abort
  <2>1. CASE AbortBegins
    BY <2>1 DEF AbortBegins
  <2>2. CASE AbortTooLate
    BY <2>2 DEF AbortTooLate
  <2>3. CASE AbortRequests
    BY <2>3 DEF AbortRequests
  <2>4. CASE AbortWakes
    BY <2>4 DEF AbortWakes, ControllerWoken, Woken, Asleep
  <2> QED
    BY <1>7, <2>1, <2>2, <2>3, <2>4 DEF Abort
<1>8. CASE Engine
  <2>1. CASE HandleCloses
    BY <2>1 DEF HandleCloses
  <2>2. CASE FinalizeBegins
    BY <2>2 DEF FinalizeBegins
  <2>3. CASE FinalizeEnds
    BY <2>3 DEF FinalizeEnds, pushesReturned, finalizerRefs, handOver, Woken, Asleep
  <2>4. CASE DrainItem
    BY <2>4 DEF DrainItem, releaseEventSlot, Signalled, Asleep
  <2>5. CASE HandleDeleted
    BY <2>5 DEF HandleDeleted
  <2> QED
    BY <1>8, <2>1, <2>2, <2>3, <2>4, <2>5 DEF Engine
<1>9. CASE Reap
  BY <1>9 DEF Reap
<1>10. CASE ReleaseNative
  BY <1>10 DEF ReleaseNative, Woken, Asleep
<1>11. CASE TearDown
  BY <1>11 DEF TearDown
<1> QED
  BY <1>1, <1>2, <1>3, <1>4, <1>5, <1>6, <1>7, <1>8, <1>9, <1>10, <1>11 DEF Quiet

\* The sets of threads that are counted are finite.
LEMMA SetsFinite ==
  /\ IsFiniteSet(Holders) /\ Cardinality(Holders) \in Nat
  /\ IsFiniteSet(Pushers) /\ Cardinality(Pushers) \in Nat
BY PostersFinite, FS_Subset, FS_CardinalityType DEF Holders, Pushers

\* The engine delivers one record at a time.
LEMMA QueueLength ==
  ASSUME queue \in Seq({"event", "completion"})
  PROVE  /\ Len(queue) \in Nat
         /\ queue # <<>> => Len(Tail(queue)) = Len(queue) - 1 /\ Len(queue) > 0
BY EmptySeq, HeadTailProperties

\* The parts of the number of owners are natural numbers.
LEMMA OwnersNatural ==
  ASSUME IInv
  PROVE  JsOwners \in Nat /\ ThreadOwners \in Nat /\ RecordOwners \in Nat /\ ref_count \in Nat
BY SetsFinite, QueueLength DEF IInv, TypeOK, FieldsOK, JsOwners, ThreadOwners, RecordOwners, One

\* The reference count over every step that is not part of a push.
LEMMA RefCountQuiet ==
  ASSUME IInv, Quiet
  PROVE  RefCountExact'
<1> USE DEF IInv, jsVars, taskVars, ownership, word, engine, events, cancellation, reaping,
    listener, settlement, history
<1>q. /\ Cardinality(Holders)' = Cardinality(Holders) /\ Cardinality(Holders) \in Nat
      /\ Len(queue) \in Nat
      /\ queue # <<>> => Len(Tail(queue)) = Len(queue) - 1 /\ Len(queue) > 0
  BY QuietSets, SetsFinite, QueueLength DEF IInv, TypeOK, FieldsOK
<1>r. /\ ref_count = JsOwners + ThreadOwners + RecordOwners
      /\ JsOwners \in Nat /\ ThreadOwners \in Nat /\ RecordOwners \in Nat /\ ref_count \in Nat
  BY OwnersNatural DEF IInv, RefCountExact, Owners
<1>1. ASSUME NEW p \in Producers, Emit(p) PROVE RefCountExact'
  <2>1. CASE EmitBegins(p)
    <3>1. ControllerOwner' <=> ControllerOwner
      BY <2>1, PostersFinite, OperationAssumption DEF EmitBegins, TypeOK, ControllerOwner
    <3>2. JsOwners' = JsOwners
      BY <2>1 DEF EmitBegins, JsOwners, InitialOwner, InListener, One, Shape, JsShape
    <3>3. ThreadOwners' = ThreadOwners
      BY <2>1, <3>1 DEF EmitBegins, ThreadOwners, One, Shape, SpawnShape, ReapShape
    <3>4. RecordOwners' = RecordOwners
      BY <2>1, <1>q DEF EmitBegins, RecordOwners
    <3>5. ref_count' = ref_count
      BY <2>1 DEF EmitBegins
    <3> QED
      BY <1>r, <3>1, <3>2, <3>3, <3>4, <3>5 DEF RefCountExact, Owners
  <2>2. CASE Reserve(p)
    <3>1. ControllerOwner' <=> ControllerOwner
      BY <2>2, PostersFinite, OperationAssumption DEF Reserve, TypeOK, ControllerOwner
    <3>2. JsOwners' = JsOwners
      BY <2>2 DEF Reserve, JsOwners, InitialOwner, InListener, One, Shape, JsShape
    <3>3. ThreadOwners' = ThreadOwners
      BY <2>2, <3>1 DEF Reserve, ThreadOwners, One, Shape, SpawnShape, ReapShape
    <3>4. RecordOwners' = RecordOwners
      BY <2>2, <1>q DEF Reserve, RecordOwners
    <3>5. ref_count' = ref_count
      BY <2>2 DEF Reserve
    <3> QED
      BY <1>r, <3>1, <3>2, <3>3, <3>4, <3>5 DEF RefCountExact, Owners
  <2>3. CASE EmitFails(p)
    <3>1. ControllerOwner' <=> ControllerOwner
      BY <2>3, PostersFinite, OperationAssumption DEF EmitFails, releaseEventSlot, TypeOK,
          ControllerOwner, Signalled, Asleep
    <3>2. JsOwners' = JsOwners
      BY <2>3 DEF EmitFails, releaseEventSlot, JsOwners, InitialOwner, InListener, One,
          Shape, JsShape
    <3>3. ThreadOwners' = ThreadOwners
      BY <2>3, <3>1 DEF EmitFails, releaseEventSlot, ThreadOwners, One, Shape, SpawnShape, ReapShape
    <3>4. RecordOwners' = RecordOwners
      BY <2>3, <1>q DEF EmitFails, releaseEventSlot, RecordOwners
    <3>5. ref_count' = ref_count
      BY <2>3 DEF EmitFails, releaseEventSlot
    <3> QED
      BY <1>r, <3>1, <3>2, <3>3, <3>4, <3>5 DEF RefCountExact, Owners
  <2>4. CASE EventRefused(p)
    <3>1. ControllerOwner' <=> ControllerOwner
      BY <2>4, PostersFinite, OperationAssumption DEF EventRefused, releaseEventSlot,
          TypeOK, ControllerOwner, Signalled, Asleep
    <3>2. JsOwners' = JsOwners
      BY <2>4 DEF EventRefused, releaseEventSlot, JsOwners, InitialOwner, InListener, One,
          Shape, JsShape
    <3>3. ThreadOwners' = ThreadOwners
      BY <2>4, <3>1 DEF EventRefused, releaseEventSlot, ThreadOwners, One, Shape,
          SpawnShape, ReapShape
    <3>4. RecordOwners' = RecordOwners
      BY <2>4, <1>q DEF EventRefused, releaseEventSlot, RecordOwners
    <3>5. ref_count' = ref_count
      BY <2>4 DEF EventRefused, releaseEventSlot
    <3> QED
      BY <1>r, <3>1, <3>2, <3>3, <3>4, <3>5 DEF RefCountExact, Owners
  <2>5. CASE ProducerStops(p)
    <3>1. ControllerOwner' <=> ControllerOwner
      BY <2>5, PostersFinite, OperationAssumption DEF ProducerStops, TypeOK, ControllerOwner
    <3>2. JsOwners' = JsOwners
      BY <2>5 DEF ProducerStops, JsOwners, InitialOwner, InListener, One, Shape, JsShape
    <3>3. ThreadOwners' = ThreadOwners
      BY <2>5, <3>1 DEF ProducerStops, ThreadOwners, One, Shape, SpawnShape, ReapShape
    <3>4. RecordOwners' = RecordOwners
      BY <2>5, <1>q DEF ProducerStops, RecordOwners
    <3>5. ref_count' = ref_count
      BY <2>5 DEF ProducerStops
    <3> QED
      BY <1>r, <3>1, <3>2, <3>3, <3>4, <3>5 DEF RefCountExact, Owners
  <2> QED
    BY <1>1, <2>1, <2>2, <2>3, <2>4, <2>5 DEF Emit
<1>2. CASE Task
  <2>1. CASE TaskFinishes
    <3>1. UNCHANGED <<JsOwners, ThreadOwners, RecordOwners, ref_count>>
      BY <2>1, <1>q DEF TaskFinishes, JsOwners, ThreadOwners, RecordOwners, InitialOwner,
          InListener, ControllerOwner, One, Shape, JsShape
    <3> QED
      BY <1>r, <3>1 DEF RefCountExact, Owners
  <2>2. CASE TaskReturns
    <3>1. ControllerOwner' <=> ControllerOwner
      BY <2>2, PostersFinite, OperationAssumption DEF TaskReturns, ControllerWoken, TypeOK,
          ControllerOwner
    <3>2. JsOwners' = JsOwners
      BY <2>2 DEF TaskReturns, ControllerWoken, JsOwners, InitialOwner, InListener, One,
          Shape, JsShape
    <3>3. ThreadOwners' = ThreadOwners - 1
      BY <2>2, <3>1 DEF TaskReturns, ControllerWoken, ThreadOwners, One, Shape, SpawnShape,
          ReapShape
    <3>4. RecordOwners' = RecordOwners
      BY <2>2, <1>q DEF TaskReturns, ControllerWoken, RecordOwners
    <3>5. ref_count' = ref_count - 1
      BY <2>2 DEF TaskReturns, ControllerWoken
    <3> QED
      BY <1>r, <3>1, <3>2, <3>3, <3>4, <3>5 DEF RefCountExact, Owners
  <2> QED
    BY <1>2, <2>1, <2>2 DEF Task
<1>3. CASE Control
  <2>1. CASE ControllerChecks
    <3>1. ControllerOwner' <=> ControllerOwner
      BY <2>1, PostersFinite, OperationAssumption DEF ControllerChecks, TypeOK, ControllerOwner
    <3>2. JsOwners' = JsOwners
      BY <2>1 DEF ControllerChecks, JsOwners, InitialOwner, InListener, One, Shape, JsShape
    <3>3. ThreadOwners' = ThreadOwners
      BY <2>1, <3>1 DEF ControllerChecks, ThreadOwners, One, Shape, SpawnShape, ReapShape
    <3>4. RecordOwners' = RecordOwners
      BY <2>1, <1>q DEF ControllerChecks, RecordOwners
    <3>5. ref_count' = ref_count
      BY <2>1 DEF ControllerChecks
    <3> QED
      BY <1>r, <3>1, <3>2, <3>3, <3>4, <3>5 DEF RefCountExact, Owners
  <2>2. CASE ControllerDecides
    <3>1. ControllerOwner' <=> ControllerOwner
      BY <2>2, PostersFinite, OperationAssumption DEF ControllerDecides, TypeOK, ControllerOwner
    <3>2. JsOwners' = JsOwners
      BY <2>2 DEF ControllerDecides, JsOwners, InitialOwner, InListener, One, Shape, JsShape
    <3>3. ThreadOwners' = ThreadOwners
      BY <2>2, <3>1 DEF ControllerDecides, ThreadOwners, One, Shape, SpawnShape, ReapShape
    <3>4. RecordOwners' = RecordOwners
      BY <2>2, <1>q DEF ControllerDecides, RecordOwners
    <3>5. ref_count' = ref_count
      BY <2>2 DEF ControllerDecides
    <3> QED
      BY <1>r, <3>1, <3>2, <3>3, <3>4, <3>5 DEF RefCountExact, Owners
  <2>3. CASE ControllerJoins
    <3>1. ControllerOwner' <=> ControllerOwner
      BY <2>3, PostersFinite, OperationAssumption DEF ControllerJoins, taskJoined, TypeOK,
          ControllerOwner
    <3>2. JsOwners' = JsOwners
      BY <2>3 DEF ControllerJoins, taskJoined, JsOwners, InitialOwner, InListener, One,
          Shape, JsShape
    <3>3. ThreadOwners' = ThreadOwners
      BY <2>3, <3>1 DEF ControllerJoins, taskJoined, ThreadOwners, One, Shape, SpawnShape, ReapShape
    <3>4. RecordOwners' = RecordOwners
      BY <2>3, <1>q DEF ControllerJoins, taskJoined, RecordOwners
    <3>5. ref_count' = ref_count
      BY <2>3 DEF ControllerJoins, taskJoined
    <3> QED
      BY <1>r, <3>1, <3>2, <3>3, <3>4, <3>5 DEF RefCountExact, Owners
  <2>4. CASE CompletionRefused
    <3>1. ControllerOwner' <=> ControllerOwner
      BY <2>4, PostersFinite, OperationAssumption DEF CompletionRefused, TypeOK,
          ControllerOwner, Woken, Asleep
    <3>2. JsOwners' = JsOwners
      BY <2>4 DEF CompletionRefused, JsOwners, InitialOwner, InListener, One, Shape, JsShape
    <3>3. ThreadOwners' = ThreadOwners
      BY <2>4, <3>1 DEF CompletionRefused, ThreadOwners, One, Shape, SpawnShape, ReapShape
    <3>4. RecordOwners' = RecordOwners
      BY <2>4, <1>q DEF CompletionRefused, RecordOwners
    <3>5. ref_count' = ref_count
      BY <2>4 DEF CompletionRefused
    <3> QED
      BY <1>r, <3>1, <3>2, <3>3, <3>4, <3>5 DEF RefCountExact, Owners
  <2>5. CASE ControllerReturns
    <3>1. ControllerOwner /\ ~ControllerOwner'
      BY <2>5, PostersFinite, OperationAssumption DEF ControllerReturns, TypeOK, ControllerOwner
    <3>2. JsOwners' = JsOwners
      BY <2>5 DEF ControllerReturns, JsOwners, InitialOwner, InListener, One, Shape, JsShape
    <3>3. ThreadOwners' = ThreadOwners - 1
      BY <2>5, <3>1 DEF ControllerReturns, ThreadOwners, One, Shape, SpawnShape, ReapShape
    <3>4. RecordOwners' = RecordOwners
      BY <2>5, <1>q DEF ControllerReturns, RecordOwners
    <3>5. ref_count' = ref_count - 1
      BY <2>5 DEF ControllerReturns
    <3> QED
      BY <1>r, <3>1, <3>2, <3>3, <3>4, <3>5 DEF RefCountExact, Owners
  <2> QED
    BY <1>3, <2>1, <2>2, <2>3, <2>4, <2>5 DEF Control
<1>4. CASE Submit
  <2>1. CASE SubmitAborted
    <3>1. JsOwners' = JsOwners + 1
      BY <2>1 DEF SubmitAborted, JsOwners, InitialOwner, InListener, One, Shape, JsShape
    <3>2. ThreadOwners' = ThreadOwners
      BY <2>1 DEF SubmitAborted, ThreadOwners, ControllerOwner, One, Shape, SpawnShape, ReapShape
    <3>3. RecordOwners' = RecordOwners
      BY <2>1, <1>q DEF SubmitAborted, RecordOwners
    <3>4. ref_count' = ref_count + 1
      BY <2>1 DEF SubmitAborted
    <3> QED
      BY <1>r, <3>1, <3>2, <3>3, <3>4 DEF RefCountExact, Owners
  <2>2. CASE SubmitRefused
    <3>1. JsOwners' = JsOwners - 1
      BY <2>2 DEF SubmitRefused, abandon, destroyJs, JsOwners, InitialOwner, InListener,
          One, Shape, JsShape
    <3>2. ThreadOwners' = ThreadOwners
      BY <2>2 DEF SubmitRefused, abandon, destroyJs, ThreadOwners, ControllerOwner, One,
          Shape, SpawnShape, ReapShape
    <3>3. RecordOwners' = RecordOwners
      BY <2>2, <1>q DEF SubmitRefused, abandon, destroyJs, RecordOwners
    <3>4. ref_count' = ref_count - 1
      BY <2>2 DEF SubmitRefused, abandon, destroyJs
    <3> QED
      BY <1>r, <3>1, <3>2, <3>3, <3>4 DEF RefCountExact, Owners
  <2>3. CASE SubmitUnwound
    <3>1. UNCHANGED <<JsOwners, ThreadOwners, RecordOwners, ref_count>>
      BY <2>3, <1>q DEF SubmitUnwound, abandon, destroyJs, JsOwners, ThreadOwners,
          RecordOwners, InitialOwner, InListener, ControllerOwner, One, Shape, JsShape
    <3> QED
      BY <1>r, <3>1 DEF RefCountExact, Owners
  <2>4. CASE SubmitReady
    <3>1. UNCHANGED <<JsOwners, ThreadOwners, RecordOwners, ref_count>>
      BY <2>4, <1>q DEF SubmitReady, JsOwners, ThreadOwners, RecordOwners, InitialOwner,
          InListener, ControllerOwner, One, Shape, JsShape
    <3> QED
      BY <1>r, <3>1 DEF RefCountExact, Owners
  <2>5. CASE SpawnTask
    <3>1. JsOwners' = JsOwners
      BY <2>5 DEF SpawnTask, JsOwners, InitialOwner, InListener, One, Shape, JsShape
    <3>2. ThreadOwners' = ThreadOwners + 1
      BY <2>5 DEF SpawnTask, ThreadOwners, ControllerOwner, One, Shape, SpawnShape, ReapShape
    <3>3. RecordOwners' = RecordOwners
      BY <2>5, <1>q DEF SpawnTask, RecordOwners
    <3>4. ref_count' = ref_count + 1
      BY <2>5 DEF SpawnTask
    <3> QED
      BY <1>r, <3>1, <3>2, <3>3, <3>4 DEF RefCountExact, Owners
  <2>6. CASE SpawnTaskFails
    <3>1. JsOwners' = JsOwners + 1
      BY <2>6 DEF SpawnTaskFails, JsOwners, InitialOwner, InListener, One, Shape, JsShape
    <3>2. ThreadOwners' = ThreadOwners
      BY <2>6 DEF SpawnTaskFails, ThreadOwners, ControllerOwner, One, Shape, SpawnShape, ReapShape
    <3>3. RecordOwners' = RecordOwners
      BY <2>6, <1>q DEF SpawnTaskFails, RecordOwners
    <3>4. ref_count' = ref_count + 1
      BY <2>6 DEF SpawnTaskFails
    <3> QED
      BY <1>r, <3>1, <3>2, <3>3, <3>4 DEF RefCountExact, Owners
  <2>7. CASE SpawnController
    <3>1. ~ControllerOwner /\ ControllerOwner'
      BY <2>7, PostersFinite, OperationAssumption DEF SpawnController, TypeOK,
          ControllerOwner, Shape, SpawnShape
    <3>2. JsOwners' = JsOwners
      BY <2>7 DEF SpawnController, JsOwners, InitialOwner, InListener, One, Shape, JsShape
    <3>3. ThreadOwners' = ThreadOwners + 1
      BY <2>7, <3>1 DEF SpawnController, ThreadOwners, One, Shape, SpawnShape, ReapShape
    <3>4. RecordOwners' = RecordOwners
      BY <2>7, <1>q DEF SpawnController, RecordOwners
    <3>5. ref_count' = ref_count + 1
      BY <2>7 DEF SpawnController
    <3> QED
      BY <1>r, <3>1, <3>2, <3>3, <3>4, <3>5 DEF RefCountExact, Owners
  <2>8. CASE SpawnControllerFails
    <3>1. ControllerOwner' <=> ControllerOwner
      BY <2>8, PostersFinite, OperationAssumption DEF SpawnControllerFails, TypeOK,
          ControllerOwner, Woken, Asleep
    <3>2. JsOwners' = JsOwners
      BY <2>8 DEF SpawnControllerFails, JsOwners, InitialOwner, InListener, One, Shape, JsShape
    <3>3. ThreadOwners' = ThreadOwners
      BY <2>8, <3>1 DEF SpawnControllerFails, ThreadOwners, One, Shape, SpawnShape, ReapShape
    <3>4. RecordOwners' = RecordOwners
      BY <2>8, <1>q DEF SpawnControllerFails, RecordOwners
    <3>5. ref_count' = ref_count
      BY <2>8 DEF SpawnControllerFails
    <3> QED
      BY <1>r, <3>1, <3>2, <3>3, <3>4, <3>5 DEF RefCountExact, Owners
  <2>9. CASE SubmitJoins
    <3>1. JsOwners' = JsOwners + 1
      BY <2>9 DEF SubmitJoins, taskJoined, JsOwners, InitialOwner, InListener, One, Shape, JsShape
    <3>2. ThreadOwners' = ThreadOwners
      BY <2>9 DEF SubmitJoins, taskJoined, ThreadOwners, ControllerOwner, One, Shape,
          SpawnShape, ReapShape
    <3>3. RecordOwners' = RecordOwners
      BY <2>9, <1>q DEF SubmitJoins, taskJoined, RecordOwners
    <3>4. ref_count' = ref_count + 1
      BY <2>9 DEF SubmitJoins, taskJoined
    <3> QED
      BY <1>r, <3>1, <3>2, <3>3, <3>4 DEF RefCountExact, Owners
  <2> QED
    BY <1>4, <2>1, <2>2, <2>3, <2>4, <2>5, <2>6, <2>7, <2>8, <2>9 DEF Submit
<1>5. CASE Settlement
  <2>1. CASE Settle
    <3>1. ControllerOwner' <=> ControllerOwner
      BY <2>1, PostersFinite, OperationAssumption DEF Settle, destroyJs, settlementFor,
          TypeOK, ControllerOwner, Woken, Asleep
    <3>2. JsOwners' = JsOwners
      BY <2>1 DEF Settle, destroyJs, settlementFor, JsOwners, InitialOwner, InListener, One,
          Shape, JsShape
    <3>3. ThreadOwners' = ThreadOwners
      BY <2>1, <3>1 DEF Settle, destroyJs, settlementFor, ThreadOwners, One, Shape,
          SpawnShape, ReapShape
    <3>4. RecordOwners' = RecordOwners
      BY <2>1, <1>q DEF Settle, destroyJs, settlementFor, RecordOwners
    <3>5. ref_count' = ref_count
      BY <2>1 DEF Settle, destroyJs, settlementFor
    <3> QED
      BY <1>r, <3>1, <3>2, <3>3, <3>4, <3>5 DEF RefCountExact, Owners
  <2>2. CASE ReleaseHandle
    <3>1. UNCHANGED <<JsOwners, ThreadOwners, RecordOwners, ref_count>>
      BY <2>2, <1>q DEF ReleaseHandle, pushesReturned, JsOwners, ThreadOwners, RecordOwners,
          InitialOwner, InListener, ControllerOwner, One, Shape, JsShape
    <3> QED
      BY <1>r, <3>1 DEF RefCountExact, Owners
  <2>3. CASE FinishSettlement
    <3>1. JsOwners' = JsOwners - settlementDrops
      BY <2>3 DEF FinishSettlement, settlementDrops, JsOwners, InitialOwner, InListener,
          One, Shape, JsShape
    <3>2. ThreadOwners' = ThreadOwners
      BY <2>3 DEF FinishSettlement, settlementDrops, ThreadOwners, ControllerOwner, One,
          Shape, SpawnShape, ReapShape
    <3>3. RecordOwners' = RecordOwners
      BY <2>3, <1>q DEF FinishSettlement, settlementDrops, RecordOwners
    <3>4. ref_count' = ref_count - settlementDrops
      BY <2>3 DEF FinishSettlement, settlementDrops
    <3> QED
      BY <1>r, <3>1, <3>2, <3>3, <3>4 DEF RefCountExact, Owners, settlementDrops
  <2> QED
    BY <1>5, <2>1, <2>2, <2>3 DEF Settlement
<1>6. CASE Dispatch
  <2>1. CASE DispatchEvent
    <3>1. JsOwners' = JsOwners + 1
      BY <2>1 DEF DispatchEvent, Dispatchable, JsOwners, InitialOwner, InListener, One,
          Shape, JsShape
    <3>2. ThreadOwners' = ThreadOwners
      BY <2>1 DEF DispatchEvent, Dispatchable, ThreadOwners, ControllerOwner, One, Shape,
          SpawnShape, ReapShape
    <3>3. RecordOwners' = RecordOwners - 1
      BY <2>1, <1>q DEF DispatchEvent, Dispatchable, RecordOwners
    <3>4. ref_count' = ref_count
      BY <2>1 DEF DispatchEvent, Dispatchable
    <3> QED
      BY <1>r, <3>1, <3>2, <3>3, <3>4 DEF RefCountExact, Owners
  <2>2. CASE DispatchUnheard
    <3>1. ControllerOwner' <=> ControllerOwner
      BY <2>2, PostersFinite, OperationAssumption DEF DispatchUnheard, releaseEventSlot,
          Dispatchable, TypeOK, ControllerOwner, Signalled, Asleep
    <3>2. JsOwners' = JsOwners
      BY <2>2 DEF DispatchUnheard, releaseEventSlot, Dispatchable, JsOwners, InitialOwner,
          InListener, One, Shape, JsShape
    <3>3. ThreadOwners' = ThreadOwners
      BY <2>2, <3>1 DEF DispatchUnheard, releaseEventSlot, Dispatchable, ThreadOwners, One,
          Shape, SpawnShape, ReapShape
    <3>4. RecordOwners' = RecordOwners - 1
      BY <2>2, <1>q DEF DispatchUnheard, releaseEventSlot, Dispatchable, RecordOwners
    <3>5. ref_count' = ref_count - 1
      BY <2>2 DEF DispatchUnheard, releaseEventSlot, Dispatchable
    <3> QED
      BY <1>r, <3>1, <3>2, <3>3, <3>4, <3>5 DEF RefCountExact, Owners
  <2>3. CASE ListenerReturns
    <3>1. ControllerOwner' <=> ControllerOwner
      BY <2>3, PostersFinite, OperationAssumption DEF ListenerReturns, releaseEventSlot,
          TypeOK, ControllerOwner, Signalled, Asleep
    <3>2. JsOwners' = JsOwners - 1
      BY <2>3 DEF ListenerReturns, releaseEventSlot, JsOwners, InitialOwner, InListener,
          One, Shape, JsShape
    <3>3. ThreadOwners' = ThreadOwners
      BY <2>3, <3>1 DEF ListenerReturns, releaseEventSlot, ThreadOwners, One, Shape,
          SpawnShape, ReapShape
    <3>4. RecordOwners' = RecordOwners
      BY <2>3, <1>q DEF ListenerReturns, releaseEventSlot, RecordOwners
    <3>5. ref_count' = ref_count - 1
      BY <2>3 DEF ListenerReturns, releaseEventSlot
    <3> QED
      BY <1>r, <3>1, <3>2, <3>3, <3>4, <3>5 DEF RefCountExact, Owners
  <2>4. CASE DispatchCompletion
    <3>1. JsOwners' = JsOwners + 2
      BY <2>4 DEF DispatchCompletion, Dispatchable, JsOwners, InitialOwner, InListener, One,
          Shape, JsShape
    <3>2. ThreadOwners' = ThreadOwners
      BY <2>4 DEF DispatchCompletion, Dispatchable, ThreadOwners, ControllerOwner, One,
          Shape, SpawnShape, ReapShape
    <3>3. RecordOwners' = RecordOwners - 1
      BY <2>4, <1>q DEF DispatchCompletion, Dispatchable, RecordOwners
    <3>4. ref_count' = ref_count + 1
      BY <2>4 DEF DispatchCompletion, Dispatchable
    <3> QED
      BY <1>r, <3>1, <3>2, <3>3, <3>4 DEF RefCountExact, Owners
  <2> QED
    BY <1>6, <2>1, <2>2, <2>3, <2>4 DEF Dispatch
<1>7. CASE Abort
  <2>1. CASE AbortBegins
    <3>1. JsOwners' = JsOwners + 1
      BY <2>1 DEF AbortBegins, JsOwners, InitialOwner, InListener, One, Shape, JsShape
    <3>2. ThreadOwners' = ThreadOwners
      BY <2>1 DEF AbortBegins, ThreadOwners, ControllerOwner, One, Shape, SpawnShape, ReapShape
    <3>3. RecordOwners' = RecordOwners
      BY <2>1, <1>q DEF AbortBegins, RecordOwners
    <3>4. ref_count' = ref_count + 1
      BY <2>1 DEF AbortBegins
    <3> QED
      BY <1>r, <3>1, <3>2, <3>3, <3>4 DEF RefCountExact, Owners
  <2>2. CASE AbortTooLate
    <3>1. JsOwners' = JsOwners - 1
      BY <2>2 DEF AbortTooLate, JsOwners, InitialOwner, InListener, One, Shape, JsShape
    <3>2. ThreadOwners' = ThreadOwners
      BY <2>2 DEF AbortTooLate, ThreadOwners, ControllerOwner, One, Shape, SpawnShape, ReapShape
    <3>3. RecordOwners' = RecordOwners
      BY <2>2, <1>q DEF AbortTooLate, RecordOwners
    <3>4. ref_count' = ref_count - 1
      BY <2>2 DEF AbortTooLate
    <3> QED
      BY <1>r, <3>1, <3>2, <3>3, <3>4 DEF RefCountExact, Owners
  <2>3. CASE AbortRequests
    <3>1. UNCHANGED <<JsOwners, ThreadOwners, RecordOwners, ref_count>>
      BY <2>3, <1>q DEF AbortRequests, JsOwners, ThreadOwners, RecordOwners, InitialOwner,
          InListener, ControllerOwner, One, Shape, JsShape
    <3> QED
      BY <1>r, <3>1 DEF RefCountExact, Owners
  <2>4. CASE AbortWakes
    <3>1. ControllerOwner' <=> ControllerOwner
      BY <2>4, PostersFinite, OperationAssumption DEF AbortWakes, ControllerWoken, TypeOK,
          ControllerOwner, Woken, Asleep
    <3>2. JsOwners' = JsOwners - 1
      BY <2>4 DEF AbortWakes, ControllerWoken, JsOwners, InitialOwner, InListener, One,
          Shape, JsShape
    <3>3. ThreadOwners' = ThreadOwners
      BY <2>4, <3>1 DEF AbortWakes, ControllerWoken, ThreadOwners, One, Shape, SpawnShape, ReapShape
    <3>4. RecordOwners' = RecordOwners
      BY <2>4, <1>q DEF AbortWakes, ControllerWoken, RecordOwners
    <3>5. ref_count' = ref_count - 1
      BY <2>4 DEF AbortWakes, ControllerWoken
    <3> QED
      BY <1>r, <3>1, <3>2, <3>3, <3>4, <3>5 DEF RefCountExact, Owners
  <2> QED
    BY <1>7, <2>1, <2>2, <2>3, <2>4 DEF Abort
<1>8. CASE Engine
  <2>1. CASE HandleCloses
    <3>1. UNCHANGED <<JsOwners, ThreadOwners, RecordOwners, ref_count>>
      BY <2>1, <1>q DEF HandleCloses, JsOwners, ThreadOwners, RecordOwners, InitialOwner,
          InListener, ControllerOwner, One, Shape, JsShape
    <3> QED
      BY <1>r, <3>1 DEF RefCountExact, Owners
  <2>2. CASE FinalizeBegins
    <3>1. UNCHANGED <<JsOwners, ThreadOwners, RecordOwners, ref_count>>
      BY <2>2, <1>q DEF FinalizeBegins, JsOwners, ThreadOwners, RecordOwners, InitialOwner,
          InListener, ControllerOwner, One, Shape, JsShape
    <3> QED
      BY <1>r, <3>1 DEF RefCountExact, Owners
  <2>3. CASE FinalizeEnds
    <3>1. ControllerOwner' <=> ControllerOwner
      BY <2>3, PostersFinite, OperationAssumption DEF FinalizeEnds, pushesReturned,
          finalizerRefs, handOver, TypeOK, ControllerOwner, Woken, Asleep
    <3>2. JsOwners' = JsOwners - 1
      BY <2>3 DEF FinalizeEnds, pushesReturned, finalizerRefs, handOver, JsOwners,
          InitialOwner, InListener, One, Shape, JsShape
    <3>3. ThreadOwners' = ThreadOwners + One(handOver)
      BY <2>3, <3>1 DEF FinalizeEnds, pushesReturned, finalizerRefs, handOver, ThreadOwners,
          One, Shape, SpawnShape, ReapShape
    <3>4. RecordOwners' = RecordOwners
      BY <2>3, <1>q DEF FinalizeEnds, pushesReturned, finalizerRefs, handOver, RecordOwners
    <3>5. ref_count' = ref_count - 1 + One(handOver)
      BY <2>3, <1>r DEF FinalizeEnds, pushesReturned, finalizerRefs, handOver, One
    <3> QED
      BY <1>r, <3>1, <3>2, <3>3, <3>4, <3>5 DEF RefCountExact, Owners, One
  <2>4. CASE DrainItem
    <3>1. ControllerOwner' <=> ControllerOwner
      BY <2>4, PostersFinite, OperationAssumption DEF DrainItem, releaseEventSlot, TypeOK,
          ControllerOwner, Signalled, Asleep
    <3>2. JsOwners' = JsOwners
      BY <2>4 DEF DrainItem, releaseEventSlot, JsOwners, InitialOwner, InListener, One,
          Shape, JsShape
    <3>3. ThreadOwners' = ThreadOwners
      BY <2>4, <3>1 DEF DrainItem, releaseEventSlot, ThreadOwners, One, Shape, SpawnShape, ReapShape
    <3>4. RecordOwners' = RecordOwners - 1
      BY <2>4, <1>q DEF DrainItem, releaseEventSlot, RecordOwners
    <3>5. ref_count' = ref_count - 1
      BY <2>4 DEF DrainItem, releaseEventSlot
    <3> QED
      BY <1>r, <3>1, <3>2, <3>3, <3>4, <3>5 DEF RefCountExact, Owners
  <2>5. CASE HandleDeleted
    <3>1. UNCHANGED <<JsOwners, ThreadOwners, RecordOwners, ref_count>>
      BY <2>5, <1>q DEF HandleDeleted, JsOwners, ThreadOwners, RecordOwners, InitialOwner,
          InListener, ControllerOwner, One, Shape, JsShape
    <3> QED
      BY <1>r, <3>1 DEF RefCountExact, Owners
  <2> QED
    BY <1>8, <2>1, <2>2, <2>3, <2>4, <2>5 DEF Engine
<1>9. CASE Reap
  <2>1. JsOwners' = JsOwners
    BY <1>9 DEF Reap, JsOwners, InitialOwner, InListener, One, Shape, JsShape
  <2>2. ThreadOwners' = ThreadOwners - 1
    BY <1>9 DEF Reap, ThreadOwners, ControllerOwner, One, Shape, SpawnShape, ReapShape
  <2>3. RecordOwners' = RecordOwners
    BY <1>9, <1>q DEF Reap, RecordOwners
  <2>4. ref_count' = ref_count - 1
    BY <1>9 DEF Reap
  <2> QED
    BY <1>r, <2>1, <2>2, <2>3, <2>4 DEF RefCountExact, Owners
<1>10. CASE ReleaseNative
  <2>1. ControllerOwner' <=> ControllerOwner
    BY <1>10, PostersFinite, OperationAssumption DEF ReleaseNative, TypeOK, ControllerOwner,
        Woken, Asleep
  <2>2. JsOwners' = JsOwners
    BY <1>10 DEF ReleaseNative, JsOwners, InitialOwner, InListener, One, Shape, JsShape
  <2>3. ThreadOwners' = ThreadOwners
    BY <1>10, <2>1 DEF ReleaseNative, ThreadOwners, One, Shape, SpawnShape, ReapShape
  <2>4. RecordOwners' = RecordOwners
    BY <1>10, <1>q DEF ReleaseNative, RecordOwners
  <2>5. ref_count' = ref_count
    BY <1>10 DEF ReleaseNative
  <2> QED
    BY <1>r, <2>1, <2>2, <2>3, <2>4, <2>5 DEF RefCountExact, Owners
<1>11. CASE TearDown
  <2>1. UNCHANGED <<JsOwners, ThreadOwners, RecordOwners, ref_count>>
    BY <1>11, <1>q DEF TearDown, JsOwners, ThreadOwners, RecordOwners, InitialOwner,
        InListener, ControllerOwner, One, Shape, JsShape
  <2> QED
    BY <1>r, <2>1 DEF RefCountExact, Owners
<1> QED
  BY <1>1, <1>2, <1>3, <1>4, <1>5, <1>6, <1>7, <1>8, <1>9, <1>10, <1>11 DEF Quiet

\* What a step of a push does to the records that are held, to the threads
\* inside a push and to the two counters.
LEMMA PushSets ==
  ASSUME IInv, NEW p \in Posters, Post(p)
  PROVE  \/ /\ Admit(p) /\ p \notin Holders /\ Holders' = Holders \cup {p}
            /\ p \notin Pushers /\ Pushers' = Pushers \cup {p}
         \/ /\ PushQueued(p) /\ p \in Holders /\ Holders' = Holders \ {p}
            /\ Pushers' = Pushers
         \/ /\ PushOnClosing(p) \/ PushFails(p)
            /\ Holders' = Holders /\ Pushers' = Pushers
         \/ /\ Leave(p) /\ Holders' = Holders
            /\ p \in Pushers /\ Pushers' = Pushers \ {p}
         \/ /\ Unwind(p) /\ p \in Holders /\ Holders' = Holders \ {p}
            /\ Pushers' = Pushers
<1> USE PostersFinite, OperationAssumption DEF IInv, TypeOK, Holders, HoldsRecord, Pushers, InPush
<1>1. CASE Admit(p)
  BY <1>1 DEF Admit
<1>2. CASE PushQueued(p)
  BY <1>2 DEF PushQueued
<1>3. CASE PushOnClosing(p)
  BY <1>3 DEF PushOnClosing
<1>4. CASE PushFails(p)
  BY <1>4 DEF PushFails
<1>5. CASE Leave(p)
  BY <1>5 DEF Leave
<1>6. CASE Unwind(p)
  BY <1>6, WokenOthers DEF Unwind, Woken, Asleep
<1> QED
  BY <1>1, <1>2, <1>3, <1>4, <1>5, <1>6 DEF Post

\* The owners that a push leaves alone.
LEMMA PushOwners ==
  ASSUME IInv, NEW p \in Posters, Post(p)
  PROVE  /\ UNCHANGED <<js, jsReturn, task, handle, reap>>
         /\ ControllerOwner' <=> ControllerOwner
<1> USE PostersFinite, OperationAssumption DEF IInv, TypeOK, ControllerOwner, jsVars,
    taskVars, engine, reaping
<1>1. CASE Admit(p)
  BY <1>1 DEF Admit
<1>2. CASE PushQueued(p)
  BY <1>2 DEF PushQueued
<1>3. CASE PushOnClosing(p)
  BY <1>3 DEF PushOnClosing
<1>4. CASE PushFails(p)
  BY <1>4 DEF PushFails
<1>5. CASE Leave(p)
  BY <1>5 DEF Leave
<1>6. CASE Unwind(p)
  BY <1>6 DEF Unwind, Woken, Asleep
<1> QED
  BY <1>1, <1>2, <1>3, <1>4, <1>5, <1>6 DEF Post

\* The reference count over the steps of a push.
LEMMA RefCountPush ==
  ASSUME IInv, NEW p \in Posters, Post(p)
  PROVE  RefCountExact'
<1>1. JsOwners' = JsOwners /\ ThreadOwners' = ThreadOwners
  BY PushOwners DEF JsOwners, ThreadOwners, One, InitialOwner, InListener
<1>2. /\ ref_count = JsOwners + ThreadOwners + Cardinality(Holders) + Len(queue)
      /\ JsOwners \in Nat /\ ThreadOwners \in Nat /\ ref_count \in Nat
      /\ Len(queue) \in Nat /\ IsFiniteSet(Holders) /\ Cardinality(Holders) \in Nat
  BY OwnersNatural, SetsFinite, QueueLength DEF IInv, TypeOK, FieldsOK, RefCountExact,
      Owners, RecordOwners
<1>3. /\ \A x : x \notin Holders => Cardinality(Holders \cup {x}) = Cardinality(Holders) + 1
      /\ \A x \in Holders : Cardinality(Holders \ {x}) = Cardinality(Holders) - 1
                            /\ Cardinality(Holders \ {x}) \in Nat
  BY <1>2, FS_AddElement, FS_RemoveElement, FS_CardinalityType
<1>4. CASE Admit(p) /\ p \notin Holders /\ Holders' = Holders \cup {p}
  BY <1>1, <1>2, <1>3, <1>4 DEF Admit, RefCountExact, Owners, RecordOwners, engine
<1>5. CASE PushQueued(p) /\ p \in Holders /\ Holders' = Holders \ {p}
  <2>1. queue \in Seq({"event", "completion"})
    BY DEF IInv, TypeOK, FieldsOK
  <2>2. Len(queue') = Len(queue) + 1 /\ ref_count' = ref_count
    BY <1>5, <2>1, AppendProperties DEF PushQueued, ownership
  <2> QED
    BY <1>1, <1>2, <1>3, <1>5, <2>2 DEF RefCountExact, Owners, RecordOwners
<1>6. CASE (PushOnClosing(p) \/ PushFails(p) \/ Leave(p)) /\ Holders' = Holders
  <2>1. queue' = queue /\ ref_count' = ref_count
    BY <1>6 DEF PushOnClosing, PushFails, Leave, ownership, engine
  <2> QED
    BY <1>1, <1>2, <1>6, <2>1 DEF RefCountExact, Owners, RecordOwners
<1>7. CASE Unwind(p) /\ p \in Holders /\ Holders' = Holders \ {p}
  <2>1. queue' = queue /\ ref_count' = ref_count - 1
    BY <1>7 DEF Unwind, engine
  <2> QED
    BY <1>1, <1>2, <1>3, <1>7, <2>1 DEF RefCountExact, Owners, RecordOwners
<1> QED
  BY <1>4, <1>5, <1>6, <1>7, PushSets

-----------------------------------------------------------------------------
\* What the steps that are not part of a push do to the gate: they keep it closed, and
\* only the finalizer, once no push is admitted, makes the handle finalized.
GateStays ==
  /\ active' = active
  /\ closing => closing'
  /\ handle' \in {"finalized", "deleted"} =>
       handle \in {"finalized", "deleted"} \/ (active = 0 /\ closing)

\* Every step that is not part of a push leaves the gate so.
LEMMA GateQuiet ==
  ASSUME IInv, Quiet
  PROVE  GateStays
<1> USE DEF GateStays, IInv, Shape, JsShape, jsVars, taskVars, ownership, word, engine,
    events, cancellation, reaping, listener, settlement, history
<1>1. ASSUME NEW p \in Producers, Emit(p) PROVE GateStays
  <2>1. CASE EmitBegins(p)
    BY <2>1 DEF EmitBegins
  <2>2. CASE Reserve(p)
    BY <2>2 DEF Reserve
  <2>3. CASE EmitFails(p)
    BY <2>3 DEF EmitFails, releaseEventSlot
  <2>4. CASE EventRefused(p)
    BY <2>4 DEF EventRefused, releaseEventSlot
  <2>5. CASE ProducerStops(p)
    BY <2>5 DEF ProducerStops
  <2> QED
    BY <1>1, <2>1, <2>2, <2>3, <2>4, <2>5 DEF Emit
<1>2. CASE Task
  <2>1. CASE TaskFinishes
    BY <2>1 DEF TaskFinishes
  <2>2. CASE TaskReturns
    BY <2>2 DEF TaskReturns, ControllerWoken
  <2> QED
    BY <1>2, <2>1, <2>2 DEF Task
<1>3. CASE Control
  <2>1. CASE ControllerChecks
    BY <2>1 DEF ControllerChecks
  <2>2. CASE ControllerDecides
    BY <2>2 DEF ControllerDecides
  <2>3. CASE ControllerJoins
    BY <2>3 DEF ControllerJoins, taskJoined
  <2>4. CASE CompletionRefused
    BY <2>4 DEF CompletionRefused
  <2>5. CASE ControllerReturns
    BY <2>5 DEF ControllerReturns
  <2> QED
    BY <1>3, <2>1, <2>2, <2>3, <2>4, <2>5 DEF Control
<1>4. CASE Submit
  <2>1. CASE SubmitAborted
    BY <2>1 DEF SubmitAborted
  <2>2. CASE SubmitRefused
    BY <2>2 DEF SubmitRefused, abandon, destroyJs
  <2>3. CASE SubmitUnwound
    BY <2>3 DEF SubmitUnwound, abandon, destroyJs
  <2>4. CASE SubmitReady
    BY <2>4 DEF SubmitReady
  <2>5. CASE SpawnTask
    BY <2>5 DEF SpawnTask
  <2>6. CASE SpawnTaskFails
    BY <2>6 DEF SpawnTaskFails
  <2>7. CASE SpawnController
    BY <2>7 DEF SpawnController
  <2>8. CASE SpawnControllerFails
    BY <2>8 DEF SpawnControllerFails
  <2>9. CASE SubmitJoins
    BY <2>9 DEF SubmitJoins, taskJoined
  <2> QED
    BY <1>4, <2>1, <2>2, <2>3, <2>4, <2>5, <2>6, <2>7, <2>8, <2>9 DEF Submit
<1>5. CASE Settlement
  <2>1. CASE Settle
    BY <2>1 DEF Settle, destroyJs, settlementFor
  <2>2. CASE ReleaseHandle
    BY <2>2 DEF ReleaseHandle, pushesReturned
  <2>3. CASE FinishSettlement
    BY <2>3 DEF FinishSettlement, settlementDrops
  <2> QED
    BY <1>5, <2>1, <2>2, <2>3 DEF Settlement
<1>6. CASE Dispatch
  <2>1. CASE DispatchEvent
    BY <2>1 DEF DispatchEvent, Dispatchable
  <2>2. CASE DispatchUnheard
    BY <2>2 DEF DispatchUnheard, releaseEventSlot, Dispatchable
  <2>3. CASE ListenerReturns
    BY <2>3 DEF ListenerReturns, releaseEventSlot
  <2>4. CASE DispatchCompletion
    BY <2>4 DEF DispatchCompletion, Dispatchable
  <2> QED
    BY <1>6, <2>1, <2>2, <2>3, <2>4 DEF Dispatch
<1>7. CASE Abort
  <2>1. CASE AbortBegins
    BY <2>1 DEF AbortBegins
  <2>2. CASE AbortTooLate
    BY <2>2 DEF AbortTooLate
  <2>3. CASE AbortRequests
    BY <2>3 DEF AbortRequests
  <2>4. CASE AbortWakes
    BY <2>4 DEF AbortWakes, ControllerWoken
  <2> QED
    BY <1>7, <2>1, <2>2, <2>3, <2>4 DEF Abort
<1>8. CASE Engine
  <2>1. CASE HandleCloses
    BY <2>1 DEF HandleCloses
  <2>2. CASE FinalizeBegins
    BY <2>2 DEF FinalizeBegins
  <2>3. CASE FinalizeEnds
    BY <2>3 DEF FinalizeEnds, pushesReturned, finalizerRefs, handOver
  <2>4. CASE DrainItem
    BY <2>4 DEF DrainItem, releaseEventSlot
  <2>5. CASE HandleDeleted
    BY <2>5 DEF HandleDeleted
  <2> QED
    BY <1>8, <2>1, <2>2, <2>3, <2>4, <2>5 DEF Engine
<1>9. CASE Reap
  BY <1>9 DEF Reap
<1>10. CASE ReleaseNative
  BY <1>10 DEF ReleaseNative
<1>11. CASE TearDown
  BY <1>11 DEF TearDown
<1> QED
  BY <1>1, <1>2, <1>3, <1>4, <1>5, <1>6, <1>7, <1>8, <1>9, <1>10, <1>11 DEF Quiet

\* The dispatcher word counts the pushes, and a finalized handle has none, after
\* every step.
LEMMA GateStep ==
  ASSUME IInv, Next
  PROVE  GateCounts' /\ NoPushAfterFinalizer'
<1>1. CASE Quiet
  <2>1. Cardinality(Pushers') = Cardinality(Pushers) /\ Pushers' = Pushers
    BY <1>1, QuietSets
  <2>2. active = 0 => Pushers = {}
    BY SetsFinite, FS_EmptySet DEF IInv, GateCounts
  <2> QED
    BY <1>1, <2>1, <2>2, GateQuiet DEF GateStays, IInv, GateCounts, NoPushAfterFinalizer
<1>2. ASSUME NEW p \in Posters, Post(p) PROVE GateCounts' /\ NoPushAfterFinalizer'
  <2> USE SetsFinite DEF IInv, TypeOK, GateCounts, NoPushAfterFinalizer
  <2>1. CASE Admit(p) /\ p \notin Pushers /\ Pushers' = Pushers \cup {p}
    <3>1. Cardinality(Pushers') = Cardinality(Pushers) + 1
      BY <2>1, FS_AddElement
    <3> QED
      BY <2>1, <3>1 DEF Admit, engine
  <2>2. CASE (PushQueued(p) \/ PushOnClosing(p) \/ PushFails(p)) /\ Pushers' = Pushers
    BY <2>2 DEF PushQueued, PushOnClosing, PushFails, word, engine
  <2>3. CASE Leave(p) /\ p \in Pushers /\ Pushers' = Pushers \ {p}
    <3>1. Cardinality(Pushers') = Cardinality(Pushers) - 1
      BY <2>3, FS_RemoveElement
    <3> QED
      BY <2>3, <3>1 DEF Leave, leaveDispatcherPush, engine
  <2>4. CASE Unwind(p) /\ Pushers' = Pushers
    BY <2>4 DEF Unwind, engine
  <2> QED
    BY <1>2, <2>1, <2>2, <2>3, <2>4, PushSets
<1> QED
  BY <1>1, <1>2 DEF Next, Quiet

-----------------------------------------------------------------------------
\* create leaves an operation that satisfies the inductive invariant.
LEMMA InitInvariant == Init => IInv
<1> SUFFICES ASSUME Init PROVE IInv
  OBVIOUS
<1>1. Holders = {} /\ Pushers = {}
  BY PostersFinite DEF Init, Holders, HoldsRecord, Pushers, InPush
<1>2. Cardinality(Holders) = 0 /\ Cardinality(Pushers) = 0 /\ Len(queue) = 0
  BY <1>1, FS_EmptySet DEF Init
<1>3. TypeOK
  BY PostersFinite, EmptySeq DEF Init, TypeOK, FieldsOK, JsStates, PosterStates
<1>4. Shape
  BY PostersFinite, OperationAssumption
     DEF Init, Shape, JsShape, SpawnShape, ProducerShape, HandleShape, ReapShape
<1>5. RefCountExact
  BY <1>2, PostersFinite DEF Init, RefCountExact, Owners, JsOwners, ThreadOwners,
      RecordOwners, One, InitialOwner, ControllerOwner, InListener
<1>6. GateCounts /\ NoPushAfterFinalizer
  BY <1>2 DEF Init, GateCounts, NoPushAfterFinalizer
<1> QED
  BY <1>3, <1>4, <1>5, <1>6 DEF IInv

\* The counters stay natural numbers, because they count.
LEMMA CountersNatural ==
  ASSUME IInv, Next
  PROVE  (RefCountExact /\ GateCounts /\ FieldsOK /\ pc \in [Posters -> PosterStates])'
           => (ref_count \in Nat /\ active \in Nat)'
<1>1. IsFiniteSet(Holders') /\ IsFiniteSet(Pushers')
  BY PostersFinite, FS_Subset DEF Holders, Pushers
<1>2. Cardinality(Holders') \in Nat /\ Cardinality(Pushers') \in Nat
  BY <1>1, FS_CardinalityType
<1>3. queue' \in Seq({"event", "completion"}) => Len(queue') \in Nat
  OBVIOUS
<1>4. (queue' \in Seq({"event", "completion"}) /\ RefCountExact') => ref_count' \in Nat
  BY <1>2, <1>3 DEF RefCountExact, Owners, JsOwners, ThreadOwners, RecordOwners, One
<1> QED
  BY <1>2, <1>4 DEF GateCounts, FieldsOK

\* No step of any actor breaks the inductive invariant.
LEMMA StepInvariant == IInv /\ [Next]_vars => IInv'
<1> SUFFICES ASSUME IInv, [Next]_vars PROVE IInv'
  OBVIOUS
<1>1. CASE Next
  <2>1. FieldsOK' /\ (pc \in [Posters -> PosterStates])'
    BY <1>1, FieldsStep, PcStep
  <2>2. Shape'
    BY <1>1, JsShapeStep, SpawnShapeStep, ProducerShapeStep DEF Shape
  <2>3. RefCountExact'
    BY <1>1, RefCountQuiet, RefCountPush DEF Next, Quiet
  <2>4. (GateCounts /\ NoPushAfterFinalizer)'
    BY <1>1, GateStep
  <2> QED
    BY <1>1, <2>1, <2>2, <2>3, <2>4, CountersNatural DEF IInv, TypeOK
<1>2. CASE UNCHANGED vars
  BY <1>2 DEF vars, jsVars, taskVars, ownership, word, engine, events, cancellation, reaping, listener,
              settlement, history, IInv, TypeOK, FieldsOK, Shape, JsShape, SpawnShape, ProducerShape,
              HandleShape, ReapShape, RefCountExact, Owners, JsOwners, ThreadOwners, RecordOwners, InitialOwner, ControllerOwner, InListener,
              Holders, HoldsRecord, GateCounts, Pushers, InPush, NoPushAfterFinalizer
<1> QED
  BY <1>1, <1>2

\* The inductive invariant holds in every reachable state.
LEMMA Invariant == Spec => []IInv
BY InitInvariant, StepInvariant, PTL DEF Spec

\* Every variable keeps its type.
THEOREM TypeCorrect == Spec => []TypeOK
BY Invariant, PTL DEF IInv

\* The reference count is exact: whatever the interleaving of submit, posts,
\* deliveries, settlement, abort, finalizer and reaper, each owner holds exactly
\* one reference of the operation.
THEOREM ReferencesExact == Spec => []RefCountExact
BY Invariant, PTL DEF IInv

\* The dispatcher word counts the threads inside a push, and when the finalizer
\* has returned none is, or can still get, there.
THEOREM HandleSafe == Spec => [](GateCounts /\ NoPushAfterFinalizer)
BY Invariant, PTL DEF IInv

\* The operation is freed only when nobody uses it any more.
THEOREM OperationSafe == Spec => []NoUseAfterFree
<1>1. IInv => NoUseAfterFree
  <2> SUFFICES ASSUME IInv, ref_count = 0 PROVE NoUseAfterFree
    BY DEF NoUseAfterFree
  <2>1. JsOwners = 0 /\ ThreadOwners = 0 /\ RecordOwners = 0
    BY OwnersNatural DEF IInv, RefCountExact, Owners
  <2>2. /\ ~InitialOwner /\ ~InListener /\ jsReturn # "record"
        /\ js \notin {"settle", "release", "finish", "abort", "abort_wake"}
    BY <2>1 DEF JsOwners, One
  <2>3. task \notin {"running", "finished"} /\ ~ControllerOwner /\ reap # "queued"
    BY <2>1 DEF ThreadOwners, One
  <2>4. Cardinality(Holders) = 0 /\ Len(queue) = 0
    BY <2>1, SetsFinite, QueueLength DEF IInv, TypeOK, FieldsOK, RecordOwners
  <2>5. Holders = {} /\ queue = <<>>
    BY <2>4, SetsFinite, FS_EmptySet, EmptySeq DEF IInv, TypeOK, FieldsOK
  <2>6. \A p \in Producers : pc[p] \in {"user", "stopped"}
    BY <2>3 DEF IInv, Shape, ProducerShape
  <2>7. js = "idle"
    BY <2>2 DEF IInv, TypeOK, FieldsOK, JsStates, Shape, JsShape, InitialOwner, InListener
  <2> QED
    BY <2>2, <2>3, <2>5, <2>6, <2>7, PostersFinite
       DEF NoUseAfterFree, IInv, TypeOK, FieldsOK, Holders, HoldsRecord, InitialOwner,
           ControllerOwner
<1> QED
  BY <1>1, Invariant, PTL

-----------------------------------------------------------------------------
(* From the first step to the last.                                          *)

\* The JavaScript thread gave the operation up: destroyJs ran on it.
Torn == promise # "pending" \/ js \in {"release", "finish"}

Finalized == handle \in {"finalized", "deleted"}

HasCompletion == \E i \in 1 .. Len(queue) : queue[i] = "completion"

CompletionLast == \A i \in 1 .. Len(queue) : queue[i] = "completion" => i = Len(queue)

QueuedEvents(q) == {i \in 1 .. Len(q) : q[i] = "event"}
EventCount(q) == Cardinality(QueuedEvents(q))

\* JavaScript works for the operation only while its environment lives and its
\* promise is pending.
JsLive == js \notin {"idle", "finalize"} => env = "alive" /\ promise = "pending"

\* How far the task is when the JavaScript thread settles without a record, and
\* what it has of the handle.
StartShape ==
  /\ jsReturn = "unstarted" => task = "off" /\ cancel_requested /\ pc[Controller] = "off"
  /\ jsReturn = "started" =>
       /\ result = "error" /\ pc[Controller] = "off"
       /\ task = "off" \/ (task = "returned" /\ cancel_requested)
  /\ js = "join" => cancel_requested
  /\ task = "off" => accepted = 0
  /\ handle = "none" => Torn \/ js = "submit" \/ jsReturn = "unstarted"
  /\ ~Torn /\ env = "alive" => handle \in {"none", "open"} /\ (handle = "open" => threads = 1)

\* The controller posts after the task returned, and its record is the last.
ControllerShape ==
  /\ pc[Controller] \in {"admit", "push", "sent", "refused", "failed", "unwind_refused",
                         "unwind_failed", "end", "returned"} => task = "returned"
  /\ pc[Controller] = "cancel" \/ cancel_dispatched => cancel_requested
  /\ task \in {"finished", "returned"} => \A p \in Producers : pc[p] = "stopped"
  /\ HasCompletion \/ jsReturn = "record" => pc[Controller] \in {"sent", "end", "returned"}
  /\ CompletionLast
  /\ jsReturn = "record" => queue = <<>>

\* What the JavaScript thread gave up stays given up; what it did not is there.
TornShape ==
  /\ Torn => /\ ~listener_ref /\ ~registration
             /\ task # "running"
             /\ pc[Controller] \in {"off", "returned"} /\ ~HasCompletion
  /\ ~Torn => (listener_ref <=> has_event_listener)

\* Who may have released the JavaScript side or claimed the controller's future.
ReleasedShape ==
  /\ js_released => \/ Torn \/ Finalized
                    \/ pc[Controller] \in {"end", "returned"} /\ ~HasCompletion /\ jsReturn # "record"
  /\ claimed => Torn \/ Finalized
  /\ pc[Controller] # "off" /\ ~Torn /\ ~Finalized => controller_future = "live"
  /\ controller_future = "live" =>
       handle # "none" /\ (claimed => reap = "queued") /\ (Finalized => claimed)

\* Accepted events are delivered, with the listener, or queued - or dropped,
\* once the JavaScript thread gave the operation up or the handle closed.
DeliveryShape ==
  /\ delivered + EventCount(queue) + One(InListener) <= accepted
  /\ ~Torn /\ handle \in {"none", "open"} => delivered + EventCount(queue) + One(InListener) = accepted
  /\ ~has_event_listener => accepted = 0 /\ \A p \in Producers : pc[p] \in {"user", "stopped"}

\* The settlement that was decided is still the one to give.
OutcomeShape ==
  /\ js \in {"release", "finish"} =>
       /\ outcome = settlementFor
       /\ cancel_requested \/ delivered = accepted
       /\ pc[Controller] # "off" => delivered = accepted
  /\ promise \notin {"pending", "discarded"} /\ pc[Controller] # "off" => delivered = accepted

\* The inductive invariant of the contract, on top of IInv.
CInv == /\ JsLive /\ StartShape /\ ControllerShape /\ TornShape /\ ReleasedShape
        /\ DeliveryShape /\ OutcomeShape

-----------------------------------------------------------------------------
\* What appending a record and taking the head do to the completion in the queue.
LEMMA CompletionSteps ==
  ASSUME queue \in Seq({"event", "completion"})
  PROVE  /\ queue' = queue => (HasCompletion' <=> HasCompletion) /\ (CompletionLast' <=> CompletionLast)
         /\ queue' = Append(queue, "event") => (HasCompletion' <=> HasCompletion) /\ (~HasCompletion => CompletionLast')
         /\ queue' = Append(queue, "completion") => (~HasCompletion => CompletionLast')
         /\ queue # <<>> /\ queue' = Tail(queue) =>
              /\ HasCompletion' => HasCompletion
              /\ CompletionLast => CompletionLast'
         /\ queue # <<>> /\ Head(queue) = "completion" =>
              /\ HasCompletion
              /\ CompletionLast => Tail(queue) = <<>>
         /\ queue = <<>> => ~HasCompletion
<1> USE DEF HasCompletion, CompletionLast
<1>1. CASE queue' = queue
  BY <1>1
<1>2. queue' = Append(queue, "event") => (HasCompletion' <=> HasCompletion) /\ (~HasCompletion => CompletionLast')
  <2> SUFFICES ASSUME queue' = Append(queue, "event")
               PROVE  (HasCompletion' <=> HasCompletion) /\ (~HasCompletion => CompletionLast')
    OBVIOUS
  <2>1. /\ Len(queue') = Len(queue) + 1 /\ Len(queue) \in Nat
        /\ \A i \in 1 .. Len(queue) : queue'[i] = queue[i]
        /\ queue'[Len(queue) + 1] = "event"
    BY AppendProperties
  <2>2. HasCompletion' => HasCompletion
    BY <2>1
  <2>3. HasCompletion => HasCompletion'
    BY <2>1
  <2> QED
    BY <2>1, <2>2, <2>3
<1>3. queue' = Append(queue, "completion") => (~HasCompletion => CompletionLast')
  <2> SUFFICES ASSUME queue' = Append(queue, "completion"), ~HasCompletion PROVE CompletionLast'
    OBVIOUS
  <2>1. /\ Len(queue') = Len(queue) + 1 /\ Len(queue) \in Nat
        /\ \A i \in 1 .. Len(queue) : queue'[i] = queue[i]
    BY AppendProperties
  <2> QED
    BY <2>1
<1>4. queue # <<>> /\ queue' = Tail(queue) =>
        (HasCompletion' => HasCompletion) /\ (CompletionLast => CompletionLast')
  <2> SUFFICES ASSUME queue # <<>>, queue' = Tail(queue)
               PROVE  (HasCompletion' => HasCompletion) /\ (CompletionLast => CompletionLast')
    OBVIOUS
  <2>1. /\ Len(queue') = Len(queue) - 1 /\ Len(queue) \in Nat /\ Len(queue') \in Nat
        /\ \A i \in 1 .. Len(queue') : queue'[i] = queue[i + 1]
    BY HeadTailProperties
  <2>2. \A i \in 1 .. Len(queue') : i + 1 \in 1 .. Len(queue) /\ (i + 1 = Len(queue) => i = Len(queue'))
    <3>1. \A m, n \in Nat : m = n - 1 => \A i \in 1 .. m : i + 1 \in 1 .. n /\ (i + 1 = n => i = m)
      OBVIOUS
    <3> QED
      BY <2>1, <3>1
  <2>3. HasCompletion' => HasCompletion
    BY <2>1, <2>2
  <2>4. CompletionLast => CompletionLast'
    BY <2>1, <2>2
  <2> QED
    BY <2>3, <2>4
<1>5. queue # <<>> /\ Head(queue) = "completion" => HasCompletion /\ (CompletionLast => Tail(queue) = <<>>)
  <2> SUFFICES ASSUME queue # <<>>, Head(queue) = "completion"
               PROVE  HasCompletion /\ (CompletionLast => Tail(queue) = <<>>)
    OBVIOUS
  <2>1. /\ Len(queue) \in Nat /\ Len(queue) > 0 /\ queue[1] = "completion"
        /\ Tail(queue) \in Seq({"event", "completion"}) /\ Len(Tail(queue)) = Len(queue) - 1
    <3>1. Tail(queue) \in Seq({"event", "completion"}) /\ Len(Tail(queue)) = Len(queue) - 1
      BY HeadTailProperties
    <3>2. Len(queue) \in Nat /\ Len(queue) # 0
      BY EmptySeq
    <3> QED
      BY <3>1, <3>2
  <2>2. Len(Tail(queue)) = 0 => Tail(queue) = <<>>
    BY <2>1, EmptySeq
  <2>3. 1 \in 1 .. Len(queue) /\ queue[1] = "completion"
    <3>1. \A n \in Nat : n > 0 => 1 \in 1 .. n
      OBVIOUS
    <3> QED
      BY <2>1, <3>1
  <2>4. CompletionLast => Len(queue) = 1
    BY <2>3
  <2>5. HasCompletion
    BY <2>3
  <2> HIDE DEF HasCompletion, CompletionLast
  <2>6. CompletionLast => Len(Tail(queue)) = 0
    <3>1. 1 - 1 = 0
      OBVIOUS
    <3> QED
      BY <2>1, <2>4, <3>1, Zenon
  <2> QED
    BY <2>2, <2>5, <2>6
<1>6. queue = <<>> => ~HasCompletion
  BY EmptySeq
<1> QED
  BY <1>1, <1>2, <1>3, <1>4, <1>5, <1>6

\* What appending a record and taking the head do to the number of queued events.
LEMMA EventSteps ==
  ASSUME queue \in Seq({"event", "completion"})
  PROVE  /\ EventCount(queue) \in Nat
         /\ queue' = queue => EventCount(queue') = EventCount(queue)
         /\ queue' = Append(queue, "event") => EventCount(queue') = EventCount(queue) + 1
         /\ queue' = Append(queue, "completion") => EventCount(queue') = EventCount(queue)
         /\ queue # <<>> /\ queue' = Tail(queue) =>
              /\ EventCount(queue') \in Nat
              /\ IF Head(queue) = "event" THEN EventCount(queue') + 1 = EventCount(queue) ELSE EventCount(queue') = EventCount(queue)
         /\ queue = <<>> => EventCount(queue) = 0
<1>1. ASSUME NEW q \in Seq({"event", "completion"})
      PROVE  IsFiniteSet(QueuedEvents(q)) /\ Cardinality(QueuedEvents(q)) \in Nat /\ Len(q) \in Nat
  <2>1. IsFiniteSet(1 .. Len(q)) /\ Len(q) \in Nat
    BY FS_Interval
  <2> QED
    BY <2>1, FS_Subset, FS_CardinalityType DEF QueuedEvents
<1>2. ASSUME queue' = queue PROVE EventCount(queue') = EventCount(queue)
  <2>1. QueuedEvents(queue') = QueuedEvents(queue)
    BY <1>2 DEF QueuedEvents
  <2> QED
    BY <1>2, <2>1 DEF EventCount
<1>3. ASSUME NEW kind \in {"event", "completion"}, queue' = Append(queue, kind)
      PROVE  EventCount(queue') = IF kind = "event" THEN EventCount(queue) + 1 ELSE EventCount(queue)
  <2>1. /\ Len(queue') = Len(queue) + 1 /\ Len(queue) \in Nat
        /\ \A i \in 1 .. Len(queue) : queue'[i] = queue[i]
        /\ queue'[Len(queue) + 1] = kind
    BY <1>3, AppendProperties
  <2>2. \A n \in Nat : 1 .. (n + 1) = (1 .. n) \cup {n + 1} /\ n + 1 \notin 1 .. n
    OBVIOUS
  <2>3. Len(queue) + 1 \notin QueuedEvents(queue)
    BY <2>1, <2>2 DEF QueuedEvents
  <2>4. QueuedEvents(queue') = IF kind = "event" THEN QueuedEvents(queue) \cup {Len(queue) + 1}
                               ELSE QueuedEvents(queue)
    BY <2>1, <2>2, <1>3 DEF QueuedEvents
  <2> QED
    BY <2>3, <2>4, <1>1, FS_AddElement DEF EventCount
<1>4. ASSUME queue # <<>>, queue' = Tail(queue)
      PROVE  /\ EventCount(queue') \in Nat
             /\ IF Head(queue) = "event" THEN EventCount(queue') + 1 = EventCount(queue) ELSE EventCount(queue') = EventCount(queue)
  <2>1. /\ Len(queue') = Len(queue) - 1 /\ Len(queue) \in Nat /\ Len(queue') \in Nat
        /\ \A i \in 1 .. Len(queue') : queue'[i] = queue[i + 1]
        /\ queue' \in Seq({"event", "completion"})
    BY <1>4, HeadTailProperties
  <2>2. Head(queue) = queue[1]
    OBVIOUS
  <2> DEFINE shift == [i \in QueuedEvents(queue') |-> i + 1]
             rest == QueuedEvents(queue) \ {1}
  <2>3. \A m, n \in Nat : m = n - 1 =>
          /\ \A i \in 1 .. m : i + 1 \in 1 .. n /\ i + 1 # 1
          /\ \A k \in 1 .. n : k # 1 => k - 1 \in 1 .. m /\ (k - 1) + 1 = k
          /\ \A i, j \in 1 .. m : i + 1 = j + 1 => i = j
          /\ 1 \in 1 .. n
    OBVIOUS
  <2>4. \A i \in QueuedEvents(queue') : i + 1 \in rest
    BY <2>1, <2>3 DEF QueuedEvents
  <2>5. \A k \in rest : \E i \in QueuedEvents(queue') : i + 1 = k
    <3> TAKE k \in rest
    <3>1. k \in 1 .. Len(queue) /\ queue[k] = "event" /\ k # 1
      BY DEF QueuedEvents
    <3>2. k - 1 \in 1 .. Len(queue') /\ (k - 1) + 1 = k
      BY <2>1, <2>3, <3>1
    <3>3. queue'[k - 1] = "event"
      BY <2>1, <3>1, <3>2
    <3> QED
      BY <3>2, <3>3 DEF QueuedEvents
  <2>6. shift \in Bijection(QueuedEvents(queue'), rest)
    <3>1. \A i, j \in QueuedEvents(queue') : i + 1 = j + 1 => i = j
      BY DEF QueuedEvents
    <3> QED
      BY <2>4, <2>5, <3>1 DEF Bijection, Injection, Surjection, IsInjective
  <2>7. Cardinality(QueuedEvents(queue')) = Cardinality(rest)
    BY <1>1, <2>1, <2>6, FS_Bijection DEF ExistsBijection
  <2>8. 1 \in QueuedEvents(queue) <=> Head(queue) = "event"
    BY <2>1, <2>2, <2>3 DEF QueuedEvents
  <2>9. IsFiniteSet(QueuedEvents(queue)) /\ Cardinality(QueuedEvents(queue)) \in Nat
    BY <1>1
  <2> HIDE DEF shift
  <2>10. CASE Head(queue) = "event"
    <3>1. Cardinality(rest) = Cardinality(QueuedEvents(queue)) - 1
      BY <2>8, <2>9, <2>10, FS_RemoveElement
    <3> QED
      BY <1>1, <2>1, <2>7, <2>9, <2>10, <3>1 DEF EventCount
  <2>11. CASE Head(queue) # "event"
    BY <1>1, <2>1, <2>7, <2>8, <2>11 DEF EventCount
  <2>12. EventCount(queue') \in Nat
    BY <1>1, <2>1 DEF EventCount
  <2> QED
    BY <2>10, <2>11, <2>12
<1>5. queue = <<>> => EventCount(queue) = 0
  BY FS_EmptySet DEF EventCount, QueuedEvents
<1>6. EventCount(queue) \in Nat
  BY <1>1 DEF EventCount
<1> QED
  BY <1>2, <1>3, <1>4, <1>5, <1>6

\* When the JavaScript thread starts to settle, nobody gave the operation up
\* before: neither it, nor a native teardown, nor the finalizer.
LEMMA SettleFirst ==
  ASSUME IInv, CInv, js = "settle"
  PROVE  /\ ~Torn /\ ~Finalized /\ ~js_released /\ ~claimed /\ env = "alive"
         /\ handle \in {"none", "open"}
         /\ task # "running" /\ ~HasCompletion
         /\ pc[Controller] # "off" => controller_future = "live" /\ jsReturn = "record" /\ queue = <<>>
         /\ cancel_requested \/ delivered = accepted
         /\ pc[Controller] # "off" => delivered = accepted
<1> USE DEF IInv, TypeOK, FieldsOK, Shape, JsShape, CInv, JsLive, StartShape,
    ControllerShape, ReleasedShape
<1>1. jsReturn \in {"unstarted", "started", "record"} /\ env = "alive" /\ promise = "pending"
  OBVIOUS
<1>2. ~Torn
  BY <1>1 DEF Torn
<1>3. handle \in {"none", "open"}
  BY <1>1, <1>2
<1>4. ~Finalized
  BY <1>3 DEF Finalized
<1>5. ~claimed
  BY <1>2, <1>4
<1>6. jsReturn # "record" => pc[Controller] = "off"
  BY <1>1
<1>7. ~js_released
  BY <1>2, <1>4, <1>6
<1>8. jsReturn = "record" => queue = <<>> /\ task = "returned" /\ pc[Controller] \in {"sent", "end", "returned"}
  BY <1>1
<1>9. ~HasCompletion
  BY <1>6, <1>8, CompletionSteps
<1>10. task # "running"
  BY <1>1, <1>8
<1>11. pc[Controller] # "off" => controller_future = "live" /\ jsReturn = "record" /\ queue = <<>>
  BY <1>1, <1>2, <1>4, <1>6, <1>8
<1>12. EventCount(queue) \in Nat /\ (queue = <<>> => EventCount(queue) = 0)
  BY EventSteps
<1>13. ~InListener
  BY <1>1 DEF InListener
<1>14. delivered + EventCount(queue) <= accepted /\ (~Torn /\ handle = "open" => delivered + EventCount(queue) = accepted)
  BY <1>12, <1>13 DEF DeliveryShape, One
<1>15. jsReturn = "record" => delivered = accepted
  BY <1>1, <1>2, <1>8, <1>12, <1>14
<1>16. task = "off" => delivered = accepted
  BY <1>12, <1>14
<1> QED
  BY <1>1, <1>2, <1>3, <1>4, <1>5, <1>6, <1>7, <1>8, <1>9, <1>10, <1>11, <1>15, <1>16

-----------------------------------------------------------------------------
\* JavaScript works only for a live operation, after every step.
LEMMA JsLiveStep ==
  ASSUME IInv, CInv, Next
  PROVE  JsLive'
<1> USE DEF IInv, TypeOK, FieldsOK, Shape, JsShape, CInv, JsLive, TornShape, Torn, jsVars, taskVars, ownership,
        word, engine, events, cancellation, reaping, listener, settlement, history
<1>1. ASSUME NEW p \in Producers, Emit(p) PROVE JsLive'
  BY <1>1 DEF Emit, EmitBegins, Reserve, EmitFails, releaseEventSlot, EventRefused, ProducerStops
<1>2. ASSUME NEW p \in Posters, Post(p) PROVE JsLive'
  BY <1>2 DEF Post, Admit, PushQueued, PushOnClosing, PushFails, Leave, leaveDispatcherPush, Unwind
<1>3. CASE Task
  BY <1>3 DEF Task, TaskFinishes, TaskReturns
<1>4. CASE Control
  BY <1>4 DEF Control, ControllerChecks, ControllerDecides, ControllerJoins, taskJoined, CompletionRefused,
     ControllerReturns
<1>5. CASE Submit
  BY <1>5 DEF Submit, SubmitAborted, SubmitRefused, abandon, destroyJs, SubmitUnwound, SubmitReady, SpawnTask,
     SpawnTaskFails, SpawnController, SpawnControllerFails, SubmitJoins, taskJoined
<1>6. CASE Settlement
  BY <1>6 DEF Settlement, Settle, destroyJs, settlementFor, ReleaseHandle, pushesReturned, FinishSettlement,
     settlementDrops
<1>7. CASE Dispatch
  <2>1. CASE DispatchEvent
    BY <2>1 DEF DispatchEvent, Dispatchable
  <2>2. CASE DispatchUnheard
    BY <2>2 DEF DispatchUnheard, Dispatchable, releaseEventSlot
  <2>3. CASE ListenerReturns
    BY <2>3 DEF ListenerReturns, releaseEventSlot
  <2>4. CASE DispatchCompletion
    BY <2>4, CompletionSteps DEF DispatchCompletion, Dispatchable
  <2> QED
    BY <1>7, <2>1, <2>2, <2>3, <2>4 DEF Dispatch
<1>8. CASE Abort
  BY <1>8 DEF Abort, AbortBegins, AbortTooLate, AbortRequests, AbortWakes
<1>9. CASE Engine
  BY <1>9 DEF Engine, HandleCloses, FinalizeBegins, FinalizeEnds, pushesReturned, finalizerRefs, handOver,
     DrainItem, releaseEventSlot, HandleDeleted
<1>10. CASE Reap
  BY <1>10 DEF Reap
<1>11. CASE ReleaseNative
  BY <1>11 DEF ReleaseNative
<1>12. CASE TearDown
  BY <1>12 DEF TearDown
<1> QED
  BY <1>1, <1>2, <1>3, <1>4, <1>5, <1>6, <1>7, <1>8, <1>9, <1>10, <1>11, <1>12 DEF Next

\* How far the task is fits what the JavaScript thread does, after every step.
LEMMA StartShapeStep ==
  ASSUME IInv, CInv, Next
  PROVE  StartShape'
<1> USE PostersFinite, OperationAssumption DEF IInv, TypeOK, FieldsOK, Shape, JsShape, SpawnShape,
        ProducerShape, ReapShape, CInv, JsLive, Torn, TornShape, StartShape, jsVars, taskVars, ownership, word,
        engine, events, cancellation, reaping, listener, settlement, history
<1>1. ASSUME NEW p \in Producers, Emit(p) PROVE StartShape'
  <2>1. CASE EmitBegins(p)
    BY <2>1 DEF EmitBegins
  <2>2. CASE Reserve(p)
    BY <2>2 DEF Reserve
  <2>3. CASE EmitFails(p)
    BY <2>3, SignalledOthers DEF EmitFails, releaseEventSlot, Signalled, Asleep
  <2>4. CASE EventRefused(p)
    BY <2>4, SignalledOthers DEF EventRefused, releaseEventSlot, Signalled, Asleep
  <2>5. CASE ProducerStops(p)
    BY <2>5 DEF ProducerStops
  <2> QED
    BY <1>1, <2>1, <2>2, <2>3, <2>4, <2>5 DEF Emit
<1>2. ASSUME NEW p \in Posters, Post(p) PROVE StartShape'
  <2>1. CASE Admit(p)
    BY <2>1 DEF Admit
  <2>2. CASE PushQueued(p)
    BY <2>2 DEF PushQueued
  <2>3. CASE PushOnClosing(p)
    BY <2>3 DEF PushOnClosing
  <2>4. CASE PushFails(p)
    BY <2>4 DEF PushFails
  <2>5. CASE Leave(p)
    BY <2>5 DEF Leave, leaveDispatcherPush
  <2>6. CASE Unwind(p)
    BY <2>6, WokenOthers DEF Unwind, Woken, Asleep
  <2> QED
    BY <1>2, <2>1, <2>2, <2>3, <2>4, <2>5, <2>6 DEF Post
<1>3. CASE Task
  BY <1>3 DEF Task, TaskFinishes, TaskReturns, ControllerWoken
<1>4. CASE Control
  <2>1. CASE ControllerChecks
    BY <2>1 DEF ControllerChecks
  <2>2. CASE ControllerDecides
    BY <2>2 DEF ControllerDecides
  <2>3. CASE ControllerJoins
    BY <2>3 DEF ControllerJoins, taskJoined
  <2>4. CASE CompletionRefused
    BY <2>4, WokenOthers DEF CompletionRefused, Woken, Asleep
  <2>5. CASE ControllerReturns
    BY <2>5 DEF ControllerReturns
  <2> QED
    BY <1>4, <2>1, <2>2, <2>3, <2>4, <2>5 DEF Control
<1>5. CASE Submit
  <2>1. CASE SubmitAborted
    BY <2>1 DEF SubmitAborted
  <2>2. CASE SubmitRefused
    BY <2>2 DEF SubmitRefused, abandon, destroyJs
  <2>3. CASE SubmitUnwound
    BY <2>3 DEF SubmitUnwound, abandon, destroyJs
  <2>4. CASE SubmitReady
    BY <2>4 DEF SubmitReady
  <2>5. CASE SpawnTask
    BY <2>5 DEF SpawnTask
  <2>6. CASE SpawnTaskFails
    BY <2>6 DEF SpawnTaskFails
  <2>7. CASE SpawnController
    BY <2>7 DEF SpawnController
  <2>8. CASE SpawnControllerFails
    BY <2>8, WokenOthers DEF SpawnControllerFails, Woken, Asleep
  <2>9. CASE SubmitJoins
    BY <2>9 DEF SubmitJoins, taskJoined
  <2> QED
    BY <1>5, <2>1, <2>2, <2>3, <2>4, <2>5, <2>6, <2>7, <2>8, <2>9 DEF Submit
<1>6. CASE Settlement
  <2>1. CASE Settle
    BY <2>1, WokenOthers DEF Settle, destroyJs, settlementFor, Woken, Asleep
  <2>2. CASE ReleaseHandle
    BY <2>2 DEF ReleaseHandle, pushesReturned
  <2>3. CASE FinishSettlement
    BY <2>3 DEF FinishSettlement, settledWith, settlementDrops
  <2> QED
    BY <1>6, <2>1, <2>2, <2>3 DEF Settlement
<1>7. CASE Dispatch
  <2>1. CASE DispatchEvent
    BY <2>1 DEF DispatchEvent, Dispatchable
  <2>2. CASE DispatchUnheard
    BY <2>2, SignalledOthers DEF DispatchUnheard, Dispatchable, releaseEventSlot, Signalled, Asleep
  <2>3. CASE ListenerReturns
    BY <2>3, SignalledOthers DEF ListenerReturns, releaseEventSlot, Signalled, Asleep
  <2>4. CASE DispatchCompletion
    BY <2>4 DEF DispatchCompletion, Dispatchable
  <2> QED
    BY <1>7, <2>1, <2>2, <2>3, <2>4 DEF Dispatch
<1>8. CASE Abort
  BY <1>8, WokenOthers DEF Abort, AbortBegins, AbortTooLate, AbortRequests, AbortWakes, ControllerWoken, Woken,
     Asleep
<1>9. CASE Engine
  <2>1. CASE HandleCloses
    BY <2>1 DEF HandleCloses
  <2>2. CASE FinalizeBegins
    BY <2>2 DEF FinalizeBegins
  <2>3. CASE FinalizeEnds
    BY <2>3, WokenOthers DEF FinalizeEnds, pushesReturned, finalizerRefs, handOver, Woken, Asleep
  <2>4. CASE DrainItem
    BY <2>4, SignalledOthers DEF DrainItem, releaseEventSlot, Signalled, Asleep
  <2>5. CASE HandleDeleted
    BY <2>5 DEF HandleDeleted
  <2> QED
    BY <1>9, <2>1, <2>2, <2>3, <2>4, <2>5 DEF Engine
<1>10. CASE Reap
  BY <1>10 DEF Reap
<1>11. CASE ReleaseNative
  BY <1>11, WokenOthers DEF ReleaseNative, Woken, Asleep
<1>12. CASE TearDown
  BY <1>12 DEF TearDown
<1> QED
  BY <1>1, <1>2, <1>3, <1>4, <1>5, <1>6, <1>7, <1>8, <1>9, <1>10, <1>11, <1>12 DEF Next

\* The completion is the last record, after every step.
LEMMA ControllerShapeStep ==
  ASSUME IInv, CInv, Next
  PROVE  ControllerShape'
<1> USE PostersFinite, OperationAssumption, CompletionSteps DEF IInv, TypeOK, FieldsOK, Shape, JsShape,
        SpawnShape, ProducerShape, ReapShape, CInv, JsLive, Torn, TornShape, ControllerShape, jsVars, taskVars,
        ownership, word, engine, events, cancellation, reaping, listener, settlement, history
<1>1. ASSUME NEW p \in Producers, Emit(p) PROVE ControllerShape'
  <2>1. CASE EmitBegins(p)
    BY <2>1 DEF EmitBegins
  <2>2. CASE Reserve(p)
    BY <2>2 DEF Reserve
  <2>3. CASE EmitFails(p)
    BY <2>3, SignalledOthers DEF EmitFails, releaseEventSlot, Signalled, Asleep
  <2>4. CASE EventRefused(p)
    BY <2>4, SignalledOthers DEF EventRefused, releaseEventSlot, Signalled, Asleep
  <2>5. CASE ProducerStops(p)
    BY <2>5 DEF ProducerStops
  <2> QED
    BY <1>1, <2>1, <2>2, <2>3, <2>4, <2>5 DEF Emit
<1>2. ASSUME NEW p \in Posters, Post(p) PROVE ControllerShape'
  <2>1. CASE Admit(p)
    BY <2>1 DEF Admit
  <2>2. CASE PushQueued(p)
    BY <2>2 DEF PushQueued
  <2>3. CASE PushOnClosing(p)
    BY <2>3 DEF PushOnClosing
  <2>4. CASE PushFails(p)
    BY <2>4 DEF PushFails
  <2>5. CASE Leave(p)
    BY <2>5 DEF Leave, leaveDispatcherPush
  <2>6. CASE Unwind(p)
    BY <2>6, WokenOthers DEF Unwind, Woken, Asleep
  <2> QED
    BY <1>2, <2>1, <2>2, <2>3, <2>4, <2>5, <2>6 DEF Post
<1>3. CASE Task
  <2>1. CASE TaskFinishes
    BY <2>1 DEF TaskFinishes
  <2>2. CASE TaskReturns
    BY <2>2 DEF TaskReturns, ControllerWoken
  <2> QED
    BY <1>3, <2>1, <2>2 DEF Task
<1>4. CASE Control
  <2>1. CASE ControllerChecks
    BY <2>1 DEF ControllerChecks
  <2>2. CASE ControllerDecides
    BY <2>2 DEF ControllerDecides
  <2>3. CASE ControllerJoins
    BY <2>3 DEF ControllerJoins, taskJoined
  <2>4. CASE CompletionRefused
    BY <2>4, WokenOthers DEF CompletionRefused, Woken, Asleep
  <2>5. CASE ControllerReturns
    BY <2>5 DEF ControllerReturns
  <2> QED
    BY <1>4, <2>1, <2>2, <2>3, <2>4, <2>5 DEF Control
<1>5. CASE Submit
  <2>1. CASE SubmitAborted
    BY <2>1 DEF SubmitAborted
  <2>2. CASE SubmitRefused
    BY <2>2 DEF SubmitRefused, abandon, destroyJs
  <2>3. CASE SubmitUnwound
    BY <2>3 DEF SubmitUnwound, abandon, destroyJs
  <2>4. CASE SubmitReady
    BY <2>4 DEF SubmitReady
  <2>5. CASE SpawnTask
    BY <2>5 DEF SpawnTask
  <2>6. CASE SpawnTaskFails
    BY <2>6 DEF SpawnTaskFails
  <2>7. CASE SpawnController
    BY <2>7 DEF SpawnController
  <2>8. CASE SpawnControllerFails
    BY <2>8, WokenOthers DEF SpawnControllerFails, Woken, Asleep
  <2>9. CASE SubmitJoins
    BY <2>9 DEF SubmitJoins, taskJoined
  <2> QED
    BY <1>5, <2>1, <2>2, <2>3, <2>4, <2>5, <2>6, <2>7, <2>8, <2>9 DEF Submit
<1>6. CASE Settlement
  <2>1. CASE Settle
    BY <2>1, WokenOthers DEF Settle, destroyJs, settlementFor, Woken, Asleep
  <2>2. CASE ReleaseHandle
    BY <2>2 DEF ReleaseHandle, pushesReturned
  <2>3. CASE FinishSettlement
    BY <2>3 DEF FinishSettlement, settlementDrops
  <2> QED
    BY <1>6, <2>1, <2>2, <2>3 DEF Settlement
<1>7. CASE Dispatch
  <2>1. CASE DispatchEvent
    BY <2>1 DEF DispatchEvent, Dispatchable
  <2>2. CASE DispatchUnheard
    BY <2>2, SignalledOthers DEF DispatchUnheard, Dispatchable, releaseEventSlot, Signalled, Asleep
  <2>3. CASE ListenerReturns
    BY <2>3, SignalledOthers DEF ListenerReturns, releaseEventSlot, Signalled, Asleep
  <2>4. CASE DispatchCompletion
    BY <2>4 DEF DispatchCompletion, Dispatchable
  <2> QED
    BY <1>7, <2>1, <2>2, <2>3, <2>4 DEF Dispatch
<1>8. CASE Abort
  <2>1. CASE AbortBegins
    BY <2>1 DEF AbortBegins
  <2>2. CASE AbortTooLate
    BY <2>2 DEF AbortTooLate
  <2>3. CASE AbortRequests
    BY <2>3 DEF AbortRequests
  <2>4. CASE AbortWakes
    BY <2>4, WokenOthers DEF AbortWakes, ControllerWoken, Woken, Asleep
  <2> QED
    BY <1>8, <2>1, <2>2, <2>3, <2>4 DEF Abort
<1>9. CASE Engine
  <2>1. CASE HandleCloses
    BY <2>1 DEF HandleCloses
  <2>2. CASE FinalizeBegins
    BY <2>2 DEF FinalizeBegins
  <2>3. CASE FinalizeEnds
    BY <2>3, WokenOthers DEF FinalizeEnds, pushesReturned, finalizerRefs, handOver, Woken, Asleep
  <2>4. CASE DrainItem
    BY <2>4, SignalledOthers DEF DrainItem, releaseEventSlot, Signalled, Asleep
  <2>5. CASE HandleDeleted
    BY <2>5 DEF HandleDeleted
  <2> QED
    BY <1>9, <2>1, <2>2, <2>3, <2>4, <2>5 DEF Engine
<1>10. CASE Reap
  BY <1>10 DEF Reap
<1>11. CASE ReleaseNative
  BY <1>11, WokenOthers DEF ReleaseNative, Woken, Asleep
<1>12. CASE TearDown
  BY <1>12 DEF TearDown
<1> QED
  BY <1>1, <1>2, <1>3, <1>4, <1>5, <1>6, <1>7, <1>8, <1>9, <1>10, <1>11, <1>12 DEF Next

\* What the JavaScript thread gave up stays given up, after every step.
LEMMA TornShapeStep ==
  ASSUME IInv, CInv, Next
  PROVE  TornShape'
<1> USE PostersFinite, OperationAssumption, CompletionSteps DEF IInv, TypeOK, FieldsOK, Shape, JsShape,
        SpawnShape, ProducerShape, CInv, JsLive, StartShape, ControllerShape, TornShape, ReleasedShape, Torn,
        jsVars, taskVars, ownership, word, engine, events, cancellation, reaping, listener,
        settlement, history
<1>1. ASSUME NEW p \in Producers, Emit(p) PROVE TornShape'
  <2>1. CASE EmitBegins(p)
    BY <2>1 DEF EmitBegins
  <2>2. CASE Reserve(p)
    BY <2>2 DEF Reserve
  <2>3. CASE EmitFails(p)
    BY <2>3, SignalledOthers DEF EmitFails, releaseEventSlot, Signalled, Asleep
  <2>4. CASE EventRefused(p)
    BY <2>4, SignalledOthers DEF EventRefused, releaseEventSlot, Signalled, Asleep
  <2>5. CASE ProducerStops(p)
    BY <2>5 DEF ProducerStops
  <2> QED
    BY <1>1, <2>1, <2>2, <2>3, <2>4, <2>5 DEF Emit
<1>2. ASSUME NEW p \in Posters, Post(p) PROVE TornShape'
  <2>1. CASE Admit(p)
    BY <2>1 DEF Admit
  <2>2. CASE PushQueued(p)
    BY <2>2 DEF PushQueued
  <2>3. CASE PushOnClosing(p)
    BY <2>3 DEF PushOnClosing
  <2>4. CASE PushFails(p)
    BY <2>4 DEF PushFails
  <2>5. CASE Leave(p)
    BY <2>5 DEF Leave, leaveDispatcherPush
  <2>6. CASE Unwind(p)
    BY <2>6, WokenOthers DEF Unwind, Woken, Asleep
  <2> QED
    BY <1>2, <2>1, <2>2, <2>3, <2>4, <2>5, <2>6 DEF Post
<1>3. CASE Task
  <2>1. CASE TaskFinishes
    BY <2>1 DEF TaskFinishes
  <2>2. CASE TaskReturns
    BY <2>2 DEF TaskReturns, ControllerWoken
  <2> QED
    BY <1>3, <2>1, <2>2 DEF Task
<1>4. CASE Control
  <2>1. CASE ControllerChecks
    BY <2>1 DEF ControllerChecks
  <2>2. CASE ControllerDecides
    BY <2>2 DEF ControllerDecides
  <2>3. CASE ControllerJoins
    BY <2>3 DEF ControllerJoins, taskJoined
  <2>4. CASE CompletionRefused
    BY <2>4, WokenOthers DEF CompletionRefused, Woken, Asleep
  <2>5. CASE ControllerReturns
    BY <2>5 DEF ControllerReturns
  <2> QED
    BY <1>4, <2>1, <2>2, <2>3, <2>4, <2>5 DEF Control
<1>5. CASE Submit
  <2>1. CASE SubmitAborted
    BY <2>1 DEF SubmitAborted
  <2>2. CASE SubmitRefused
    BY <2>2 DEF SubmitRefused, abandon, destroyJs
  <2>3. CASE SubmitUnwound
    BY <2>3 DEF SubmitUnwound, abandon, destroyJs
  <2>4. CASE SubmitReady
    BY <2>4 DEF SubmitReady
  <2>5. CASE SpawnTask
    BY <2>5 DEF SpawnTask
  <2>6. CASE SpawnTaskFails
    BY <2>6 DEF SpawnTaskFails
  <2>7. CASE SpawnController
    BY <2>7 DEF SpawnController
  <2>8. CASE SpawnControllerFails
    BY <2>8, WokenOthers DEF SpawnControllerFails, Woken, Asleep
  <2>9. CASE SubmitJoins
    BY <2>9 DEF SubmitJoins, taskJoined
  <2> QED
    BY <1>5, <2>1, <2>2, <2>3, <2>4, <2>5, <2>6, <2>7, <2>8, <2>9 DEF Submit
<1>6. CASE Settlement
  <2>1. CASE Settle
    <3>1. /\ ~js_released /\ task # "running" /\ ~HasCompletion
          /\ pc[Controller] # "off" => controller_future = "live" /\ ~claimed
      BY <2>1, SettleFirst DEF Settle
    <3>2. pc[Controller] \in {"off", "returned"} /\ pc'[Controller] = pc[Controller]
      BY <2>1, <3>1 DEF Settle, Woken, Asleep
    <3>3. ~HasCompletion'
      BY <2>1, <3>1 DEF Settle
    <3>4. ~listener_ref' /\ ~registration' /\ task' # "running" /\ Torn'
      BY <2>1, <3>1 DEF Settle, destroyJs
    <3> QED
      BY <3>2, <3>3, <3>4
  <2>2. CASE ReleaseHandle
    BY <2>2 DEF ReleaseHandle, pushesReturned
  <2>3. CASE FinishSettlement
    BY <2>3 DEF FinishSettlement, settledWith, settlementDrops
  <2> QED
    BY <1>6, <2>1, <2>2, <2>3 DEF Settlement
<1>7. CASE Dispatch
  <2>1. CASE DispatchEvent
    BY <2>1 DEF DispatchEvent, Dispatchable
  <2>2. CASE DispatchUnheard
    BY <2>2, SignalledOthers DEF DispatchUnheard, Dispatchable, releaseEventSlot, Signalled, Asleep
  <2>3. CASE ListenerReturns
    BY <2>3, SignalledOthers DEF ListenerReturns, releaseEventSlot, Signalled, Asleep
  <2>4. CASE DispatchCompletion
    BY <2>4 DEF DispatchCompletion, Dispatchable
  <2> QED
    BY <1>7, <2>1, <2>2, <2>3, <2>4 DEF Dispatch
<1>8. CASE Abort
  <2>1. CASE AbortBegins
    BY <2>1 DEF AbortBegins
  <2>2. CASE AbortTooLate
    BY <2>2 DEF AbortTooLate
  <2>3. CASE AbortRequests
    BY <2>3 DEF AbortRequests
  <2>4. CASE AbortWakes
    BY <2>4, WokenOthers DEF AbortWakes, ControllerWoken, Woken, Asleep
  <2> QED
    BY <1>8, <2>1, <2>2, <2>3, <2>4 DEF Abort
<1>9. CASE Engine
  <2>1. CASE HandleCloses
    BY <2>1 DEF HandleCloses
  <2>2. CASE FinalizeBegins
    BY <2>2 DEF FinalizeBegins
  <2>3. CASE FinalizeEnds
    BY <2>3, WokenOthers DEF FinalizeEnds, pushesReturned, finalizerRefs, handOver, Woken, Asleep
  <2>4. CASE DrainItem
    BY <2>4, SignalledOthers DEF DrainItem, releaseEventSlot, Signalled, Asleep
  <2>5. CASE HandleDeleted
    BY <2>5 DEF HandleDeleted
  <2> QED
    BY <1>9, <2>1, <2>2, <2>3, <2>4, <2>5 DEF Engine
<1>10. CASE Reap
  BY <1>10 DEF Reap
<1>11. CASE ReleaseNative
  BY <1>11, WokenOthers DEF ReleaseNative, Woken, Asleep
<1>12. CASE TearDown
  BY <1>12 DEF TearDown
<1> QED
  BY <1>1, <1>2, <1>3, <1>4, <1>5, <1>6, <1>7, <1>8, <1>9, <1>10, <1>11, <1>12 DEF Next

\* Who released the JavaScript side or claimed the future, after every step.
LEMMA ReleasedShapeStep ==
  ASSUME IInv, CInv, Next
  PROVE  ReleasedShape'
<1> USE PostersFinite, OperationAssumption, CompletionSteps DEF IInv, TypeOK, FieldsOK, Shape, JsShape,
        SpawnShape, ProducerShape, ReapShape, CInv, JsLive, Torn, TornShape, StartShape, ControllerShape,
        ReleasedShape, Finalized, jsVars, taskVars, ownership, word, engine, events, cancellation, reaping,
        listener, settlement, history
<1>1. ASSUME NEW p \in Producers, Emit(p) PROVE ReleasedShape'
  <2>1. CASE EmitBegins(p)
    BY <2>1 DEF EmitBegins
  <2>2. CASE Reserve(p)
    BY <2>2 DEF Reserve
  <2>3. CASE EmitFails(p)
    BY <2>3, SignalledOthers DEF EmitFails, releaseEventSlot, Signalled, Asleep
  <2>4. CASE EventRefused(p)
    BY <2>4, SignalledOthers DEF EventRefused, releaseEventSlot, Signalled, Asleep
  <2>5. CASE ProducerStops(p)
    BY <2>5 DEF ProducerStops
  <2> QED
    BY <1>1, <2>1, <2>2, <2>3, <2>4, <2>5 DEF Emit
<1>2. ASSUME NEW p \in Posters, Post(p) PROVE ReleasedShape'
  <2>1. CASE Admit(p)
    BY <2>1 DEF Admit
  <2>2. CASE PushQueued(p)
    BY <2>2 DEF PushQueued
  <2>3. CASE PushOnClosing(p)
    BY <2>3 DEF PushOnClosing
  <2>4. CASE PushFails(p)
    BY <2>4 DEF PushFails
  <2>5. CASE Leave(p)
    BY <2>5 DEF Leave, leaveDispatcherPush
  <2>6. CASE Unwind(p)
    BY <2>6, WokenOthers DEF Unwind, Woken, Asleep
  <2> QED
    BY <1>2, <2>1, <2>2, <2>3, <2>4, <2>5, <2>6 DEF Post
<1>3. CASE Task
  <2>1. CASE TaskFinishes
    BY <2>1 DEF TaskFinishes
  <2>2. CASE TaskReturns
    BY <2>2 DEF TaskReturns, ControllerWoken
  <2> QED
    BY <1>3, <2>1, <2>2 DEF Task
<1>4. CASE Control
  <2>1. CASE ControllerChecks
    BY <2>1 DEF ControllerChecks
  <2>2. CASE ControllerDecides
    BY <2>2 DEF ControllerDecides
  <2>3. CASE ControllerJoins
    BY <2>3 DEF ControllerJoins, taskJoined
  <2>4. CASE CompletionRefused
    BY <2>4, WokenOthers DEF CompletionRefused, Woken, Asleep
  <2>5. CASE ControllerReturns
    BY <2>5 DEF ControllerReturns
  <2> QED
    BY <1>4, <2>1, <2>2, <2>3, <2>4, <2>5 DEF Control
<1>5. CASE Submit
  <2>1. CASE SubmitAborted
    BY <2>1 DEF SubmitAborted
  <2>2. CASE SubmitRefused
    BY <2>2 DEF SubmitRefused, abandon, destroyJs
  <2>3. CASE SubmitUnwound
    BY <2>3 DEF SubmitUnwound, abandon, destroyJs
  <2>4. CASE SubmitReady
    BY <2>4 DEF SubmitReady
  <2>5. CASE SpawnTask
    BY <2>5 DEF SpawnTask
  <2>6. CASE SpawnTaskFails
    BY <2>6 DEF SpawnTaskFails
  <2>7. CASE SpawnController
    BY <2>7 DEF SpawnController
  <2>8. CASE SpawnControllerFails
    BY <2>8, WokenOthers DEF SpawnControllerFails, Woken, Asleep
  <2>9. CASE SubmitJoins
    BY <2>9 DEF SubmitJoins, taskJoined
  <2> QED
    BY <1>5, <2>1, <2>2, <2>3, <2>4, <2>5, <2>6, <2>7, <2>8, <2>9 DEF Submit
<1>6. CASE Settlement
  <2>1. CASE Settle
    BY <2>1, WokenOthers DEF Settle, destroyJs, settlementFor, Woken, Asleep
  <2>2. CASE ReleaseHandle
    BY <2>2 DEF ReleaseHandle, pushesReturned
  <2>3. CASE FinishSettlement
    BY <2>3 DEF FinishSettlement, settledWith, settlementDrops
  <2> QED
    BY <1>6, <2>1, <2>2, <2>3 DEF Settlement
<1>7. CASE Dispatch
  <2>1. CASE DispatchEvent
    BY <2>1 DEF DispatchEvent, Dispatchable
  <2>2. CASE DispatchUnheard
    BY <2>2, SignalledOthers DEF DispatchUnheard, Dispatchable, releaseEventSlot, Signalled, Asleep
  <2>3. CASE ListenerReturns
    BY <2>3, SignalledOthers DEF ListenerReturns, releaseEventSlot, Signalled, Asleep
  <2>4. CASE DispatchCompletion
    BY <2>4 DEF DispatchCompletion, Dispatchable
  <2> QED
    BY <1>7, <2>1, <2>2, <2>3, <2>4 DEF Dispatch
<1>8. CASE Abort
  <2>1. CASE AbortBegins
    BY <2>1 DEF AbortBegins
  <2>2. CASE AbortTooLate
    BY <2>2 DEF AbortTooLate
  <2>3. CASE AbortRequests
    BY <2>3 DEF AbortRequests
  <2>4. CASE AbortWakes
    BY <2>4, WokenOthers DEF AbortWakes, ControllerWoken, Woken, Asleep
  <2> QED
    BY <1>8, <2>1, <2>2, <2>3, <2>4 DEF Abort
<1>9. CASE Engine
  <2>1. CASE HandleCloses
    BY <2>1 DEF HandleCloses
  <2>2. CASE FinalizeBegins
    BY <2>2 DEF FinalizeBegins
  <2>3. CASE FinalizeEnds
    BY <2>3, WokenOthers DEF FinalizeEnds, pushesReturned, finalizerRefs, handOver, Woken, Asleep
  <2>4. CASE DrainItem
    BY <2>4, SignalledOthers DEF DrainItem, releaseEventSlot, Signalled, Asleep
  <2>5. CASE HandleDeleted
    BY <2>5 DEF HandleDeleted
  <2> QED
    BY <1>9, <2>1, <2>2, <2>3, <2>4, <2>5 DEF Engine
<1>10. CASE Reap
  BY <1>10 DEF Reap
<1>11. CASE ReleaseNative
  BY <1>11, WokenOthers DEF ReleaseNative, Woken, Asleep
<1>12. CASE TearDown
  BY <1>12 DEF TearDown
<1> QED
  BY <1>1, <1>2, <1>3, <1>4, <1>5, <1>6, <1>7, <1>8, <1>9, <1>10, <1>11, <1>12 DEF Next

\* The balance of events over the steps that add one to the queue or take one off.
LEMMA DeliveryQueueSteps ==
  ASSUME IInv, CInv, DispatchEvent \/ DispatchUnheard \/ DrainItem \/ \E p \in Posters : PushQueued(p)
  PROVE  DeliveryShape'
<1> DEFINE unheard == ~has_event_listener => accepted = 0 /\ \A p \in Producers : pc[p] \in {"user", "stopped"}
           busy == ~Torn /\ handle \in {"none", "open"}
           heard == delivered + EventCount(queue) + One(InListener)
<1>1. /\ unheard /\ pc \in [Posters -> PosterStates] /\ queue \in Seq({"event", "completion"})
      /\ ~Torn => (listener_ref <=> has_event_listener)
      /\ Torn => ~listener_ref
  BY DEF IInv, TypeOK, FieldsOK, CInv, DeliveryShape, TornShape
<1>2. EventCount(queue) \in Nat /\ accepted \in Nat /\ delivered \in Nat
  BY <1>1, EventSteps DEF IInv, TypeOK, FieldsOK
<1>3. heard <= accepted /\ (busy => heard = accepted)
  BY DEF CInv, DeliveryShape
<1>4. ~has_event_listener => EventCount(queue) = 0
  BY <1>1, <1>2, <1>3 DEF One
<1>5. ASSUME heard' <= accepted', busy' => heard' = accepted', unheard' PROVE DeliveryShape'
  BY <1>5 DEF DeliveryShape
<1>6. CASE DispatchEvent
  <2>1. EventCount(queue') + 1 = EventCount(queue) /\ EventCount(queue') \in Nat
    BY <1>1, <1>6, EventSteps DEF DispatchEvent, Dispatchable
  <2>2. UNCHANGED <<accepted, delivered, pc, has_event_listener, handle, promise>> /\ handle = "open" /\ listener_ref
    BY <1>6 DEF DispatchEvent, Dispatchable, history, listener, settlement
  <2>3. ~InListener /\ InListener'
    BY <1>6 DEF DispatchEvent, Dispatchable, InListener, IInv, Shape, JsShape
  <2>4. One(InListener) = 0 /\ One(InListener)' = 1
    BY <2>3 DEF One
  <2>5. heard' = heard
    BY <1>2, <2>1, <2>2, <2>4
  <2>6. busy
    BY <1>1, <2>2
  <2> QED
    BY <1>1, <1>3, <1>5, <2>2, <2>5, <2>6
<1>7. CASE DispatchUnheard
  <2>1. EventCount(queue') + 1 = EventCount(queue) /\ EventCount(queue') \in Nat
    BY <1>1, <1>7, EventSteps DEF DispatchUnheard, Dispatchable
  <2>2. UNCHANGED <<accepted, delivered, InListener, Torn, has_event_listener>>
    BY <1>7 DEF DispatchUnheard, InListener, Torn, jsVars, history, listener, settlement
  <2>3. has_event_listener
    BY <1>2, <1>4, <2>1
  <2>4. ~listener_ref \/ handle' = "closing"
    BY <1>7 DEF DispatchUnheard
  <2>5. ~busy'
    BY <1>1, <2>2, <2>3, <2>4
  <2>6. heard' <= heard
    BY <1>2, <2>1, <2>2 DEF One
  <2>7. heard' <= accepted'
    BY <1>2, <1>3, <2>1, <2>2, <2>6 DEF One
  <2> QED
    BY <1>5, <2>2, <2>3, <2>5, <2>7
<1>8. CASE DrainItem
  <2>1. EventCount(queue') <= EventCount(queue) /\ EventCount(queue') \in Nat
    BY <1>1, <1>2, <1>8, EventSteps DEF DrainItem
  <2>2. UNCHANGED <<accepted, delivered, InListener, has_event_listener>> /\ handle' = "finalized"
    BY <1>8 DEF DrainItem, InListener, jsVars, history, listener
  <2>3. \A p \in Producers : pc[p] \in {"user", "stopped"} => pc'[p] = pc[p]
    <3>1. ASSUME pc' \in Signalled(pc), NEW p \in Producers, pc[p] # "asleep" PROVE pc'[p] = pc[p]
      BY <1>1, <3>1, SignalledOthers DEF Posters
    <3>2. CASE pc' \in Signalled(pc)
      BY <3>1, <3>2
    <3> QED
      BY <1>8, <3>2 DEF DrainItem, releaseEventSlot
  <2>4. heard' <= accepted'
    BY <1>2, <1>3, <2>1, <2>2 DEF One
  <2> QED
    BY <1>1, <1>5, <2>2, <2>3, <2>4
<1>9. ASSUME NEW p \in Posters, PushQueued(p) PROVE DeliveryShape'
  <2>1. UNCHANGED <<delivered, InListener, Torn, handle, has_event_listener>>
    BY <1>9 DEF PushQueued, InListener, Torn, jsVars, listener, settlement
  <2>2. \A s \in Producers : s # p => pc'[s] = pc[s]
    BY <1>1, <1>9 DEF PushQueued, Posters
  <2>3. CASE p = Controller
    <3>1. EventCount(queue') = EventCount(queue) /\ accepted' = accepted
      BY <1>1, <1>9, <2>3, EventSteps DEF PushQueued
    <3>2. unheard'
      BY <1>1, <2>1, <2>2, <2>3, <3>1, OperationAssumption
    <3> QED
      BY <1>3, <1>5, <2>1, <3>1, <3>2
  <2>4. CASE p \in Producers
    <3>1. EventCount(queue') = EventCount(queue) + 1 /\ accepted' = accepted + 1
      BY <1>1, <1>9, <2>4, EventSteps, OperationAssumption DEF PushQueued
    <3>2. has_event_listener
      BY <1>1, <1>9, <2>4 DEF PushQueued
    <3>3. heard' = heard + 1
      BY <1>2, <2>1, <3>1 DEF One
    <3>4. heard' <= accepted' /\ (busy' => heard' = accepted')
      BY <1>2, <1>3, <2>1, <3>1, <3>3 DEF One
    <3> QED
      BY <1>5, <2>1, <3>2, <3>4
  <2> QED
    BY <2>3, <2>4, PostersFinite
<1> QED
  BY <1>6, <1>7, <1>8, <1>9

\* No accepted event is lost or delivered twice, by any step.
LEMMA DeliveryShapeStep ==
  ASSUME IInv, CInv, Next
  PROVE  DeliveryShape'
<1> USE PostersFinite, OperationAssumption, EventSteps DEF IInv, TypeOK, FieldsOK, Shape, JsShape, SpawnShape,
        ProducerShape, ReapShape, CInv, JsLive, Torn, TornShape, StartShape, DeliveryShape, InListener, One,
        jsVars, taskVars, ownership, word, engine, events, cancellation, reaping, listener,
        settlement, history
<1>1. ASSUME NEW p \in Producers, Emit(p) PROVE DeliveryShape'
  <2>1. CASE EmitBegins(p)
    BY <2>1 DEF EmitBegins
  <2>2. CASE Reserve(p)
    BY <2>2 DEF Reserve
  <2>3. CASE EmitFails(p)
    BY <2>3, SignalledOthers DEF EmitFails, releaseEventSlot, Signalled, Asleep
  <2>4. CASE EventRefused(p)
    BY <2>4, SignalledOthers DEF EventRefused, releaseEventSlot, Signalled, Asleep
  <2>5. CASE ProducerStops(p)
    BY <2>5 DEF ProducerStops
  <2> QED
    BY <1>1, <2>1, <2>2, <2>3, <2>4, <2>5 DEF Emit
<1>2. ASSUME NEW p \in Posters, Post(p) PROVE DeliveryShape'
  <2>1. CASE Admit(p)
    BY <2>1 DEF Admit
  <2>2. CASE PushQueued(p)
    BY <2>2, DeliveryQueueSteps
  <2>3. CASE PushOnClosing(p)
    BY <2>3 DEF PushOnClosing
  <2>4. CASE PushFails(p)
    BY <2>4 DEF PushFails
  <2>5. CASE Leave(p)
    BY <2>5 DEF Leave, leaveDispatcherPush
  <2>6. CASE Unwind(p)
    BY <2>6, WokenOthers DEF Unwind, Woken, Asleep
  <2> QED
    BY <1>2, <2>1, <2>2, <2>3, <2>4, <2>5, <2>6 DEF Post
<1>3. CASE Task
  <2>1. CASE TaskFinishes
    BY <2>1 DEF TaskFinishes
  <2>2. CASE TaskReturns
    BY <2>2 DEF TaskReturns, ControllerWoken
  <2> QED
    BY <1>3, <2>1, <2>2 DEF Task
<1>4. CASE Control
  <2>1. CASE ControllerChecks
    BY <2>1 DEF ControllerChecks
  <2>2. CASE ControllerDecides
    BY <2>2 DEF ControllerDecides
  <2>3. CASE ControllerJoins
    BY <2>3 DEF ControllerJoins, taskJoined
  <2>4. CASE CompletionRefused
    BY <2>4, WokenOthers DEF CompletionRefused, Woken, Asleep
  <2>5. CASE ControllerReturns
    BY <2>5 DEF ControllerReturns
  <2> QED
    BY <1>4, <2>1, <2>2, <2>3, <2>4, <2>5 DEF Control
<1>5. CASE Submit
  <2>1. CASE SubmitAborted
    BY <2>1 DEF SubmitAborted
  <2>2. CASE SubmitRefused
    BY <2>2 DEF SubmitRefused, abandon, destroyJs
  <2>3. CASE SubmitUnwound
    BY <2>3 DEF SubmitUnwound, abandon, destroyJs
  <2>4. CASE SubmitReady
    BY <2>4 DEF SubmitReady
  <2>5. CASE SpawnTask
    BY <2>5 DEF SpawnTask
  <2>6. CASE SpawnTaskFails
    BY <2>6 DEF SpawnTaskFails
  <2>7. CASE SpawnController
    BY <2>7 DEF SpawnController
  <2>8. CASE SpawnControllerFails
    BY <2>8, WokenOthers DEF SpawnControllerFails, Woken, Asleep
  <2>9. CASE SubmitJoins
    BY <2>9 DEF SubmitJoins, taskJoined
  <2> QED
    BY <1>5, <2>1, <2>2, <2>3, <2>4, <2>5, <2>6, <2>7, <2>8, <2>9 DEF Submit
<1>6. CASE Settlement
  <2>1. CASE Settle
    BY <2>1, WokenOthers DEF Settle, destroyJs, settlementFor, Woken, Asleep
  <2>2. CASE ReleaseHandle
    BY <2>2 DEF ReleaseHandle, pushesReturned
  <2>3. CASE FinishSettlement
    BY <2>3 DEF FinishSettlement, settledWith, settlementDrops
  <2> QED
    BY <1>6, <2>1, <2>2, <2>3 DEF Settlement
<1>7. CASE Dispatch
  <2>1. CASE DispatchEvent
    BY <2>1, DeliveryQueueSteps
  <2>2. CASE DispatchUnheard
    BY <2>2, DeliveryQueueSteps
  <2>3. CASE ListenerReturns
    BY <2>3, SignalledOthers DEF ListenerReturns, releaseEventSlot, Signalled, Asleep
  <2>4. CASE DispatchCompletion
    BY <2>4 DEF DispatchCompletion, Dispatchable
  <2> QED
    BY <1>7, <2>1, <2>2, <2>3, <2>4 DEF Dispatch
<1>8. CASE Abort
  <2>1. CASE AbortBegins
    BY <2>1 DEF AbortBegins
  <2>2. CASE AbortTooLate
    BY <2>2 DEF AbortTooLate
  <2>3. CASE AbortRequests
    BY <2>3 DEF AbortRequests
  <2>4. CASE AbortWakes
    BY <2>4, WokenOthers DEF AbortWakes, ControllerWoken, Woken, Asleep
  <2> QED
    BY <1>8, <2>1, <2>2, <2>3, <2>4 DEF Abort
<1>9. CASE Engine
  <2>1. CASE HandleCloses
    BY <2>1 DEF HandleCloses
  <2>2. CASE FinalizeBegins
    BY <2>2 DEF FinalizeBegins
  <2>3. CASE FinalizeEnds
    BY <2>3, WokenOthers DEF FinalizeEnds, pushesReturned, finalizerRefs, handOver, Woken, Asleep
  <2>4. CASE DrainItem
    BY <2>4, DeliveryQueueSteps
  <2>5. CASE HandleDeleted
    BY <2>5 DEF HandleDeleted
  <2> QED
    BY <1>9, <2>1, <2>2, <2>3, <2>4, <2>5 DEF Engine
<1>10. CASE Reap
  BY <1>10 DEF Reap
<1>11. CASE ReleaseNative
  BY <1>11, WokenOthers DEF ReleaseNative, Woken, Asleep
<1>12. CASE TearDown
  BY <1>12 DEF TearDown
<1> QED
  BY <1>1, <1>2, <1>3, <1>4, <1>5, <1>6, <1>7, <1>8, <1>9, <1>10, <1>11, <1>12 DEF Next

\* The settlement that was decided stays the one to give, after every step.
LEMMA OutcomeShapeStep ==
  ASSUME IInv, CInv, Next
  PROVE  OutcomeShape'
<1> USE PostersFinite, OperationAssumption DEF IInv, TypeOK, FieldsOK, Shape, JsShape, SpawnShape,
        ProducerShape, ReapShape, CInv, JsLive, Torn, TornShape, OutcomeShape, settlementFor, jsVars, taskVars,
        ownership, word, engine, events, cancellation, reaping, listener, settlement, history
<1>1. ASSUME NEW p \in Producers, Emit(p) PROVE OutcomeShape'
  <2>1. CASE EmitBegins(p)
    BY <2>1 DEF EmitBegins
  <2>2. CASE Reserve(p)
    BY <2>2 DEF Reserve
  <2>3. CASE EmitFails(p)
    BY <2>3, SignalledOthers DEF EmitFails, releaseEventSlot, Signalled, Asleep
  <2>4. CASE EventRefused(p)
    BY <2>4, SignalledOthers DEF EventRefused, releaseEventSlot, Signalled, Asleep
  <2>5. CASE ProducerStops(p)
    BY <2>5 DEF ProducerStops
  <2> QED
    BY <1>1, <2>1, <2>2, <2>3, <2>4, <2>5 DEF Emit
<1>2. ASSUME NEW p \in Posters, Post(p) PROVE OutcomeShape'
  <2>1. CASE Admit(p)
    BY <2>1 DEF Admit
  <2>2. CASE PushQueued(p)
    BY <2>2 DEF PushQueued
  <2>3. CASE PushOnClosing(p)
    BY <2>3 DEF PushOnClosing
  <2>4. CASE PushFails(p)
    BY <2>4 DEF PushFails
  <2>5. CASE Leave(p)
    BY <2>5 DEF Leave, leaveDispatcherPush
  <2>6. CASE Unwind(p)
    BY <2>6, WokenOthers DEF Unwind, Woken, Asleep
  <2> QED
    BY <1>2, <2>1, <2>2, <2>3, <2>4, <2>5, <2>6 DEF Post
<1>3. CASE Task
  <2>1. CASE TaskFinishes
    BY <2>1 DEF TaskFinishes
  <2>2. CASE TaskReturns
    BY <2>2 DEF TaskReturns, ControllerWoken
  <2> QED
    BY <1>3, <2>1, <2>2 DEF Task
<1>4. CASE Control
  <2>1. CASE ControllerChecks
    BY <2>1 DEF ControllerChecks
  <2>2. CASE ControllerDecides
    BY <2>2 DEF ControllerDecides
  <2>3. CASE ControllerJoins
    BY <2>3 DEF ControllerJoins, taskJoined
  <2>4. CASE CompletionRefused
    BY <2>4, WokenOthers DEF CompletionRefused, Woken, Asleep
  <2>5. CASE ControllerReturns
    BY <2>5 DEF ControllerReturns
  <2> QED
    BY <1>4, <2>1, <2>2, <2>3, <2>4, <2>5 DEF Control
<1>5. CASE Submit
  <2>1. CASE SubmitAborted
    BY <2>1 DEF SubmitAborted
  <2>2. CASE SubmitRefused
    BY <2>2 DEF SubmitRefused, abandon, destroyJs
  <2>3. CASE SubmitUnwound
    BY <2>3 DEF SubmitUnwound, abandon, destroyJs
  <2>4. CASE SubmitReady
    BY <2>4 DEF SubmitReady
  <2>5. CASE SpawnTask
    BY <2>5 DEF SpawnTask
  <2>6. CASE SpawnTaskFails
    BY <2>6 DEF SpawnTaskFails
  <2>7. CASE SpawnController
    BY <2>7 DEF SpawnController
  <2>8. CASE SpawnControllerFails
    BY <2>8, WokenOthers DEF SpawnControllerFails, Woken, Asleep
  <2>9. CASE SubmitJoins
    BY <2>9 DEF SubmitJoins, taskJoined
  <2> QED
    BY <1>5, <2>1, <2>2, <2>3, <2>4, <2>5, <2>6, <2>7, <2>8, <2>9 DEF Submit
<1>6. CASE Settlement
  <2>1. CASE Settle
    <3>1. js' \in {"release", "finish"} /\ outcome' = settlementFor'
      BY <2>1 DEF Settle
    <3>2. UNCHANGED <<cancel_requested, delivered, accepted, promise>> /\ pc'[Controller] = pc[Controller]
      BY <2>1 DEF Settle, Woken, Asleep
    <3>3. /\ cancel_requested \/ delivered = accepted
          /\ pc[Controller] # "off" => delivered = accepted
      BY <2>1, SettleFirst DEF Settle
    <3>4. promise = "pending"
      BY <2>1 DEF Settle
    <3> QED
      BY <3>1, <3>2, <3>3, <3>4
  <2>2. CASE ReleaseHandle
    BY <2>2 DEF ReleaseHandle, pushesReturned
  <2>3. CASE FinishSettlement
    BY <2>3 DEF FinishSettlement, settlementDrops
  <2> QED
    BY <1>6, <2>1, <2>2, <2>3 DEF Settlement
<1>7. CASE Dispatch
  <2>1. CASE DispatchEvent
    BY <2>1 DEF DispatchEvent, Dispatchable
  <2>2. CASE DispatchUnheard
    BY <2>2, SignalledOthers DEF DispatchUnheard, Dispatchable, releaseEventSlot, Signalled, Asleep
  <2>3. CASE ListenerReturns
    BY <2>3, SignalledOthers DEF ListenerReturns, releaseEventSlot, Signalled, Asleep
  <2>4. CASE DispatchCompletion
    BY <2>4 DEF DispatchCompletion, Dispatchable
  <2> QED
    BY <1>7, <2>1, <2>2, <2>3, <2>4 DEF Dispatch
<1>8. CASE Abort
  <2>1. CASE AbortBegins
    BY <2>1 DEF AbortBegins
  <2>2. CASE AbortTooLate
    BY <2>2 DEF AbortTooLate
  <2>3. CASE AbortRequests
    BY <2>3 DEF AbortRequests
  <2>4. CASE AbortWakes
    BY <2>4, WokenOthers DEF AbortWakes, ControllerWoken, Woken, Asleep
  <2> QED
    BY <1>8, <2>1, <2>2, <2>3, <2>4 DEF Abort
<1>9. CASE Engine
  <2>1. CASE HandleCloses
    BY <2>1 DEF HandleCloses
  <2>2. CASE FinalizeBegins
    BY <2>2 DEF FinalizeBegins
  <2>3. CASE FinalizeEnds
    BY <2>3, WokenOthers DEF FinalizeEnds, pushesReturned, finalizerRefs, handOver, Woken, Asleep
  <2>4. CASE DrainItem
    BY <2>4, SignalledOthers DEF DrainItem, releaseEventSlot, Signalled, Asleep
  <2>5. CASE HandleDeleted
    BY <2>5 DEF HandleDeleted
  <2> QED
    BY <1>9, <2>1, <2>2, <2>3, <2>4, <2>5 DEF Engine
<1>10. CASE Reap
  BY <1>10 DEF Reap
<1>11. CASE ReleaseNative
  BY <1>11, WokenOthers DEF ReleaseNative, Woken, Asleep
<1>12. CASE TearDown
  BY <1>12 DEF TearDown
<1> QED
  BY <1>1, <1>2, <1>3, <1>4, <1>5, <1>6, <1>7, <1>8, <1>9, <1>10, <1>11, <1>12 DEF Next

-----------------------------------------------------------------------------
\* The producers that have a slot of the event queue and no record in it yet.
SlotHolders == {p \in Producers : pc[p] = "admit" \/ HoldsRecord(p)}

\* The steps that take a slot, give one back, or hand one on.
SlotMoves ==
  \/ \E p \in Producers : Reserve(p) \/ EmitFails(p) \/ EventRefused(p)
  \/ \E p \in Posters : PushQueued(p) \/ Unwind(p)
  \/ DispatchEvent \/ DispatchUnheard \/ ListenerReturns \/ DrainItem

SlotsKept ==
  /\ UNCHANGED <<SlotHolders, inflight_events>>
  /\ EventCount(queue') = EventCount(queue)
  /\ InListener' <=> InListener

\* The other steps keep the slots as they are.
LEMMA SlotsQuiet ==
  ASSUME IInv, Next
  PROVE  SlotsKept \/ SlotMoves
<1> USE PostersFinite, OperationAssumption, EventSteps DEF IInv, TypeOK, FieldsOK, Shape, JsShape, SpawnShape,
        ProducerShape, SlotsKept, SlotHolders, HoldsRecord, InListener, jsVars, taskVars, ownership, word,
        engine, events, cancellation, reaping, listener, settlement, history
<1>1. ASSUME NEW p \in Producers, Emit(p) PROVE SlotsKept \/ SlotMoves
  <2>1. CASE EmitBegins(p)
    BY <2>1 DEF EmitBegins
  <2>2. CASE Reserve(p)
    BY <2>2 DEF SlotMoves
  <2>3. CASE EmitFails(p)
    BY <2>3 DEF SlotMoves
  <2>4. CASE EventRefused(p)
    BY <2>4 DEF SlotMoves
  <2>5. CASE ProducerStops(p)
    BY <2>5 DEF ProducerStops
  <2> QED
    BY <1>1, <2>1, <2>2, <2>3, <2>4, <2>5 DEF Emit
<1>2. ASSUME NEW p \in Posters, Post(p) PROVE SlotsKept \/ SlotMoves
  <2>1. CASE Admit(p)
    BY <2>1 DEF Admit
  <2>2. CASE PushQueued(p)
    BY <2>2 DEF SlotMoves
  <2>3. CASE PushOnClosing(p)
    BY <2>3 DEF PushOnClosing
  <2>4. CASE PushFails(p)
    BY <2>4 DEF PushFails
  <2>5. CASE Leave(p)
    BY <2>5 DEF Leave, leaveDispatcherPush
  <2>6. CASE Unwind(p)
    BY <2>6 DEF SlotMoves
  <2> QED
    BY <1>2, <2>1, <2>2, <2>3, <2>4, <2>5, <2>6 DEF Post
<1>3. CASE Task
  <2>1. CASE TaskFinishes
    BY <2>1 DEF TaskFinishes
  <2>2. CASE TaskReturns
    BY <2>2 DEF TaskReturns, ControllerWoken
  <2> QED
    BY <1>3, <2>1, <2>2 DEF Task
<1>4. CASE Control
  <2>1. CASE ControllerChecks
    BY <2>1 DEF ControllerChecks
  <2>2. CASE ControllerDecides
    BY <2>2 DEF ControllerDecides
  <2>3. CASE ControllerJoins
    BY <2>3 DEF ControllerJoins, taskJoined
  <2>4. CASE CompletionRefused
    BY <2>4, WokenOthers DEF CompletionRefused, Woken, Asleep
  <2>5. CASE ControllerReturns
    BY <2>5 DEF ControllerReturns
  <2> QED
    BY <1>4, <2>1, <2>2, <2>3, <2>4, <2>5 DEF Control
<1>5. CASE Submit
  <2>1. CASE SubmitAborted
    BY <2>1 DEF SubmitAborted
  <2>2. CASE SubmitRefused
    BY <2>2 DEF SubmitRefused, abandon, destroyJs
  <2>3. CASE SubmitUnwound
    BY <2>3 DEF SubmitUnwound, abandon, destroyJs
  <2>4. CASE SubmitReady
    BY <2>4 DEF SubmitReady
  <2>5. CASE SpawnTask
    BY <2>5 DEF SpawnTask
  <2>6. CASE SpawnTaskFails
    BY <2>6 DEF SpawnTaskFails
  <2>7. CASE SpawnController
    BY <2>7 DEF SpawnController
  <2>8. CASE SpawnControllerFails
    BY <2>8, WokenOthers DEF SpawnControllerFails, Woken, Asleep
  <2>9. CASE SubmitJoins
    BY <2>9 DEF SubmitJoins, taskJoined
  <2> QED
    BY <1>5, <2>1, <2>2, <2>3, <2>4, <2>5, <2>6, <2>7, <2>8, <2>9 DEF Submit
<1>6. CASE Settlement
  <2>1. CASE Settle
    BY <2>1, WokenOthers DEF Settle, destroyJs, settlementFor, Woken, Asleep
  <2>2. CASE ReleaseHandle
    BY <2>2 DEF ReleaseHandle, pushesReturned
  <2>3. CASE FinishSettlement
    BY <2>3 DEF FinishSettlement, settlementDrops
  <2> QED
    BY <1>6, <2>1, <2>2, <2>3 DEF Settlement
<1>7. CASE Dispatch
  <2>1. CASE DispatchEvent
    BY <2>1 DEF SlotMoves
  <2>2. CASE DispatchUnheard
    BY <2>2 DEF SlotMoves
  <2>3. CASE ListenerReturns
    BY <2>3 DEF SlotMoves
  <2>4. CASE DispatchCompletion
    BY <2>4 DEF DispatchCompletion, Dispatchable
  <2> QED
    BY <1>7, <2>1, <2>2, <2>3, <2>4 DEF Dispatch
<1>8. CASE Abort
  <2>1. CASE AbortBegins
    BY <2>1 DEF AbortBegins
  <2>2. CASE AbortTooLate
    BY <2>2 DEF AbortTooLate
  <2>3. CASE AbortRequests
    BY <2>3 DEF AbortRequests
  <2>4. CASE AbortWakes
    BY <2>4, WokenOthers DEF AbortWakes, ControllerWoken, Woken, Asleep
  <2> QED
    BY <1>8, <2>1, <2>2, <2>3, <2>4 DEF Abort
<1>9. CASE Engine
  <2>1. CASE HandleCloses
    BY <2>1 DEF HandleCloses
  <2>2. CASE FinalizeBegins
    BY <2>2 DEF FinalizeBegins
  <2>3. CASE FinalizeEnds
    BY <2>3, WokenOthers DEF FinalizeEnds, pushesReturned, finalizerRefs, handOver, Woken, Asleep
  <2>4. CASE DrainItem
    BY <2>4 DEF SlotMoves
  <2>5. CASE HandleDeleted
    BY <2>5 DEF HandleDeleted
  <2> QED
    BY <1>9, <2>1, <2>2, <2>3, <2>4, <2>5 DEF Engine
<1>10. CASE Reap
  BY <1>10 DEF Reap
<1>11. CASE ReleaseNative
  BY <1>11, WokenOthers DEF ReleaseNative, Woken, Asleep
<1>12. CASE TearDown
  BY <1>12 DEF TearDown
<1> QED
  BY <1>1, <1>2, <1>3, <1>4, <1>5, <1>6, <1>7, <1>8, <1>9, <1>10, <1>11, <1>12 DEF Next

\* The slots in use are those of the events on their way, after every step.
LEMMA SlotsStep ==
  ASSUME IInv, CInv, SlotsExact, Next
  PROVE  SlotsExact'
<1> DEFINE used == Cardinality(SlotHolders) + EventCount(queue) + One(InListener)
<1>1. /\ pc \in [Posters -> PosterStates] /\ queue \in Seq({"event", "completion"})
      /\ \A p \in Producers : p \in Posters /\ p # Controller
  BY OperationAssumption DEF IInv, TypeOK, FieldsOK, Posters
<1>2. /\ IsFiniteSet(SlotHolders) /\ Cardinality(SlotHolders) \in Nat /\ EventCount(queue) \in Nat
      /\ inflight_events \in Nat /\ QueueLimit \in Nat
  <2>1. IsFiniteSet(SlotHolders)
    BY OperationAssumption, FS_Subset DEF SlotHolders
  <2> QED
    BY <1>1, <2>1, FS_CardinalityType, EventSteps, OperationAssumption DEF IInv, TypeOK, FieldsOK
<1>3. inflight_events = used /\ inflight_events <= QueueLimit
  BY DEF SlotsExact, SlotHolders, EventCount, QueuedEvents
<1>4. ASSUME inflight_events' = used', inflight_events' <= QueueLimit PROVE SlotsExact'
  BY <1>4 DEF SlotsExact, SlotHolders, EventCount, QueuedEvents
<1>5. ASSUME NEW p PROVE /\ p \notin SlotHolders => Cardinality(SlotHolders \cup {p}) = Cardinality(SlotHolders) + 1
                         /\ p \in SlotHolders => /\ Cardinality(SlotHolders \ {p}) = Cardinality(SlotHolders) - 1
                                                 /\ Cardinality(SlotHolders) > 0
  BY <1>2, FS_AddElement, FS_RemoveElement, FS_CardinalityType
\* releaseEventSlot by a holder that goes on as f, or by the JavaScript thread.
<1>6. ASSUME NEW f \in [Posters -> PosterStates], pc' \in Signalled(f)
      PROVE  SlotHolders' = {p \in Producers : f[p] \in {"admit", "push", "refused", "failed", "unwind_refused",
                                                         "unwind_failed"}}
  <2>1. \A p \in Producers : pc'[p] = f[p] \/ (f[p] = "asleep" /\ pc'[p] = "reserve")
    BY <1>1, <1>6, SignalledOthers
  <2> QED
    BY <2>1 DEF SlotHolders, HoldsRecord
<1>7. SlotHolders = {p \in Producers : pc[p] \in {"admit", "push", "refused", "failed", "unwind_refused",
                                                  "unwind_failed"}}
  BY DEF SlotHolders, HoldsRecord
<1>8. CASE SlotsKept
  BY <1>3, <1>4, <1>8 DEF SlotsKept, One
<1>9. ASSUME NEW p \in Producers, Reserve(p) PROVE SlotsExact'
  <2>1. UNCHANGED <<queue, InListener>>
    BY <1>9 DEF Reserve, engine, jsVars, InListener
  <2>2. CASE pc' = [pc EXCEPT ![p] = "admit"] /\ inflight_events' = inflight_events + 1 /\ inflight_events < QueueLimit
    <3>1. p \notin SlotHolders /\ SlotHolders' = SlotHolders \cup {p}
      BY <1>1, <1>9, <2>2 DEF Reserve, SlotHolders, HoldsRecord
    <3>2. Cardinality(SlotHolders') = Cardinality(SlotHolders) + 1
      BY <1>5, <3>1
    <3>3. inflight_events' = used'
      BY <1>2, <1>3, <2>1, <2>2, <3>2 DEF One
    <3>4. inflight_events' <= QueueLimit
      BY <1>2, <2>2
    <3> QED
      BY <1>4, <3>3, <3>4
  <2>3. CASE (pc' = [pc EXCEPT ![p] = "user"] \/ pc' = [pc EXCEPT ![p] = "asleep"]) /\ UNCHANGED inflight_events
    <3>1. SlotHolders' = SlotHolders
      BY <1>1, <1>9, <2>3 DEF Reserve, SlotHolders, HoldsRecord
    <3> QED
      BY <1>3, <1>4, <2>1, <2>3, <3>1
  <2> QED
    BY <1>9, <2>2, <2>3 DEF Reserve
<1>10. ASSUME NEW p \in Producers, pc[p] = "admit", releaseEventSlot([pc EXCEPT ![p] = "user"]),
              UNCHANGED <<queue, js, jsReturn>>
       PROVE  SlotsExact'
  <2>1. p \in SlotHolders /\ SlotHolders' = SlotHolders \ {p}
    <3>1. [pc EXCEPT ![p] = "user"] \in [Posters -> PosterStates]
      BY <1>1 DEF PosterStates
    <3>2. p \in SlotHolders
      BY <1>7, <1>10
    <3> QED
      BY <1>1, <1>6, <1>7, <1>10, <3>1, <3>2 DEF releaseEventSlot
  <2>2. Cardinality(SlotHolders') = Cardinality(SlotHolders) - 1 /\ Cardinality(SlotHolders) > 0
    BY <1>5, <2>1
  <2>3. UNCHANGED InListener
    BY <1>10 DEF InListener
  <2>4. inflight_events > 0
    BY <1>2, <1>3, <2>2 DEF One
  <2>5. inflight_events' = inflight_events - 1
    BY <1>2, <1>10, <2>4 DEF releaseEventSlot
  <2>6. inflight_events' = used'
    BY <1>2, <1>3, <1>10, <2>2, <2>3, <2>5 DEF One
  <2>7. inflight_events' <= QueueLimit
    BY <1>2, <1>3, <2>5
  <2> QED
    BY <1>4, <2>6, <2>7
<1>11. ASSUME NEW p \in Producers, EmitFails(p) \/ EventRefused(p) PROVE SlotsExact'
  BY <1>10, <1>11 DEF EmitFails, EventRefused, engine, jsVars
<1>12. ASSUME NEW p \in Posters, PushQueued(p) PROVE SlotsExact'
  <2>1. UNCHANGED <<InListener, inflight_events>>
    BY <1>12 DEF PushQueued, events, jsVars, InListener
  <2>2. CASE p = Controller
    <3>1. SlotHolders' = SlotHolders
      BY <1>1, <1>12, <2>2 DEF PushQueued, SlotHolders, HoldsRecord
    <3>2. EventCount(queue') = EventCount(queue)
      BY <1>1, <1>12, <2>2, EventSteps DEF PushQueued
    <3> QED
      BY <1>3, <1>4, <2>1, <3>1, <3>2
  <2>3. CASE p \in Producers
    <3>1. p \in SlotHolders /\ SlotHolders' = SlotHolders \ {p}
      BY <1>1, <1>12, <2>3 DEF PushQueued, SlotHolders, HoldsRecord
    <3>2. Cardinality(SlotHolders') = Cardinality(SlotHolders) - 1
      BY <1>5, <3>1
    <3>3. EventCount(queue') = EventCount(queue) + 1
      BY <1>1, <1>12, <2>3, EventSteps DEF PushQueued
    <3>4. inflight_events' = used'
      BY <1>2, <1>3, <2>1, <3>2, <3>3 DEF One
    <3> QED
      BY <1>3, <1>4, <2>1, <3>4
  <2> QED
    BY <2>2, <2>3, PostersFinite
<1>13. ASSUME NEW p \in Posters, Unwind(p) PROVE SlotsExact'
  <2>1. UNCHANGED <<InListener, queue>>
    BY <1>13 DEF Unwind, engine, jsVars, InListener
  <2> DEFINE f == [pc EXCEPT ![p] = IF p = Controller THEN "end" ELSE "user"]
  <2>2. f \in [Posters -> PosterStates]
    BY <1>1 DEF PosterStates
  <2>3. \A s \in Producers : pc'[s] = f[s] \/ (f[s] = "asleep" /\ pc'[s] = "reserve")
    BY <1>1, <1>13, <2>2, WokenOthers DEF Unwind
  <2>4. CASE p = Controller
    <3>1. SlotHolders' = SlotHolders
      BY <1>1, <2>3, <2>4 DEF SlotHolders, HoldsRecord
    <3>2. inflight_events' = inflight_events
      BY <1>13, <2>4 DEF Unwind
    <3> QED
      BY <1>3, <1>4, <2>1, <3>1, <3>2
  <2>5. CASE p \in Producers
    <3>1. p \in SlotHolders
      BY <1>7, <1>13, <2>5 DEF Unwind
    <3>2. SlotHolders' = SlotHolders \ {p}
      BY <1>1, <2>3, <2>5 DEF SlotHolders, HoldsRecord
    <3>3. Cardinality(SlotHolders') = Cardinality(SlotHolders) - 1 /\ Cardinality(SlotHolders) > 0
      BY <1>5, <3>1, <3>2
    <3>4. inflight_events > 0
      BY <1>2, <1>3, <3>3 DEF One
    <3>5. inflight_events' = inflight_events - 1
      BY <1>1, <1>2, <1>13, <2>5, <3>4 DEF Unwind
    <3>6. inflight_events' = used'
      BY <1>2, <1>3, <2>1, <3>3, <3>5 DEF One
    <3>7. inflight_events' <= QueueLimit
      BY <1>2, <1>3, <3>5
    <3> QED
      BY <1>4, <3>6, <3>7
  <2> QED
    BY <2>4, <2>5, PostersFinite
<1>14. CASE DispatchEvent
  <2>1. EventCount(queue') + 1 = EventCount(queue) /\ EventCount(queue') \in Nat
    BY <1>1, <1>14, EventSteps DEF DispatchEvent, Dispatchable
  <2>2. UNCHANGED <<inflight_events, SlotHolders>>
    BY <1>14 DEF DispatchEvent, events, SlotHolders, HoldsRecord
  <2>3. ~InListener /\ InListener'
    BY <1>14 DEF DispatchEvent, Dispatchable, InListener, IInv, Shape, JsShape
  <2>4. One(InListener) = 0 /\ One(InListener)' = 1
    BY <2>3 DEF One
  <2>5. inflight_events' = used'
    BY <1>2, <1>3, <2>1, <2>2, <2>4
  <2> QED
    BY <1>3, <1>4, <2>2, <2>5
\* The JavaScript thread or the drain gives back the slot of an event it took.
<1>15. ASSUME EventCount(queue') + One(InListener)' + 1 = EventCount(queue) + One(InListener),
              EventCount(queue') \in Nat, releaseEventSlot(pc)
       PROVE  SlotsExact'
  <2>1. SlotHolders' = SlotHolders
    BY <1>1, <1>6, <1>7, <1>15 DEF releaseEventSlot
  <2>2. One(InListener) \in Nat /\ One(InListener)' \in Nat
    BY DEF One
  <2>3. inflight_events > 0
    BY <1>2, <1>3, <1>15, <2>2
  <2>4. inflight_events' = inflight_events - 1
    BY <1>2, <1>15, <2>3 DEF releaseEventSlot
  <2>5. inflight_events' = used'
    BY <1>2, <1>3, <1>15, <2>1, <2>2, <2>4
  <2>6. inflight_events' <= QueueLimit
    BY <1>2, <1>3, <2>4
  <2> QED
    BY <1>4, <2>5, <2>6
<1>16. CASE DispatchUnheard
  <2>1. EventCount(queue') + 1 = EventCount(queue) /\ EventCount(queue') \in Nat
    BY <1>1, <1>16, EventSteps DEF DispatchUnheard, Dispatchable
  <2>2. releaseEventSlot(pc) /\ (InListener' <=> InListener)
    BY <1>16 DEF DispatchUnheard, InListener, jsVars
  <2>3. EventCount(queue') + One(InListener)' + 1 = EventCount(queue) + One(InListener)
    BY <1>2, <2>1, <2>2 DEF One
  <2> QED
    BY <1>15, <2>1, <2>2, <2>3
<1>17. CASE ListenerReturns
  <2>1. queue' = queue /\ releaseEventSlot(pc) /\ InListener
    BY <1>17 DEF ListenerReturns, engine, InListener
  <2>2. ~InListener'
    BY <1>17 DEF ListenerReturns, InListener, IInv, Shape, JsShape
  <2>3. EventCount(queue') + One(InListener)' + 1 = EventCount(queue) + One(InListener)
    BY <1>2, <2>1, <2>2 DEF One
  <2> QED
    BY <1>2, <1>15, <2>1, <2>3
<1>18. CASE DrainItem
  <2>1. InListener' <=> InListener
    BY <1>18 DEF DrainItem, InListener, jsVars
  <2>2. CASE Head(queue) = "event" /\ releaseEventSlot(pc)
    <3>1. EventCount(queue') + 1 = EventCount(queue) /\ EventCount(queue') \in Nat
      BY <1>1, <1>18, <2>2, EventSteps DEF DrainItem
    <3>2. EventCount(queue') + One(InListener)' + 1 = EventCount(queue) + One(InListener)
      BY <1>2, <2>1, <3>1 DEF One
    <3> QED
      BY <1>15, <2>2, <3>1, <3>2
  <2>3. CASE Head(queue) = "completion" /\ UNCHANGED <<inflight_events, pc>>
    <3>1. EventCount(queue') = EventCount(queue)
      BY <1>1, <1>18, <2>3, EventSteps DEF DrainItem
    <3>2. SlotHolders' = SlotHolders
      BY <2>3 DEF SlotHolders, HoldsRecord
    <3> QED
      BY <1>3, <1>4, <2>1, <2>3, <3>1, <3>2 DEF One
  <2> QED
    BY <1>18, <2>2, <2>3 DEF DrainItem
<1> QED
  BY <1>8, <1>9, <1>11, <1>12, <1>13, <1>14, <1>16, <1>17, <1>18, SlotsQuiet DEF SlotMoves

-----------------------------------------------------------------------------
\* The steps the caller can tell apart, and what the other steps leave alone.
SeenMoves ==
  \/ \E p \in Posters : PushQueued(p)
  \/ SubmitAborted \/ SubmitRefused \/ SubmitUnwound \/ SpawnTask \/ SpawnControllerFails
  \/ TaskFinishes \/ DispatchUnheard \/ ListenerReturns \/ AbortRequests \/ FinishSettlement \/ TearDown

SeenKept ==
  /\ UNCHANGED <<accepted, delivered, listener_failed, cancel_requested, promise, env>>
  /\ task' = task \/ (task = "finished" /\ task' = "returned")

\* The other steps are invisible to the caller.
LEMMA ContractQuiet ==
  ASSUME Next
  PROVE  SeenKept \/ SeenMoves
<1> USE DEF SeenKept, jsVars, taskVars, ownership, word, engine, events, cancellation, reaping, listener,
        settlement, history
<1>1. ASSUME NEW p \in Producers, Emit(p) PROVE SeenKept \/ SeenMoves
  BY <1>1 DEF Emit, EmitBegins, Reserve, EmitFails, releaseEventSlot, EventRefused, ProducerStops
<1>2. ASSUME NEW p \in Posters, Post(p) PROVE SeenKept \/ SeenMoves
  <2>1. CASE Admit(p)
    BY <2>1 DEF Admit
  <2>2. CASE PushQueued(p)
    BY <2>2 DEF SeenMoves
  <2>3. CASE PushOnClosing(p)
    BY <2>3 DEF PushOnClosing
  <2>4. CASE PushFails(p)
    BY <2>4 DEF PushFails
  <2>5. CASE Leave(p)
    BY <2>5 DEF Leave, leaveDispatcherPush
  <2>6. CASE Unwind(p)
    BY <2>6 DEF Unwind
  <2> QED
    BY <1>2, <2>1, <2>2, <2>3, <2>4, <2>5, <2>6 DEF Post
<1>3. CASE Task
  BY <1>3 DEF Task, TaskFinishes, TaskReturns, SeenMoves
<1>4. CASE Control
  BY <1>4 DEF Control, ControllerChecks, ControllerDecides, ControllerJoins, taskJoined, CompletionRefused,
     ControllerReturns
<1>5. CASE Submit
  BY <1>5 DEF Submit, SubmitAborted, SubmitRefused, abandon, destroyJs, SubmitUnwound, SubmitReady, SpawnTask,
     SpawnTaskFails, SpawnController, SpawnControllerFails, SubmitJoins, taskJoined, SeenMoves
<1>6. CASE Settlement
  BY <1>6 DEF Settlement, Settle, destroyJs, settlementFor, ReleaseHandle, pushesReturned, FinishSettlement,
     settlementDrops, SeenMoves
<1>7. CASE Dispatch
  BY <1>7 DEF Dispatch, DispatchEvent, Dispatchable, DispatchCompletion, SeenMoves
<1>8. CASE Abort
  BY <1>8 DEF Abort, AbortBegins, AbortTooLate, AbortRequests, AbortWakes, SeenMoves
<1>9. CASE Engine
  BY <1>9 DEF Engine, HandleCloses, FinalizeBegins, FinalizeEnds, pushesReturned, finalizerRefs, handOver,
     DrainItem, releaseEventSlot, HandleDeleted
<1>10. CASE Reap
  BY <1>10 DEF Reap
<1>11. CASE ReleaseNative
  BY <1>11 DEF ReleaseNative
<1>12. CASE TearDown
  BY <1>12 DEF SeenMoves
<1> QED
  BY <1>1, <1>2, <1>3, <1>4, <1>5, <1>6, <1>7, <1>8, <1>9, <1>10, <1>11, <1>12 DEF Next

\* Every step is a step of the contract, or invisible in it.
LEMMA ContractStep ==
  ASSUME IInv, CInv, Next
  PROVE  [Contract!Next]_(Contract!vars)
<1> USE DEF Contract!Next, Contract!vars
<1>1. CASE SeenKept
  BY <1>1 DEF SeenKept
<1>2. ASSUME NEW p \in Posters, PushQueued(p) PROVE [Contract!Next]_(Contract!vars)
  <2>1. UNCHANGED <<task, delivered, listener_failed, cancel_requested, promise, env>>
    BY <1>2 DEF PushQueued, taskVars, listener, cancellation, settlement
  <2>2. CASE p = Controller
    BY <1>2, <2>1, <2>2 DEF PushQueued
  <2>3. CASE p \in Producers
    <3>1. task = "running" /\ accepted' = accepted + 1
      BY <1>2, <2>3, OperationAssumption DEF PushQueued, IInv, Shape, ProducerShape
    <3> QED
      BY <2>1, <3>1 DEF Contract!Emit
  <2> QED
    BY <2>2, <2>3, PostersFinite
<1>3. CASE SubmitAborted \/ SpawnControllerFails \/ AbortRequests
  <2>1. /\ UNCHANGED <<task, accepted, delivered, listener_failed, promise, env>> /\ cancel_requested'
        /\ js \in {"submit", "spawn_controller", "abort"}
    BY <1>3 DEF SubmitAborted, SpawnControllerFails, AbortRequests, taskVars, history,
        listener, settlement
  <2>2. env = "alive" /\ promise = "pending"
    BY <2>1 DEF CInv, JsLive
  <2>3. cancel_requested' = TRUE
    BY <1>3 DEF SubmitAborted, SpawnControllerFails, AbortRequests
  <2> QED
    BY <2>1, <2>2, <2>3 DEF Contract!Cancel
<1>4. CASE SubmitRefused \/ SubmitUnwound
  <2>1. /\ UNCHANGED <<task, accepted, delivered, listener_failed, cancel_requested, env>>
        /\ promise' = "discarded" /\ js = "submit"
    BY <1>4 DEF SubmitRefused, SubmitUnwound, abandon, taskVars, history, cancellation
  <2>2. env = "alive" /\ promise = "pending" /\ task = "off"
    BY <2>1 DEF CInv, JsLive, IInv, Shape, SpawnShape
  <2> QED
    BY <2>1, <2>2 DEF Contract!Discard
<1>5. CASE SpawnTask
  <2>1. UNCHANGED <<accepted, delivered, listener_failed, cancel_requested, promise, env>> /\ task' = "running"
    BY <1>5 DEF SpawnTask, history, listener, cancellation, settlement
  <2>2. promise = "pending" /\ task = "off"
    BY <1>5 DEF SpawnTask, CInv, JsLive, IInv, Shape, SpawnShape
  <2> QED
    BY <2>1, <2>2 DEF Contract!Start
<1>6. CASE TaskFinishes
  <2>1. UNCHANGED <<accepted, delivered, listener_failed, cancel_requested, promise, env>>
    BY <1>6 DEF TaskFinishes, history, listener, cancellation, settlement
  <2> QED
    BY <1>6, <2>1 DEF TaskFinishes, Contract!End
<1>7. CASE ListenerReturns
  <2>1. /\ UNCHANGED <<task, accepted, cancel_requested, promise, env>>
        /\ delivered' = delivered + 1 /\ listener_failed' \in {listener_failed, TRUE} /\ js = "listener"
    BY <1>7 DEF ListenerReturns, taskVars, cancellation, settlement
  <2>2. env = "alive" /\ promise = "pending"
    BY <2>1 DEF CInv, JsLive
  <2>3. delivered < accepted
    <3>1. EventCount(queue) \in Nat /\ delivered \in Nat /\ accepted \in Nat
      BY EventSteps DEF IInv, TypeOK, FieldsOK
    <3>2. delivered + EventCount(queue) + 1 <= accepted
      BY <2>1 DEF CInv, DeliveryShape, InListener, One
    <3> QED
      BY <3>1, <3>2
  <2> QED
    BY <2>1, <2>2, <2>3 DEF Contract!Deliver
<1>8. CASE FinishSettlement
  <2>1. /\ UNCHANGED <<task, accepted, delivered, listener_failed, cancel_requested, env>>
        /\ js = "finish" /\ promise' \in settledWith
    BY <1>8 DEF FinishSettlement, taskVars, history, listener, cancellation
  <2>2. env = "alive" /\ promise = "pending"
    BY <2>1 DEF CInv, JsLive
  <2>3. task # "running"
    BY <2>1 DEF CInv, TornShape, Torn
  <2>4. outcome = settlementFor /\ (cancel_requested \/ delivered = accepted)
    BY <2>1 DEF CInv, OutcomeShape
  <2>5. cancel_dispatched => cancel_requested
    BY DEF CInv, ControllerShape
  <2>6. ~cancel_requested /\ result # "error" => task \notin {"off", "running"}
    BY <2>1 DEF CInv, StartShape, ControllerShape, IInv, Shape, JsShape
  <2>7. promise' \in IF listener_failed THEN {"listener"}
                     ELSE IF cancel_requested THEN {"abort"}
                     ELSE IF task \notin {"off", "running"} THEN {"error", "resolved"}
                     ELSE {"error"}
    BY <2>1, <2>4, <2>5, <2>6 DEF settlementFor, settledWith
  <2> QED
    BY <2>1, <2>2, <2>3, <2>4, <2>7 DEF Contract!Settle
<1>9. CASE TearDown \/ DispatchUnheard
  <2>1. UNCHANGED <<task, accepted, delivered, listener_failed, cancel_requested, promise>>
    BY <1>9 DEF TearDown, DispatchUnheard, taskVars, history, listener, cancellation, settlement
  <2>2. CASE env' = env
    BY <2>1, <2>2
  <2>3. CASE env' # env
    BY <1>9, <2>1, <2>3 DEF TearDown, DispatchUnheard, Dispatchable, Contract!TearDown
  <2> QED
    BY <2>2, <2>3
<1> QED
  BY <1>1, <1>2, <1>3, <1>4, <1>5, <1>6, <1>7, <1>8, <1>9, ContractQuiet DEF SeenMoves

-----------------------------------------------------------------------------
\* The invariant that all of these facts make together.
Invariants == IInv /\ CInv /\ SlotsExact

\* create leaves an operation that satisfies it.
LEMMA InitInvariants == Init => Invariants
<1> SUFFICES ASSUME Init PROVE Invariants
  OBVIOUS
<1>1. IInv
  BY InitInvariant
<1>2. /\ queue = <<>> /\ delivered = 0 /\ accepted = 0 /\ inflight_events = 0 /\ ~Torn /\ ~InListener
      /\ \A p \in Producers : pc[p] = "user"
      /\ pc[Controller] = "off"
  BY PostersFinite, OperationAssumption DEF Init, Torn, InListener
<1>3. ~HasCompletion /\ CompletionLast
  BY <1>2 DEF HasCompletion, CompletionLast
<1>4. EventCount(queue) = 0
  BY <1>1, <1>2, EventSteps DEF IInv, TypeOK, FieldsOK
<1>5. Cardinality(SlotHolders) = 0
  <2>1. SlotHolders = {}
    BY <1>2 DEF SlotHolders, HoldsRecord
  <2> QED
    BY <2>1, FS_EmptySet
<1>6. SlotsExact
  <2>1. inflight_events = Cardinality(SlotHolders) + EventCount(queue) + One(InListener)
    BY <1>2, <1>4, <1>5 DEF One
  <2>2. inflight_events <= QueueLimit
    BY <1>2, OperationAssumption
  <2> QED
    BY <2>1, <2>2 DEF SlotsExact, SlotHolders, EventCount, QueuedEvents
<1>7. JsLive /\ StartShape /\ ControllerShape /\ TornShape
  BY <1>2, <1>3 DEF Init, JsLive, StartShape, ControllerShape, TornShape
<1>8. ReleasedShape /\ OutcomeShape
  BY <1>2, <1>3 DEF Init, ReleasedShape, OutcomeShape
<1>9. DeliveryShape
  BY <1>2, <1>4 DEF DeliveryShape, One
<1> QED
  BY <1>1, <1>6, <1>7, <1>8, <1>9 DEF Invariants, CInv

\* No step of any actor breaks it.
LEMMA StepInvariants == Invariants /\ [Next]_vars => Invariants'
<1> SUFFICES ASSUME Invariants, [Next]_vars PROVE Invariants'
  OBVIOUS
<1>1. IInv /\ CInv /\ SlotsExact /\ IInv'
  BY StepInvariant DEF Invariants
<1>2. CASE Next
  <2>1. SlotsExact'
    BY <1>1, <1>2, SlotsStep
  <2>2. CInv'
    BY <1>1, <1>2, JsLiveStep, StartShapeStep, ControllerShapeStep, TornShapeStep, ReleasedShapeStep,
       DeliveryShapeStep, OutcomeShapeStep DEF CInv
  <2> QED
    BY <1>1, <2>1, <2>2 DEF Invariants
<1>3. CASE UNCHANGED vars
  <2> USE <1>1, <1>3 DEF vars, jsVars, taskVars, engine, events, cancellation, reaping, listener, settlement, history,
                          CInv, Torn, Finalized, InListener
  <2>1. SlotsExact'
    BY DEF SlotsExact, HoldsRecord
  <2>2. (HasCompletion' <=> HasCompletion) /\ (CompletionLast' <=> CompletionLast)
    BY DEF HasCompletion, CompletionLast
  <2>3. JsLive' /\ StartShape' /\ ControllerShape' /\ TornShape'
    BY <2>2 DEF JsLive, StartShape, ControllerShape, TornShape
  <2>4. ReleasedShape' /\ OutcomeShape'
    BY <2>2 DEF ReleasedShape, OutcomeShape, settlementFor
  <2>5. DeliveryShape'
    BY DEF DeliveryShape
  <2> QED
    BY <2>1, <2>3, <2>4, <2>5 DEF Invariants
<1> QED
  BY <1>2, <1>3

LEMMA AllInvariants == Spec => []Invariants
BY InitInvariants, StepInvariants, PTL DEF Spec

\* The accounts of the operation are exact: an abort event finds an operation
\* that still has a reference, the dispatcher word counts the pushes, the slots in
\* use are those of the events on their way, at most QueueLimit, and the
\* controller's future is consumed before the operation is freed.
THEOREM AccountsExact == Spec => []Bookkeeping
<1>1. Invariants => Bookkeeping
  <2> SUFFICES ASSUME Invariants PROVE Bookkeeping
    OBVIOUS
  <2>1. /\ ref_count = JsOwners + ThreadOwners + RecordOwners
        /\ JsOwners \in Nat /\ ThreadOwners \in Nat /\ RecordOwners \in Nat
    BY OwnersNatural DEF Invariants, IInv, RefCountExact, Owners
  <2>2. InitialOwner => ref_count > 0
    <3>1. InitialOwner => JsOwners > 0
      BY DEF JsOwners, One
    <3> QED
      BY <2>1, <3>1
  <2>3. reap = "queued" => ref_count > 0
    <3>1. reap = "queued" => ThreadOwners > 0
      BY DEF ThreadOwners, One
    <3> QED
      BY <2>1, <3>1
  <2>4. AbortFindsOperation
    <3> SUFFICES ASSUME js \in {"idle", "listener"}, env = "alive", registration PROVE InitialOwner
      BY <2>2 DEF AbortFindsOperation
    <3>1. ~Torn
      BY DEF Invariants, CInv, TornShape
    <3>2. jsReturn # "unstarted"
      BY DEF Invariants, IInv, Shape, JsShape
    <3> QED
      BY <3>1, <3>2 DEF Invariants, CInv, StartShape, InitialOwner
  <2>5. FutureNotLeaked
    <3> SUFFICES ASSUME ref_count = 0, controller_future = "live" PROVE FALSE
      BY DEF FutureNotLeaked
    <3>1. handle \notin {"none", "open", "closing"} /\ reap # "queued"
      BY <2>1, <2>2, <2>3 DEF InitialOwner, Invariants, CInv, ReleasedShape
    <3>2. Finalized
      BY <3>1 DEF Invariants, IInv, TypeOK, FieldsOK, Finalized
    <3> QED
      BY <3>1, <3>2 DEF Invariants, CInv, ReleasedShape
  <2> QED
    BY <2>4, <2>5 DEF Bookkeeping, Invariants, IInv
<1> QED
  BY <1>1, AllInvariants, PTL

\* Nothing follows the settlement: the completion is the last record of the queue,
\* posted when no producer can emit any more, and a promise that the controller
\* settled has every accepted event behind it, whatever failed.
THEOREM NothingFollowsSettlement == Spec => []SettlementIsLast
<1>1. Invariants => SettlementIsLast
  <2> SUFFICES ASSUME Invariants PROVE SettlementIsLast
    OBVIOUS
  <2>1. HasCompletion => task = "returned" /\ \A p \in Producers : pc[p] = "stopped"
    BY DEF Invariants, CInv, ControllerShape
  <2>2. CompletionIsLast
    BY <2>1 DEF CompletionIsLast, HasCompletion, CompletionLast, Invariants, CInv, ControllerShape
  <2> QED
    BY <2>2 DEF SettlementIsLast, Invariants, CInv, OutcomeShape
<1> QED
  BY <1>1, AllInvariants, PTL

\* The operation implements the contract of an asynchronous task: what the caller
\* can see of submit, emits, deliveries, aborts, settlement and teardown is a
\* behaviour of AsyncTask, whatever the other threads do.
THEOREM OperationImplementsContract == Spec => ImplementsContract
<1>1. Init => Contract!Init
  BY DEF Init, Contract!Init
<1>2. Invariants /\ [Next]_vars => [Contract!Next]_(Contract!vars)
  <2> SUFFICES ASSUME Invariants, [Next]_vars PROVE [Contract!Next]_(Contract!vars)
    OBVIOUS
  <2>1. CASE Next
    BY <2>1, ContractStep DEF Invariants
  <2>2. CASE UNCHANGED vars
    BY <2>2 DEF vars, taskVars, listener, cancellation, settlement, history, Contract!vars
  <2> QED
    BY <2>1, <2>2
<1> QED
  BY <1>1, <1>2, AllInvariants, PTL DEF Spec, ImplementsContract, Contract!Spec

-----------------------------------------------------------------------------
(* Who waits, and for whom.                                                *)

\* The producers that will look for a slot.
Reservers == {p \in Producers : pc[p] = "reserve"}

\* No wake-up is lost: a producer sleeps only while the queue is open, no abort is
\* over, and the slots in use and the producers that look for one cover the limit.
SleepShape ==
  Asleep(pc) # {} =>
    /\ ~queue_closed
    /\ cancel_token => js \in {"abort", "abort_wake"}
    /\ cancel_token \/ QueueLimit <= inflight_events + Cardinality(Reservers)

\* Nor is one of the controller, and who joins the task does so when it is told to end.
WaitShape ==
  /\ pc[Controller] = "wait" => task # "returned" /\ (cancel_requested => js = "abort_wake")
  /\ pc[Controller] = "decide" => task_finished \/ cancel_requested
  /\ pc[Controller] = "join" => task_finished
  /\ task_finished <=> task \in {"finished", "returned"}
  /\ js = "join" \/ reap = "queued" \/ Finalized => queue_closed
  /\ handle = "open" => env = "alive"
  /\ controller_future = "live" => pc[Controller] # "off"

\* Waking leaves nobody asleep.
LEMMA WokenNone ==
  ASSUME NEW f \in [Posters -> PosterStates]
  PROVE  Asleep(Woken(f)) = {}
BY PostersFinite DEF Woken, Asleep

\* Signalling a producer leaves the controller where it is.
LEMMA SignalledController ==
  ASSUME NEW f \in [Posters -> PosterStates], NEW g \in Signalled(f)
  PROVE  g[Controller] = f[Controller]
BY PostersFinite, OperationAssumption DEF Signalled, Asleep

\* The sets that the sleepers' invariant counts.
LEMMA ReserversFinite ==
  /\ IsFiniteSet(Reservers) /\ Cardinality(Reservers) \in Nat
<1>1. IsFiniteSet(Reservers)
  BY OperationAssumption, FS_Subset DEF Reservers
<1> QED
  BY <1>1, FS_CardinalityType

\* Steps after which nobody sleeps that did not before, nobody stopped looking for a
\* slot, and no reason to wake up came.
SleepKept ==
  /\ Asleep(pc') \subseteq Asleep(pc) /\ Reservers \subseteq Reservers'
  /\ UNCHANGED <<inflight_events, queue_closed, cancel_token>>
  /\ js \in {"abort", "abort_wake"} => js' \in {"abort", "abort_wake"}

\* Steps that give a slot back and signal.
SlotReleased ==
  \E f \in [Posters -> PosterStates] :
    /\ releaseEventSlot(f) /\ Asleep(f) = Asleep(pc)
    /\ \A p \in Producers : f[p] = "reserve" <=> pc[p] = "reserve"
    /\ UNCHANGED <<queue_closed, cancel_token>>
    /\ js \in {"abort", "abort_wake"} => js' \in {"abort", "abort_wake"}

SleepMoves ==
  \/ SleepKept
  \/ SlotReleased
  \/ \E p \in Producers : Reserve(p)
  \/ AbortBegins
  \/ Asleep(pc') = {}

\* Every step is one of these.
LEMMA SleepQuiet ==
  ASSUME IInv, WaitShape, Next
  PROVE  SleepMoves
<1> USE PostersFinite, OperationAssumption, WokenNone DEF IInv, TypeOK, FieldsOK, Shape, JsShape, SpawnShape,
        ProducerShape, SleepMoves, SleepKept, Asleep, Reservers, jsVars, taskVars, ownership, word,
        engine, events, cancellation, reaping, listener, settlement, history
<1>0. task # "running" => Asleep(pc) = {}
  OBVIOUS
<1>1. ASSUME NEW p \in Producers, Emit(p) PROVE SleepMoves
  <2>1. CASE EmitBegins(p)
    BY <2>1 DEF EmitBegins
  <2>2. CASE Reserve(p)
    BY <2>2
  <2>3. ASSUME pc[p] = "admit", releaseEventSlot([pc EXCEPT ![p] = "user"]), UNCHANGED <<js, queue_closed, cancel_token>>
        PROVE  SlotReleased
    <3> DEFINE f == [pc EXCEPT ![p] = "user"]
    <3>1. f \in [Posters -> PosterStates]
      BY DEF PosterStates
    <3>2. /\ releaseEventSlot(f) /\ Asleep(f) = Asleep(pc)
          /\ \A s \in Producers : f[s] = "reserve" <=> pc[s] = "reserve"
      BY <2>3
    <3> QED
      BY <2>3, <3>1, <3>2 DEF SlotReleased
  <2>4. CASE EmitFails(p)
    BY <2>3, <2>4 DEF EmitFails
  <2>5. CASE EventRefused(p)
    BY <2>3, <2>5 DEF EventRefused
  <2>6. CASE ProducerStops(p)
    BY <2>6 DEF ProducerStops
  <2> QED
    BY <1>1, <2>1, <2>2, <2>4, <2>5, <2>6 DEF Emit
<1>2. ASSUME NEW p \in Posters, Post(p) PROVE SleepMoves
  <2>1. CASE Admit(p)
    BY <2>1 DEF Admit
  <2>2. CASE PushQueued(p)
    BY <2>2 DEF PushQueued
  <2>3. CASE PushOnClosing(p)
    BY <2>3 DEF PushOnClosing
  <2>4. CASE PushFails(p)
    BY <2>4 DEF PushFails
  <2>5. CASE Leave(p)
    BY <2>5 DEF Leave, leaveDispatcherPush
  <2>6. CASE Unwind(p)
    <3>1. [pc EXCEPT ![p] = IF p = Controller THEN "end" ELSE "user"] \in [Posters -> PosterStates]
      BY DEF PosterStates
    <3> QED
      BY <2>6, <3>1 DEF Unwind
  <2> QED
    BY <1>2, <2>1, <2>2, <2>3, <2>4, <2>5, <2>6 DEF Post
<1>3. CASE Task
  <2>1. CASE TaskFinishes
    BY <2>1 DEF TaskFinishes
  <2>2. CASE TaskReturns
    BY <2>2 DEF TaskReturns, ControllerWoken
  <2> QED
    BY <1>3, <2>1, <2>2 DEF Task
<1>4. CASE Control
  <2>1. CASE ControllerChecks
    BY <2>1 DEF ControllerChecks
  <2>2. CASE ControllerDecides
    BY <2>2 DEF ControllerDecides
  <2>3. CASE ControllerJoins
    BY <2>3 DEF ControllerJoins, taskJoined
  <2>4. CASE CompletionRefused
    <3>1. [pc EXCEPT ![Controller] = "end"] \in [Posters -> PosterStates]
      BY DEF PosterStates
    <3> QED
      BY <2>4, <3>1 DEF CompletionRefused
  <2>5. CASE ControllerReturns
    BY <2>5 DEF ControllerReturns
  <2> QED
    BY <1>4, <2>1, <2>2, <2>3, <2>4, <2>5 DEF Control
<1>5. CASE Submit
  <2>1. CASE SubmitAborted
    BY <1>0, <2>1 DEF SubmitAborted
  <2>2. CASE SubmitRefused
    BY <1>0, <2>2 DEF SubmitRefused
  <2>3. CASE SubmitUnwound
    BY <1>0, <2>3 DEF SubmitUnwound
  <2>4. CASE SubmitReady
    BY <2>4 DEF SubmitReady
  <2>5. CASE SpawnTask
    BY <2>5 DEF SpawnTask
  <2>6. CASE SpawnTaskFails
    BY <2>6 DEF SpawnTaskFails
  <2>7. CASE SpawnController
    BY <2>7 DEF SpawnController
  <2>8. CASE SpawnControllerFails
    BY <2>8 DEF SpawnControllerFails
  <2>9. CASE SubmitJoins
    BY <2>9 DEF SubmitJoins, taskJoined
  <2> QED
    BY <1>5, <2>1, <2>2, <2>3, <2>4, <2>5, <2>6, <2>7, <2>8, <2>9 DEF Submit
<1>6. CASE Settlement
  <2>1. CASE Settle
    BY <2>1 DEF Settle
  <2>2. CASE ReleaseHandle
    BY <2>2 DEF ReleaseHandle, pushesReturned
  <2>3. CASE FinishSettlement
    BY <2>3 DEF FinishSettlement, settlementDrops
  <2> QED
    BY <1>6, <2>1, <2>2, <2>3 DEF Settlement
<1>7. CASE Dispatch
  <2>1. CASE DispatchEvent
    BY <2>1 DEF DispatchEvent, Dispatchable
  <2>2. CASE DispatchUnheard
    BY <2>2 DEF DispatchUnheard, SlotReleased
  <2>3. CASE ListenerReturns
    BY <2>3 DEF ListenerReturns, SlotReleased
  <2>4. CASE DispatchCompletion
    BY <2>4 DEF DispatchCompletion, Dispatchable
  <2> QED
    BY <1>7, <2>1, <2>2, <2>3, <2>4 DEF Dispatch
<1>8. CASE Abort
  <2>1. CASE AbortTooLate
    BY <1>0, <2>1 DEF AbortTooLate, WaitShape
  <2>2. CASE AbortRequests
    BY <2>2 DEF AbortRequests
  <2>3. CASE AbortWakes
    <3>1. ControllerWoken(pc) \in [Posters -> PosterStates]
      BY DEF ControllerWoken, PosterStates
    <3> QED
      BY <2>3, <3>1 DEF AbortWakes
  <2> QED
    BY <1>8, <2>1, <2>2, <2>3 DEF Abort
<1>9. CASE Engine
  <2>1. CASE HandleCloses
    BY <2>1 DEF HandleCloses
  <2>2. CASE FinalizeBegins
    BY <2>2 DEF FinalizeBegins
  <2>3. CASE FinalizeEnds
    BY <2>3 DEF FinalizeEnds
  <2>4. CASE DrainItem
    BY <2>4 DEF DrainItem, SlotReleased
  <2>5. CASE HandleDeleted
    BY <2>5 DEF HandleDeleted
  <2> QED
    BY <1>9, <2>1, <2>2, <2>3, <2>4, <2>5 DEF Engine
<1>10. CASE Reap
  BY <1>10 DEF Reap
<1>11. CASE ReleaseNative
  BY <1>11 DEF ReleaseNative
<1>12. CASE TearDown
  BY <1>12 DEF TearDown
<1> QED
  BY <1>1, <1>2, <1>3, <1>4, <1>5, <1>6, <1>7, <1>8, <1>9, <1>10, <1>11, <1>12 DEF Next
\* No wake-up is lost by any step.
LEMMA SleepStep ==
  ASSUME IInv, SleepShape, SleepMoves
  PROVE  SleepShape'
<1> DEFINE free == inflight_events + Cardinality(Reservers)
<1>1. /\ pc \in [Posters -> PosterStates] /\ inflight_events \in Nat /\ QueueLimit \in Nat \ {0}
      /\ \A p \in Producers : p \in Posters /\ p # Controller
  BY OperationAssumption DEF IInv, TypeOK, FieldsOK, Posters
<1>2. IsFiniteSet(Reservers) /\ Cardinality(Reservers) \in Nat
  BY ReserversFinite
<1>3. Reservers' \subseteq Producers /\ IsFiniteSet(Reservers') /\ Cardinality(Reservers') \in Nat
  <2>1. Reservers' \subseteq Producers
    BY DEF Reservers
  <2> QED
    BY <2>1, OperationAssumption, FS_Subset, FS_CardinalityType
<1>4. CASE SleepKept
  <2>1. Cardinality(Reservers) <= Cardinality(Reservers')
    BY <1>3, <1>4, FS_Subset DEF SleepKept
  <2>2. QueueLimit <= free => QueueLimit <= free'
    BY <1>1, <1>2, <1>3, <1>4, <2>1 DEF SleepKept
  <2> QED
    BY <1>4, <2>2 DEF SleepShape, SleepKept
<1>5. CASE SlotReleased
  <2>1. PICK f \in [Posters -> PosterStates] :
          /\ releaseEventSlot(f) /\ Asleep(f) = Asleep(pc)
          /\ \A p \in Producers : f[p] = "reserve" <=> pc[p] = "reserve"
          /\ UNCHANGED <<queue_closed, cancel_token>>
          /\ js \in {"abort", "abort_wake"} => js' \in {"abort", "abort_wake"}
    BY <1>5 DEF SlotReleased
  <2>2. CASE Asleep(f) = {}
    BY <2>1, <2>2 DEF releaseEventSlot, Signalled, SleepShape
  <2>3. CASE Asleep(f) # {}
    <3>1. PICK p \in Asleep(f) : pc' = [f EXCEPT ![p] = "reserve"]
      BY <2>1, <2>3 DEF releaseEventSlot, Signalled
    <3>2. p \in Producers /\ p \notin Reservers
      BY <2>1, <3>1 DEF Asleep, Reservers
    <3>3. Reservers' = Reservers \cup {p}
      BY <1>1, <2>1, <3>1, <3>2 DEF Reservers
    <3>4. Cardinality(Reservers') = Cardinality(Reservers) + 1
      BY <1>2, <3>2, <3>3, FS_AddElement
    <3>5. inflight_events' >= inflight_events - 1 /\ inflight_events' \in Nat
      BY <1>1, <2>1 DEF releaseEventSlot
    <3>6. QueueLimit <= free => QueueLimit <= free'
      BY <1>1, <1>2, <3>4, <3>5
    <3>7. Asleep(pc) # {}
      BY <2>1, <2>3
    <3> QED
      BY <2>1, <3>6, <3>7 DEF SleepShape
  <2> QED
    BY <2>2, <2>3
<1>6. ASSUME NEW p \in Producers, Reserve(p) PROVE SleepShape'
  <2>1. CASE queue_closed \/ cancel_token
    <3>1. pc' = [pc EXCEPT ![p] = "user"] /\ UNCHANGED <<js, queue_closed, cancel_token>>
      BY <1>6, <2>1 DEF Reserve, jsVars, cancellation
    <3>2. Asleep(pc') \subseteq Asleep(pc)
      BY <1>1, <3>1 DEF Asleep
    <3> QED
      BY <2>1, <3>1, <3>2 DEF SleepShape
  <2>2. CASE ~queue_closed /\ ~cancel_token /\ inflight_events < QueueLimit
    <3>1. /\ pc' = [pc EXCEPT ![p] = "admit"] /\ inflight_events' = inflight_events + 1
          /\ UNCHANGED <<queue_closed, cancel_token>>
      BY <1>1, <1>6, <2>2 DEF Reserve, cancellation
    <3>2. Asleep(pc') \subseteq Asleep(pc)
      BY <1>1, <3>1 DEF Asleep
    <3>3. p \in Reservers /\ Reservers' = Reservers \ {p}
      BY <1>1, <1>6, <3>1 DEF Reserve, Reservers
    <3>4. Cardinality(Reservers') = Cardinality(Reservers) - 1
      BY <1>2, <3>3, FS_RemoveElement
    <3>5. free' = free
      BY <1>1, <1>2, <3>1, <3>4
    <3> QED
      BY <2>2, <3>1, <3>2, <3>5 DEF SleepShape
  <2>3. CASE ~queue_closed /\ ~cancel_token /\ inflight_events >= QueueLimit
    <3>1. UNCHANGED <<inflight_events, queue_closed, cancel_token>>
      BY <1>1, <1>6, <2>3 DEF Reserve, cancellation
    <3>2. QueueLimit <= free'
      BY <1>1, <1>3, <2>3, <3>1
    <3> QED
      BY <2>3, <3>1, <3>2 DEF SleepShape
  <2> QED
    BY <1>1, <2>1, <2>2, <2>3
<1>7. CASE AbortBegins
  <2>1. pc' = pc /\ js' = "abort" /\ cancel_token' /\ queue_closed' = queue_closed
    BY <1>7 DEF AbortBegins, events
  <2> QED
    BY <2>1 DEF SleepShape
<1>8. CASE Asleep(pc') = {}
  BY <1>8 DEF SleepShape
<1> QED
  BY <1>4, <1>5, <1>6, <1>7, <1>8 DEF SleepMoves

\* Nobody else waits for what has already happened.
LEMMA WaitShapeStep ==
  ASSUME IInv, CInv, WaitShape, Next
  PROVE  WaitShape'
<1> USE PostersFinite, OperationAssumption DEF IInv, TypeOK, FieldsOK, Shape, JsShape, SpawnShape, ReapShape,
        JsLive, CInv, WaitShape, Finalized, Asleep, jsVars, taskVars, ownership, word,
        engine, events, cancellation, reaping, listener, settlement, history
<1>1. ASSUME NEW p \in Producers, Emit(p) PROVE WaitShape'
  <2>0. [pc EXCEPT ![p] = "user"] \in [Posters -> PosterStates]
    BY DEF PosterStates
  <2>1. CASE EmitBegins(p)
    BY <2>1 DEF EmitBegins
  <2>2. CASE Reserve(p)
    BY <2>2 DEF Reserve
  <2>3. CASE EmitFails(p)
    BY <2>3, <2>0, SignalledController DEF EmitFails, releaseEventSlot
  <2>4. CASE EventRefused(p)
    BY <2>4, <2>0, SignalledController DEF EventRefused, releaseEventSlot
  <2>5. CASE ProducerStops(p)
    BY <2>5 DEF ProducerStops
  <2> QED
    BY <1>1, <2>1, <2>2, <2>3, <2>4, <2>5 DEF Emit
<1>2. ASSUME NEW p \in Posters, Post(p) PROVE WaitShape'
  <2>1. CASE Admit(p)
    BY <2>1 DEF Admit
  <2>2. CASE PushQueued(p)
    BY <2>2 DEF PushQueued
  <2>3. CASE PushOnClosing(p)
    BY <2>3 DEF PushOnClosing
  <2>4. CASE PushFails(p)
    BY <2>4 DEF PushFails
  <2>5. CASE Leave(p)
    BY <2>5 DEF Leave, leaveDispatcherPush
  <2>6. CASE Unwind(p)
    BY <2>6 DEF Unwind, Woken
  <2> QED
    BY <1>2, <2>1, <2>2, <2>3, <2>4, <2>5, <2>6 DEF Post
<1>3. CASE Task
  <2>1. CASE TaskFinishes
    BY <2>1 DEF TaskFinishes
  <2>2. CASE TaskReturns
    BY <2>2 DEF TaskReturns, ControllerWoken
  <2> QED
    BY <1>3, <2>1, <2>2 DEF Task
<1>4. CASE Control
  <2>1. CASE ControllerChecks
    BY <2>1 DEF ControllerChecks
  <2>2. CASE ControllerDecides
    BY <2>2 DEF ControllerDecides
  <2>3. CASE ControllerJoins
    BY <2>3 DEF ControllerJoins, taskJoined
  <2>4. CASE CompletionRefused
    BY <2>4 DEF CompletionRefused, Woken
  <2>5. CASE ControllerReturns
    BY <2>5 DEF ControllerReturns
  <2> QED
    BY <1>4, <2>1, <2>2, <2>3, <2>4, <2>5 DEF Control
<1>5. CASE Submit
  <2>1. CASE SubmitAborted
    BY <2>1 DEF SubmitAborted
  <2>2. CASE SubmitRefused
    BY <2>2 DEF SubmitRefused, abandon, destroyJs
  <2>3. CASE SubmitUnwound
    BY <2>3 DEF SubmitUnwound, abandon, destroyJs
  <2>4. CASE SubmitReady
    BY <2>4 DEF SubmitReady
  <2>5. CASE SpawnTask
    BY <2>5 DEF SpawnTask
  <2>6. CASE SpawnTaskFails
    BY <2>6 DEF SpawnTaskFails
  <2>7. CASE SpawnController
    BY <2>7 DEF SpawnController
  <2>8. CASE SpawnControllerFails
    BY <2>8 DEF SpawnControllerFails, Woken
  <2>9. CASE SubmitJoins
    BY <2>9 DEF SubmitJoins, taskJoined
  <2> QED
    BY <1>5, <2>1, <2>2, <2>3, <2>4, <2>5, <2>6, <2>7, <2>8, <2>9 DEF Submit
<1>6. CASE Settlement
  <2>1. CASE Settle
    BY <2>1 DEF Settle, destroyJs, Woken
  <2>2. CASE ReleaseHandle
    BY <2>2 DEF ReleaseHandle, pushesReturned
  <2>3. CASE FinishSettlement
    BY <2>3 DEF FinishSettlement, settlementDrops
  <2> QED
    BY <1>6, <2>1, <2>2, <2>3 DEF Settlement
<1>7. CASE Dispatch
  <2>1. CASE DispatchEvent
    BY <2>1 DEF DispatchEvent, Dispatchable
  <2>2. CASE DispatchUnheard
    BY <2>2, SignalledController DEF DispatchUnheard, releaseEventSlot
  <2>3. CASE ListenerReturns
    BY <2>3, SignalledController DEF ListenerReturns, releaseEventSlot
  <2>4. CASE DispatchCompletion
    BY <2>4 DEF DispatchCompletion, Dispatchable
  <2> QED
    BY <1>7, <2>1, <2>2, <2>3, <2>4 DEF Dispatch
<1>8. CASE Abort
  <2>1. CASE AbortBegins
    BY <2>1 DEF AbortBegins
  <2>2. CASE AbortTooLate
    BY <2>2 DEF AbortTooLate
  <2>3. CASE AbortRequests
    BY <2>3 DEF AbortRequests
  <2>4. CASE AbortWakes
    BY <2>4 DEF AbortWakes, ControllerWoken, Woken
  <2> QED
    BY <1>8, <2>1, <2>2, <2>3, <2>4 DEF Abort
<1>9. CASE Engine
  <2>1. CASE HandleCloses
    BY <2>1 DEF HandleCloses
  <2>2. CASE FinalizeBegins
    BY <2>2 DEF FinalizeBegins
  <2>3. CASE FinalizeEnds
    BY <2>3 DEF FinalizeEnds, Woken
  <2>4. CASE DrainItem
    BY <2>4, SignalledController DEF DrainItem, releaseEventSlot
  <2>5. CASE HandleDeleted
    BY <2>5 DEF HandleDeleted
  <2> QED
    BY <1>9, <2>1, <2>2, <2>3, <2>4, <2>5 DEF Engine
<1>10. CASE Reap
  BY <1>10 DEF Reap
<1>11. CASE ReleaseNative
  BY <1>11 DEF ReleaseNative, Woken
<1>12. CASE TearDown
  BY <1>12 DEF TearDown
<1> QED
  BY <1>1, <1>2, <1>3, <1>4, <1>5, <1>6, <1>7, <1>8, <1>9, <1>10, <1>11, <1>12 DEF Next
\* Nobody waits in vain.  A sleeping producer has another one on its way to the
\* queue or out of it, a JavaScript thread that runs its listener or an abort, an
\* event that can be dispatched, or a finalizer that will wake it; the controller
\* waits for a task that will signal it or joins one that was told to end; and what
\* the JavaScript thread waits for - the task of a failed submit, the controller
\* of a settlement, the pushes of a release - does not wait for that thread.
EveryWaitIsServed ==
  /\ Asleep(pc) # {} =>
       \/ \E p \in Producers : pc[p] \in {"reserve", "admit"} \/ HoldsRecord(p)
       \/ js \in {"spawn_controller", "listener", "abort", "abort_wake"}
       \/ Dispatchable("event")
       \/ handle = "closing" /\ js \in {"idle", "finalize"}
  /\ pc[Controller] = "wait" => task \in {"running", "finished"} /\ (cancel_requested => js = "abort_wake")
  /\ pc[Controller] = "join" => task \in {"finished", "returned"}
  /\ js = "join" \/ reap = "queued" => Asleep(pc) = {}
  /\ js = "settle" /\ controller_future = "live" /\ ~claimed => pc[Controller] \in {"sent", "end", "returned"}
  /\ js = "finalize" => closing

\* No wake-up of the event queue or of the controller is lost, and every wait is
\* served, for any number of producers and any limit: the safety half of
\* PromiseSettles and OperationFreed.
THEOREM NoWakeUpLost == Spec => [](SleepShape /\ EveryWaitIsServed)
<1>1. Init => SleepShape /\ WaitShape
  <2> SUFFICES ASSUME Init PROVE SleepShape /\ WaitShape
    OBVIOUS
  <2>1. Asleep(pc) = {} /\ pc[Controller] = "off"
    BY PostersFinite, OperationAssumption DEF Init, Asleep
  <2> QED
    BY <2>1 DEF Init, SleepShape, WaitShape, Finalized
<1>2. Invariants /\ SleepShape /\ WaitShape /\ [Next]_vars => SleepShape' /\ WaitShape'
  <2>1. CASE Next
    BY <2>1, SleepQuiet, SleepStep, WaitShapeStep DEF Invariants
  <2>2. CASE UNCHANGED vars
    BY <2>2 DEF SleepShape, WaitShape, Finalized, Asleep, Reservers, vars, jsVars, taskVars, engine, events,
                cancellation, reaping
  <2> QED
    BY <2>1, <2>2
<1>3. ASSUME Invariants, SleepShape, WaitShape PROVE EveryWaitIsServed
  <2>1. IInv /\ CInv /\ SlotsExact
    BY <1>3 DEF Invariants
  <2>2. /\ pc[Controller] = "wait" => task \in {"running", "finished"} /\ (cancel_requested => js = "abort_wake")
        /\ pc[Controller] = "join" => task \in {"finished", "returned"}
    <3>1. pc[Controller] \in {"wait", "join"} => task # "off"
      BY <2>1 DEF IInv, Shape, SpawnShape
    <3> QED
      BY <1>3, <2>1, <3>1 DEF WaitShape, IInv, TypeOK, FieldsOK
  <2>3. js = "join" \/ reap = "queued" => Asleep(pc) = {}
    BY <1>3 DEF SleepShape, WaitShape
  <2>4. js = "settle" /\ controller_future = "live" /\ ~claimed => pc[Controller] \in {"sent", "end", "returned"}
    <3> SUFFICES ASSUME js = "settle", controller_future = "live", ~claimed
                 PROVE  pc[Controller] \in {"sent", "end", "returned"}
      OBVIOUS
    <3>1. jsReturn \in {"unstarted", "started", "record"}
      BY <2>1 DEF IInv, Shape, JsShape
    <3>2. CASE jsReturn = "record"
      BY <2>1, <3>2 DEF CInv, ControllerShape
    <3>3. CASE jsReturn \in {"unstarted", "started"}
      BY <1>3, <2>1, <3>3 DEF WaitShape, CInv, StartShape
    <3> QED
      BY <3>1, <3>2, <3>3
  <2>5. js = "finalize" => closing
    BY <2>1 DEF IInv, Shape, JsShape
  <2>6. ASSUME Asleep(pc) # {},
               ~ \E p \in Producers : pc[p] \in {"reserve", "admit"} \/ HoldsRecord(p),
               js \notin {"spawn_controller", "listener", "abort", "abort_wake"},
               ~(handle = "closing" /\ js \in {"idle", "finalize"})
        PROVE  Dispatchable("event")
    <3>1. task = "running"
      BY <2>1, <2>6 DEF IInv, Shape, ProducerShape, Asleep
    <3>2. Reservers = {} /\ SlotHolders = {}
      BY <2>6 DEF Reservers, SlotHolders
    <3>3. Cardinality(Reservers) = 0 /\ Cardinality(SlotHolders) = 0
      BY <3>2, FS_EmptySet
    <3>4. ~queue_closed /\ ~cancel_token /\ QueueLimit <= inflight_events + Cardinality(Reservers)
      BY <1>3, <2>6 DEF SleepShape
    <3>5. inflight_events \in Nat /\ inflight_events >= 1
      BY <2>1, <3>3, <3>4, OperationAssumption DEF IInv, TypeOK, FieldsOK
    <3>6. ~InListener
      BY <2>1, <2>6 DEF InListener, IInv, Shape, JsShape
    <3>7. EventCount(queue) # 0
      BY <2>1, <3>3, <3>5, <3>6 DEF SlotsExact, SlotHolders, EventCount, QueuedEvents, One
    <3>8. queue \in Seq({"event", "completion"}) /\ QueuedEvents(queue) # {}
      BY <2>1, <3>7, FS_EmptySet DEF EventCount, IInv, TypeOK, FieldsOK
    <3>9. ~HasCompletion
      BY <2>1, <3>1 DEF CInv, ControllerShape
    <3>10. queue # <<>> /\ Head(queue) = "event"
      BY <3>8, <3>9 DEF QueuedEvents, HasCompletion
    <3>11. ~Torn
      BY <2>1, <3>1 DEF CInv, TornShape
    <3>12. js \in {"idle", "finalize"}
      <4>1. js \notin {"submit", "spawn_task", "join"}
        BY <1>3, <2>1, <3>1, <3>4 DEF IInv, Shape, SpawnShape, WaitShape
      <4>2. jsReturn \notin {"unstarted", "started", "record"}
        BY <2>1, <3>1 DEF CInv, StartShape, ControllerShape
      <4>3. js \notin {"settle", "release", "finish"}
        BY <2>1, <4>2 DEF IInv, Shape, JsShape
      <4> QED
        BY <2>1, <2>6, <4>1, <4>3 DEF IInv, TypeOK, FieldsOK, JsStates
    <3>13. handle = "open"
      <4>1. ~Finalized
        BY <1>3, <3>4 DEF WaitShape
      <4>2. handle # "none"
        BY <2>1, <3>1, <3>11, <3>12 DEF CInv, StartShape
      <4> QED
        BY <2>1, <2>6, <3>12, <4>1, <4>2 DEF Finalized, IInv, TypeOK, FieldsOK
    <3>14. js = "idle" /\ env = "alive"
      BY <1>3, <2>1, <3>12, <3>13 DEF WaitShape, IInv, Shape, JsShape
    <3> QED
      BY <3>10, <3>13, <3>14 DEF Dispatchable
  <2> QED
    BY <2>2, <2>3, <2>4, <2>5, <2>6 DEF EveryWaitIsServed
<1>4. Invariants /\ SleepShape /\ WaitShape => SleepShape /\ EveryWaitIsServed
  BY <1>3
<1> QED
  BY <1>1, <1>2, <1>4, AllInvariants, PTL DEF Spec

=============================================================================
