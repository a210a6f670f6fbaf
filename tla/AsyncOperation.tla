--------------------------- MODULE AsyncOperation ---------------------------
(***************************************************************************)
(* One AsyncTaskOperation of src/src/napi/async.zig on the native threaded *)
(* runtime, from submit to the last dropOwner.  The actors are             *)
(*   - the JavaScript thread: submit, the dispatch of queued items, the    *)
(*     listener, the abort event, settlement and the finalizer (js);       *)
(*   - the task: its body and the members of its group, which emit events, *)
(*     and the end of runTaskOwned (pc of the producers, task);            *)
(*   - the controller, which waits for the task and posts the completion   *)
(*     (pc of the controller);                                             *)
(*   - the shared reaper (reap), whose own module is ReapService;          *)
(*   - the engine, which owns the thread-safe function: its queue, the     *)
(*     number of threads that hold it and its deletion (handle).           *)
(* A critical section under state_mutex or event_queue_mutex is one step;  *)
(* so is each access to the dispatcher word.                               *)
(***************************************************************************)
EXTENDS Integers, FiniteSets, Sequences

CONSTANTS Producers,     \* the task body and its group members
          Controller,    \* the controller thread
          QueueLimit,    \* max_inflight_events
          MaxEmits,      \* bound on the emit calls of one producer
          SpawnMayFail,  \* std.Io.concurrent can report an error
          PushMayFail,   \* a push can fail although the handle is open
          EnvMayDie      \* the environment can be torn down

ASSUME OperationAssumption ==
  /\ IsFiniteSet(Producers)
  /\ Controller \notin Producers
  /\ QueueLimit \in Nat \ {0}
  /\ MaxEmits \in Nat
  /\ SpawnMayFail \in BOOLEAN
  /\ PushMayFail \in BOOLEAN
  /\ EnvMayDie \in BOOLEAN

Posters == Producers \cup {Controller}

VARIABLES
  js,                 \* what the JavaScript thread is doing
  jsReturn,           \* what it goes back to (abort), or why it settles
  pc,                 \* [Posters -> program counter]
  emits,              \* [Producers -> number of emit calls]
  task,               \* runTaskOwned: off, running, finished, returned
  result,             \* none, ok or error
  ref_count,          \* owners of the operation
  native_released,    \* releaseNative ran: the memory is gone
  lease,              \* runtime lease: none, held, released
  active,             \* dispatcher_word: pushes that were admitted
  closing,            \* dispatcher_word: no new push may be admitted
  owned,              \* dispatcher_word: the engine decides about the handle
  handle,             \* thread-safe function: none, open, closing, finalized, deleted
  threads,            \* its thread count
  queue,              \* its queue: "event" and "completion" records
  inflight_events,    \* event slots in use
  queue_closed,
  cancel_token,
  cancel_requested,
  cancel_dispatched,
  task_finished,
  controller_future,  \* none, live or consumed
  claimed,            \* controller_future_claimed
  reap,               \* reap_node: idle, queued or done
  js_released,
  listener_ref,       \* a listener was supplied and is still referenced
  listener_failed,
  has_event_listener,
  registration,       \* the abort registration is active
  promise,            \* pending, discarded, or what it was settled with
  outcome,            \* the settlement decided by settlementFor
  env,                \* alive or gone
  accepted,           \* history: events the engine accepted
  delivered           \* history: events given to the listener

jsVars == <<js, jsReturn>>
taskVars == <<task, result, task_finished>>
ownership == <<ref_count, native_released, lease>>
word == <<active, closing, owned>>
engine == <<handle, threads, queue>>
events == <<inflight_events, queue_closed>>
cancellation == <<cancel_token, cancel_requested, cancel_dispatched>>
reaping == <<controller_future, claimed, reap>>
listener == <<listener_ref, listener_failed, has_event_listener>>
settlement == <<promise, outcome>>
history == <<accepted, delivered>>
vars == <<jsVars, pc, emits, taskVars, ownership, word, engine, events, cancellation, reaping,
          js_released, listener, registration, settlement, env, history>>

\* The operation as create leaves it: one reference for the caller.
Init ==
  /\ js = "submit" /\ jsReturn = "none"
  /\ pc = [p \in Posters |-> IF p = Controller THEN "off" ELSE "user"]
  /\ emits = [p \in Producers |-> 0]
  /\ task = "off" /\ result = "none" /\ task_finished = FALSE
  /\ ref_count = 1 /\ native_released = FALSE /\ lease = "none"
  /\ active = 0 /\ closing = FALSE /\ owned = FALSE
  /\ handle = "none" /\ threads = 0 /\ queue = <<>>
  /\ inflight_events = 0 /\ queue_closed = FALSE
  /\ cancel_token = FALSE /\ cancel_requested = FALSE /\ cancel_dispatched = FALSE
  /\ controller_future = "none" /\ claimed = FALSE /\ reap = "idle"
  /\ js_released = FALSE
  /\ has_event_listener \in BOOLEAN /\ listener_ref = has_event_listener
  /\ listener_failed = FALSE
  /\ registration \in BOOLEAN
  /\ promise = "pending" /\ outcome = "none"
  /\ env = "alive"
  /\ accepted = 0 /\ delivered = 0

-----------------------------------------------------------------------------
(* The event queue: slots, and the condition variable producers wait on.   *)

Asleep(f) == {p \in Producers : f[p] = "asleep"}

\* event_queue_cond.signal wakes one waiting producer, if there is one.
Signalled(f) ==
  IF Asleep(f) = {} THEN {f} ELSE {[f EXCEPT ![p] = "reserve"] : p \in Asleep(f)}

\* Mutation of Woken: signal instead of broadcast.
WokenOne(f) ==
  IF Asleep(f) = {} THEN f ELSE [f EXCEPT ![CHOOSE p \in Asleep(f) : TRUE] = "reserve"]

\* wakeEventProducers wakes all of them.
Woken(f) == [p \in Posters |-> IF p \in Asleep(f) THEN "reserve" ELSE f[p]]

\* emitFromContext, up to the cancellation and listener checks.  An emit that
\* these checks refuse or skip changes nothing.
EmitBegins(p) ==
  /\ task = "running" /\ pc[p] = "user"
  /\ emits[p] < MaxEmits
  /\ ~cancel_token /\ has_event_listener
  /\ pc' = [pc EXCEPT ![p] = "reserve"]
  /\ emits' = [emits EXCEPT ![p] = @ + 1]
  /\ UNCHANGED <<jsVars, taskVars, ownership, word, engine, events, cancellation, reaping,
                 js_released, listener, registration, settlement, env, history>>

\* reserveEventSlot: one look at the queue under the mutex.
Reserve(p) ==
  /\ pc[p] = "reserve"
  /\ \/ /\ queue_closed \/ cancel_token
        /\ pc' = [pc EXCEPT ![p] = "user"]
        /\ UNCHANGED inflight_events
     \/ /\ ~queue_closed /\ ~cancel_token
        /\ inflight_events < QueueLimit
        /\ inflight_events' = inflight_events + 1
        /\ pc' = [pc EXCEPT ![p] = "admit"]
     \/ /\ ~queue_closed /\ ~cancel_token
        /\ inflight_events >= QueueLimit
        /\ pc' = [pc EXCEPT ![p] = "asleep"]
        /\ UNCHANGED inflight_events
  /\ UNCHANGED <<jsVars, emits, taskVars, ownership, word, engine, queue_closed, cancellation, reaping,
                 js_released, listener, registration, settlement, env, history>>

\* releaseEventSlot, in a step that leaves the program counters as f.
releaseEventSlot(f) ==
  /\ inflight_events' = IF inflight_events > 0 THEN inflight_events - 1 ELSE 0
  /\ pc' \in Signalled(f)

\* The record cannot be allocated or the event cannot be cloned.
EmitFails(p) ==
  /\ p \in Producers /\ pc[p] = "admit"
  /\ releaseEventSlot([pc EXCEPT ![p] = "user"])
  /\ UNCHANGED <<jsVars, emits, taskVars, ownership, word, engine, queue_closed, cancellation, reaping,
                 js_released, listener, registration, settlement, env, history>>

\* A producer returns from user code for good.
ProducerStops(p) ==
  /\ task = "running" /\ pc[p] = "user"
  /\ pc' = [pc EXCEPT ![p] = "stopped"]
  /\ UNCHANGED <<jsVars, emits, taskVars, ownership, word, engine, events, cancellation, reaping,
                 js_released, listener, registration, settlement, env, history>>

-----------------------------------------------------------------------------
(* postToDispatcher, shared by the producers and the controller.           *)

InPush(p) == pc[p] \in {"push", "sent", "refused", "failed"}

\* admitDispatcherPush succeeds; the record takes its reference.
Admit(p) ==
  /\ pc[p] = "admit"
  /\ ~closing
  /\ active' = active + 1
  /\ ref_count' = ref_count + 1
  /\ pc' = [pc EXCEPT ![p] = "push"]
  /\ UNCHANGED <<jsVars, emits, taskVars, native_released, lease, closing, owned, engine, events,
                 cancellation, reaping, js_released, listener, registration, settlement, env, history>>

\* Mutation of EventRefused: the slot is not released.
EventRefusedKeepsSlot(p) ==
  /\ p \in Producers /\ pc[p] = "admit"
  /\ closing
  /\ pc' = [pc EXCEPT ![p] = "user"]
  /\ UNCHANGED <<jsVars, emits, taskVars, ownership, word, engine, events, cancellation, reaping,
                 js_released, listener, registration, settlement, env, history>>

\* The gate is closed for an event: its slot is released.
EventRefused(p) ==
  /\ p \in Producers /\ pc[p] = "admit"
  /\ closing
  /\ releaseEventSlot([pc EXCEPT ![p] = "user"])
  /\ UNCHANGED <<jsVars, emits, taskVars, ownership, word, engine, queue_closed, cancellation, reaping,
                 js_released, listener, registration, settlement, env, history>>

\* The gate is closed for the completion: destroyNativeOnly.
CompletionRefused ==
  /\ pc[Controller] = "admit"
  /\ closing
  /\ js_released' = TRUE
  /\ queue_closed' = TRUE
  /\ pc' = Woken([pc EXCEPT ![Controller] = "end"])
  /\ UNCHANGED <<jsVars, emits, taskVars, ownership, word, engine, inflight_events, cancellation, reaping,
                 listener, registration, settlement, env, history>>

\* napi_call_threadsafe_function on an open handle queues the record.
PushQueued(p) ==
  /\ pc[p] = "push"
  /\ handle = "open"
  /\ queue' = Append(queue, IF p = Controller THEN "completion" ELSE "event")
  /\ accepted' = IF p = Controller THEN accepted ELSE accepted + 1
  /\ pc' = [pc EXCEPT ![p] = "sent"]
  /\ UNCHANGED <<jsVars, emits, taskVars, ownership, word, handle, threads, events, cancellation, reaping,
                 js_released, listener, registration, settlement, env, delivered>>

\* On a closing handle the engine takes the thread's reference away; a thread
\* that has none left gets napi_invalid_arg.
PushOnClosing(p) ==
  /\ pc[p] = "push"
  /\ handle # "open"
  /\ \/ threads > 0 /\ threads' = threads - 1 /\ pc' = [pc EXCEPT ![p] = "refused"]
     \/ threads = 0 /\ UNCHANGED threads /\ pc' = [pc EXCEPT ![p] = "failed"]
  /\ UNCHANGED <<jsVars, emits, taskVars, ownership, word, handle, queue, events, cancellation, reaping,
                 js_released, listener, registration, settlement, env, history>>

\* An incidental failure on an open handle.
PushFails(p) ==
  /\ PushMayFail
  /\ pc[p] = "push"
  /\ handle = "open"
  /\ pc' = [pc EXCEPT ![p] = "failed"]
  /\ UNCHANGED <<jsVars, emits, taskVars, ownership, word, engine, events, cancellation, reaping,
                 js_released, listener, registration, settlement, env, history>>

\* Mutation of leaveDispatcherPush: a failed push does not leave.
leaveDispatcherPushOnSuccess(p) == IF pc[p] = "failed" THEN active ELSE active - 1

leaveDispatcherPush(p) == active - 1

\* Every push leaves, whatever the engine answered.
Leave(p) ==
  /\ pc[p] \in {"sent", "refused", "failed"}
  /\ active' = leaveDispatcherPush(p)
  /\ pc' = [pc EXCEPT ![p] =
              IF @ = "sent" THEN (IF p = Controller THEN "end" ELSE "user")
              ELSE IF @ = "refused" THEN "unwind_refused" ELSE "unwind_failed"]
  /\ UNCHANGED <<jsVars, emits, taskVars, ownership, closing, owned, engine, events, cancellation, reaping,
                 js_released, listener, registration, settlement, env, history>>

\* A failed push: the gate closes, for good if the engine took the reference;
\* the record's reference and an event's slot are given back, and a failed
\* completion ends in destroyNativeOnly.
Unwind(p) ==
  /\ pc[p] \in {"unwind_refused", "unwind_failed"}
  /\ closing' = TRUE
  /\ owned' = (owned \/ pc[p] = "unwind_refused")
  /\ queue_closed' = TRUE
  /\ ref_count' = ref_count - 1
  /\ pc' = Woken([pc EXCEPT ![p] = IF p = Controller THEN "end" ELSE "user"])
  /\ inflight_events' = IF p = Controller \/ inflight_events = 0 THEN inflight_events ELSE inflight_events - 1
  /\ js_released' = (js_released \/ p = Controller)
  /\ UNCHANGED <<jsVars, emits, taskVars, native_released, lease, active, engine, cancellation, reaping,
                 listener, registration, settlement, env, history>>

-----------------------------------------------------------------------------
(* The task and the controller.                                            *)

\* runTask ends: every member of the group has returned; markTaskDone stores.
TaskFinishes ==
  /\ task = "running"
  /\ \A p \in Producers : pc[p] = "stopped"
  /\ result' \in {"ok", "error"}
  /\ task_finished' = TRUE
  /\ task' = "finished"
  /\ UNCHANGED <<jsVars, pc, emits, ownership, word, engine, events, cancellation, reaping,
                 js_released, listener, registration, settlement, env, history>>

\* state_cond.signal.
ControllerWoken(f) == [f EXCEPT ![Controller] = IF @ = "wait" THEN "check" ELSE @]

\* markTaskDone signals, and runTaskOwned drops its reference.
TaskReturns ==
  /\ task = "finished"
  /\ task' = "returned"
  /\ pc' = ControllerWoken(pc)
  /\ ref_count' = ref_count - 1
  /\ UNCHANGED <<jsVars, emits, result, task_finished, native_released, lease, word, engine, events,
                 cancellation, reaping, js_released, listener, registration, settlement, env, history>>

\* waitForTaskDoneOrAbort: the predicate, under state_mutex.
ControllerChecks ==
  /\ pc[Controller] = "check"
  /\ \/ (task_finished \/ cancel_requested) /\ pc' = [pc EXCEPT ![Controller] = "decide"]
     \/ ~task_finished /\ ~cancel_requested /\ pc' = [pc EXCEPT ![Controller] = "wait"]
  /\ UNCHANGED <<jsVars, emits, taskVars, ownership, word, engine, events, cancellation, reaping,
                 js_released, listener, registration, settlement, env, history>>

\* Its result: whether the task is cancelled or awaited.
ControllerDecides ==
  /\ pc[Controller] = "decide"
  /\ pc' = [pc EXCEPT ![Controller] = IF cancel_requested /\ ~task_finished THEN "cancel" ELSE "join"]
  /\ UNCHANGED <<jsVars, emits, taskVars, ownership, word, engine, events, cancellation, reaping,
                 js_released, listener, registration, settlement, env, history>>

\* Mutation of taskJoined: a cancelled task is not waited for.
taskJoinedUnlessCancelled == cancel_requested \/ task = "returned"

\* future.cancel and future.await both wait for runTaskOwned to return.
taskJoined == task = "returned"

ControllerJoins ==
  /\ pc[Controller] \in {"join", "cancel"}
  /\ taskJoined
  /\ cancel_dispatched' = (cancel_dispatched \/ pc[Controller] = "cancel")
  /\ pc' = [pc EXCEPT ![Controller] = "admit"]
  /\ UNCHANGED <<jsVars, emits, taskVars, ownership, word, engine, events, cancel_token, cancel_requested,
                 reaping, js_released, listener, registration, settlement, env, history>>

\* controllerTaskOwned drops its reference.
ControllerReturns ==
  /\ pc[Controller] = "end"
  /\ pc' = [pc EXCEPT ![Controller] = "returned"]
  /\ ref_count' = ref_count - 1
  /\ UNCHANGED <<jsVars, emits, taskVars, native_released, lease, word, engine, events, cancellation,
                 reaping, js_released, listener, registration, settlement, env, history>>

\* reapControllerFutureNode.
Reap ==
  /\ reap = "queued"
  /\ pc[Controller] = "returned"
  /\ reap' = "done"
  /\ controller_future' = "consumed"
  /\ ref_count' = ref_count - 1
  /\ UNCHANGED <<jsVars, pc, emits, taskVars, native_released, lease, word, engine, events, cancellation,
                 claimed, js_released, listener, registration, settlement, env, history>>

\* releaseNative, by the owner that dropped the last reference.
ReleaseNative ==
  /\ ref_count = 0 /\ ~native_released
  /\ native_released' = TRUE
  /\ lease' = IF lease = "held" THEN "released" ELSE lease
  /\ registration' = FALSE
  /\ queue_closed' = TRUE
  /\ pc' = Woken(pc)
  /\ UNCHANGED <<jsVars, emits, taskVars, ref_count, word, engine, inflight_events, cancellation, reaping,
                 js_released, listener, settlement, env, history>>

-----------------------------------------------------------------------------
(* submit, on the JavaScript thread.                                       *)

\* The signal is already aborted: nothing is started.
SubmitAborted ==
  /\ js = "submit"
  /\ registration
  /\ cancel_token' = TRUE
  /\ cancel_requested' = TRUE
  /\ ref_count' = ref_count + 1
  /\ js' = "settle" /\ jsReturn' = "unstarted"
  /\ UNCHANGED <<pc, emits, taskVars, native_released, lease, word, engine, events, cancel_dispatched,
                 reaping, js_released, listener, registration, settlement, env, history>>

\* Mutation of destroyJs: the abort registration is not released.
destroyJsKeepsSignal ==
  /\ js_released' = TRUE
  /\ listener_ref' = (listener_ref /\ js_released)
  /\ closing' = (closing \/ ~js_released)
  /\ owned' = (owned \/ ~js_released)
  /\ queue_closed' = (queue_closed \/ ~js_released)
  /\ UNCHANGED registration

\* destroyJs, unless it or a native teardown ran before, with releaseDispatcher
\* up to its wait for the admitted pushes.
destroyJs ==
  /\ js_released' = TRUE
  /\ listener_ref' = (listener_ref /\ js_released)
  /\ registration' = (registration /\ js_released)
  /\ closing' = (closing \/ ~js_released)
  /\ owned' = (owned \/ ~js_released)
  /\ queue_closed' = (queue_closed \/ ~js_released)

\* The errdefer of submit: the promise is discarded and destroyJs runs.
abandon ==
  /\ promise' = "discarded"
  /\ destroyJs
  /\ js' = "idle"

\* The runtime cannot be leased, or the thread-safe function not created: the
\* caller's reference is the last one.
SubmitRefused ==
  /\ js = "submit"
  /\ abandon
  /\ lease' \in {"none", "held"}
  /\ ref_count' = ref_count - 1
  /\ UNCHANGED <<jsReturn, pc, emits, taskVars, native_released, active, engine, inflight_events,
                 cancellation, reaping, listener_failed, has_event_listener, outcome, env, history>>

\* The completion record cannot be allocated: the thread-safe function is
\* released, and its finalizer will drop the initial reference.
SubmitUnwound ==
  /\ js = "submit"
  /\ abandon
  /\ lease' = "held"
  /\ handle' = "open" /\ threads' = 0
  /\ UNCHANGED <<jsReturn, pc, emits, taskVars, ref_count, native_released, active, queue, inflight_events,
                 cancellation, reaping, listener_failed, has_event_listener, outcome, env, history>>

\* The runtime is leased and the dispatcher and the completion record exist.
SubmitReady ==
  /\ js = "submit"
  /\ lease' = "held"
  /\ handle' = "open" /\ threads' = 1
  /\ js' = "spawn_task"
  /\ UNCHANGED <<jsReturn, pc, emits, taskVars, ref_count, native_released, word, queue, events,
                 cancellation, reaping, js_released, listener, registration, settlement, env, history>>

SpawnTask ==
  /\ js = "spawn_task"
  /\ task' = "running"
  /\ ref_count' = ref_count + 1
  /\ js' = "spawn_controller"
  /\ UNCHANGED <<jsReturn, pc, emits, result, task_finished, native_released, lease, word, engine, events,
                 cancellation, reaping, js_released, listener, registration, settlement, env, history>>

\* The task's reference is dropped again, and dispatchCompletion retains.
SpawnTaskFails ==
  /\ js = "spawn_task"
  /\ SpawnMayFail
  /\ result' = "error"
  /\ ref_count' = ref_count + 1
  /\ js' = "settle" /\ jsReturn' = "started"
  /\ UNCHANGED <<pc, emits, task, task_finished, native_released, lease, word, engine, events,
                 cancellation, reaping, js_released, listener, registration, settlement, env, history>>

SpawnController ==
  /\ js = "spawn_controller"
  /\ pc' = [pc EXCEPT ![Controller] = "check"]
  /\ controller_future' = "live"
  /\ ref_count' = ref_count + 1
  /\ js' = "idle"
  /\ UNCHANGED <<jsReturn, emits, taskVars, native_released, lease, word, engine, events, cancellation,
                 claimed, reap, js_released, listener, registration, settlement, env, history>>

\* Nothing will watch the task: it is cancelled, and waiting producers woken,
\* before this thread joins it.
SpawnControllerFails ==
  /\ js = "spawn_controller"
  /\ SpawnMayFail
  /\ cancel_token' = TRUE
  /\ cancel_requested' = TRUE
  /\ queue_closed' = TRUE
  /\ pc' = Woken(pc)
  /\ js' = "join"
  /\ UNCHANGED <<jsReturn, emits, taskVars, ownership, word, engine, inflight_events, cancel_dispatched,
                 reaping, js_released, listener, registration, settlement, env, history>>

SubmitJoins ==
  /\ js = "join"
  /\ taskJoined
  /\ ref_count' = ref_count + 1
  /\ result' = "error"
  /\ js' = "settle" /\ jsReturn' = "started"
  /\ UNCHANGED <<pc, emits, task, task_finished, native_released, lease, word, engine, events,
                 cancellation, reaping, js_released, listener, registration, settlement, env, history>>

-----------------------------------------------------------------------------
(* Settlement, on the JavaScript thread.                                   *)

\* Mutation of settlementFor: the task's error comes before the listener's.
settlementForErrorFirst ==
  IF result = "error" THEN "error"
  ELSE IF listener_failed THEN "listener"
  ELSE IF cancel_dispatched \/ cancel_requested THEN "abort"
  ELSE "resolved"

\* settlementFor: listener failure, cancellation, the task's error, its result.
settlementFor ==
  IF listener_failed THEN "listener"
  ELSE IF cancel_dispatched \/ cancel_requested THEN "abort"
  ELSE IF result = "error" THEN "error"
  ELSE "resolved"

\* dispatchSettlement up to the release of the handle: the controller's future
\* is claimed and awaited, the reason computed, and destroyJs closes the gate.
Settle ==
  /\ js = "settle"
  /\ controller_future = "live" /\ ~claimed => pc[Controller] = "returned"
  /\ claimed' = TRUE
  /\ controller_future' = IF controller_future = "live" /\ ~claimed THEN "consumed" ELSE controller_future
  /\ outcome' = settlementFor
  /\ destroyJs
  /\ pc' = Woken(pc)
  /\ js' = IF owned \/ js_released THEN "finish" ELSE "release"
  /\ UNCHANGED <<jsReturn, emits, taskVars, ownership, active, engine, inflight_events, cancellation, reap,
                 listener_failed, has_event_listener, promise, env, history>>

\* Mutation of pushesReturned: nobody waits for the admitted pushes.
pushesIgnored == active >= 0

\* The wait of releaseDispatcher and of closeDispatcherAndWait.
pushesReturned == active = 0

\* releaseDispatcher: once the admitted pushes returned, the handle is released.
ReleaseHandle ==
  /\ js = "release"
  /\ pushesReturned
  /\ threads' = IF handle = "none" THEN threads ELSE threads - 1
  /\ js' = "finish"
  /\ UNCHANGED <<jsReturn, pc, emits, taskVars, ownership, word, handle, queue, events, cancellation, reaping,
                 js_released, listener, registration, settlement, env, history>>

\* Mutation of settlementDrops: only dispatchSettlement drops its reference.
settlementDropsOne == 1

\* dispatchSettlement drops its reference, and its caller the one of the queued
\* record or, if nothing was started, the initial one.
settlementDrops == IF jsReturn = "started" THEN 1 ELSE 2

\* What the promise is settled with: an exception that destroyJs left turns a
\* resolution into a rejection, and replaces no other reason.
settledWith == IF outcome = "resolved" THEN {"resolved", "error"} ELSE {outcome}

FinishSettlement ==
  /\ js = "finish"
  /\ promise' \in settledWith
  /\ ref_count' = ref_count - settlementDrops
  /\ js' = "idle" /\ jsReturn' = "none"
  /\ UNCHANGED <<pc, emits, taskVars, native_released, lease, word, engine, events, cancellation, reaping,
                 js_released, listener, registration, outcome, env, history>>

-----------------------------------------------------------------------------
(* dispatcherCallJs and the listener.                                      *)

Dispatchable(kind) ==
  /\ js = "idle" /\ env = "alive" /\ handle = "open"
  /\ queue # <<>> /\ Head(queue) = kind

\* dispatchEvent calls the listener.
DispatchEvent ==
  /\ Dispatchable("event")
  /\ listener_ref
  /\ queue' = Tail(queue)
  /\ js' = "listener"
  /\ UNCHANGED <<jsReturn, pc, emits, taskVars, ownership, word, handle, threads, events, cancellation,
                 reaping, js_released, listener, registration, settlement, env, history>>

\* The listener is no longer referenced, or its reference cannot be resolved,
\* which means that the environment is going away: the event is dropped.
DispatchUnheard ==
  /\ Dispatchable("event")
  /\ \/ ~listener_ref /\ UNCHANGED <<handle, env>>
     \/ listener_ref /\ EnvMayDie /\ handle' = "closing" /\ env' = "gone"
  /\ queue' = Tail(queue)
  /\ releaseEventSlot(pc)
  /\ ref_count' = ref_count - 1
  /\ UNCHANGED <<jsVars, emits, taskVars, native_released, lease, word, threads, queue_closed,
                 cancellation, reaping, js_released, listener, registration, settlement, history>>

\* The listener returns or throws; the slot and the record are given back.
ListenerReturns ==
  /\ js = "listener"
  /\ delivered' = delivered + 1
  /\ listener_failed' \in {listener_failed, TRUE}
  /\ releaseEventSlot(pc)
  /\ ref_count' = ref_count - 1
  /\ js' = "idle"
  /\ UNCHANGED <<jsReturn, emits, taskVars, native_released, lease, word, engine, queue_closed,
                 cancellation, reaping, js_released, listener_ref, has_event_listener, registration,
                 settlement, env, accepted>>

\* A completion: dispatchSettlement retains.
DispatchCompletion ==
  /\ Dispatchable("completion")
  /\ queue' = Tail(queue)
  /\ ref_count' = ref_count + 1
  /\ js' = "settle" /\ jsReturn' = "record"
  /\ UNCHANGED <<pc, emits, taskVars, native_released, lease, word, handle, threads, events, cancellation,
                 reaping, js_released, listener, registration, settlement, env, history>>

-----------------------------------------------------------------------------
(* The abort event: AbortRegistration.requestAbort calls requestAbort.     *)

\* The registration is active: the callback takes a reference.  A signal fires
\* once.
AbortBegins ==
  /\ js \in {"idle", "listener"} /\ env = "alive"
  /\ registration /\ ~cancel_token
  /\ ref_count' = ref_count + 1
  /\ cancel_token' = TRUE
  /\ jsReturn' = js /\ js' = "abort"
  /\ UNCHANGED <<pc, emits, taskVars, native_released, lease, word, engine, events, cancel_requested,
                 cancel_dispatched, reaping, js_released, listener, registration, settlement, env, history>>

\* The task already finished: there is nothing to cancel.
AbortTooLate ==
  /\ js = "abort"
  /\ task_finished
  /\ ref_count' = ref_count - 1
  /\ js' = jsReturn /\ jsReturn' = "none"
  /\ UNCHANGED <<pc, emits, taskVars, native_released, lease, word, engine, events, cancellation, reaping,
                 js_released, listener, registration, settlement, env, history>>

AbortRequests ==
  /\ js = "abort"
  /\ ~task_finished
  /\ cancel_requested' = TRUE
  /\ js' = "abort_wake"
  /\ UNCHANGED <<jsReturn, pc, emits, taskVars, ownership, word, engine, events, cancel_token,
                 cancel_dispatched, reaping, js_released, listener, registration, settlement, env, history>>

\* The controller and the producers are woken, and the reference is dropped.
AbortWakes ==
  /\ js = "abort_wake"
  /\ pc' = Woken(ControllerWoken(pc))
  /\ ref_count' = ref_count - 1
  /\ js' = jsReturn /\ jsReturn' = "none"
  /\ UNCHANGED <<emits, taskVars, native_released, lease, word, engine, events, cancellation, reaping,
                 js_released, listener, registration, settlement, env, history>>

-----------------------------------------------------------------------------
(* The engine: teardown, finalizer, drain, deletion.                       *)

\* The environment is torn down: an open handle starts to close.
TearDown ==
  /\ EnvMayDie
  /\ js = "idle" /\ env = "alive"
  /\ env' = "gone"
  /\ handle' = IF handle = "open" THEN "closing" ELSE handle
  /\ UNCHANGED <<jsVars, pc, emits, taskVars, ownership, word, threads, queue, events, cancellation, reaping,
                 js_released, listener, registration, settlement, history>>

\* A released handle closes once its queue is empty.
HandleCloses ==
  /\ js = "idle"
  /\ handle = "open" /\ threads = 0 /\ queue = <<>>
  /\ handle' = "closing"
  /\ UNCHANGED <<jsVars, pc, emits, taskVars, ownership, word, threads, queue, events, cancellation, reaping,
                 js_released, listener, registration, settlement, env, history>>

\* dispatcherFinalize closes the gate, ...
FinalizeBegins ==
  /\ js = "idle"
  /\ handle = "closing"
  /\ closing' = TRUE
  /\ js' = "finalize"
  /\ UNCHANGED <<jsReturn, pc, emits, taskVars, ownership, active, owned, engine, events, cancellation,
                 reaping, js_released, listener, registration, settlement, env, history>>

\* Mutation of handOver: an operation that was torn down natively is skipped.
handOverUnlessReleased == controller_future = "live" /\ ~claimed /\ ~js_released

\* enqueueControllerReap has a future to hand to the reaper, and claims it.
handOver == controller_future = "live" /\ ~claimed

\* Mutation of finalizerRefs: nothing is retained for the reaper.
finalizerRefsUnretained == ref_count - 1

\* A reference is taken for the reaper, and the initial one is dropped.
finalizerRefs == IF handOver THEN ref_count ELSE ref_count - 1

\* ... waits for the admitted pushes, hands the controller's future over and
\* drops the initial reference.
FinalizeEnds ==
  /\ js = "finalize"
  /\ pushesReturned
  /\ owned' = TRUE
  /\ queue_closed' = TRUE
  /\ pc' = Woken(pc)
  /\ js_released' = TRUE
  /\ claimed' = (claimed \/ handOver)
  /\ reap' = IF handOver THEN "queued" ELSE reap
  /\ ref_count' = finalizerRefs
  /\ handle' = "finalized"
  /\ js' = "idle"
  /\ UNCHANGED <<jsReturn, emits, taskVars, native_released, lease, active, closing, threads, queue,
                 inflight_events, cancellation, controller_future, listener, registration, settlement, env,
                 history>>

\* After the finalizer the queue is drained with a null environment.
DrainItem ==
  /\ handle = "finalized" /\ queue # <<>>
  /\ queue' = Tail(queue)
  /\ \/ Head(queue) = "event" /\ releaseEventSlot(pc)
     \/ Head(queue) = "completion" /\ UNCHANGED <<inflight_events, pc>>
  /\ ref_count' = ref_count - 1
  /\ UNCHANGED <<jsVars, emits, taskVars, native_released, lease, word, handle, threads, queue_closed,
                 cancellation, reaping, js_released, listener, registration, settlement, env, history>>

HandleDeleted ==
  /\ handle = "finalized" /\ queue = <<>>
  /\ handle' = "deleted"
  /\ UNCHANGED <<jsVars, pc, emits, taskVars, ownership, word, threads, queue, events, cancellation, reaping,
                 js_released, listener, registration, settlement, env, history>>

-----------------------------------------------------------------------------
Emit(p) == EmitBegins(p) \/ Reserve(p) \/ EmitFails(p) \/ EventRefused(p) \/ ProducerStops(p)
Post(p) == Admit(p) \/ PushQueued(p) \/ PushOnClosing(p) \/ PushFails(p) \/ Leave(p) \/ Unwind(p)
Task == TaskFinishes \/ TaskReturns
Control == \/ ControllerChecks \/ ControllerDecides \/ ControllerJoins
           \/ CompletionRefused \/ ControllerReturns
Submit == \/ SubmitAborted \/ SubmitRefused \/ SubmitUnwound \/ SubmitReady
          \/ SpawnTask \/ SpawnTaskFails \/ SpawnController \/ SpawnControllerFails \/ SubmitJoins
Settlement == Settle \/ ReleaseHandle \/ FinishSettlement
Dispatch == DispatchEvent \/ DispatchUnheard \/ ListenerReturns \/ DispatchCompletion
Abort == AbortBegins \/ AbortTooLate \/ AbortRequests \/ AbortWakes
Engine == HandleCloses \/ FinalizeBegins \/ FinalizeEnds \/ DrainItem \/ HandleDeleted

Next ==
  \/ \E p \in Producers : Emit(p)
  \/ \E p \in Posters : Post(p)
  \/ Task \/ Control \/ Reap \/ ReleaseNative
  \/ Submit \/ Settlement \/ Dispatch \/ Abort
  \/ TearDown \/ Engine

Spec == Init /\ [][Next]_vars

\* The event loop runs, the listener and the user's task return, threads that
\* can run do.  Aborts, teardown and failures need not happen.
Fairness ==
  /\ \A p \in Producers : WF_vars(Emit(p)) /\ WF_vars(ProducerStops(p))
  /\ \A p \in Posters : WF_vars(Post(p))
  /\ WF_vars(Task) /\ WF_vars(Control) /\ WF_vars(Reap) /\ WF_vars(ReleaseNative)
  /\ WF_vars(Submit) /\ WF_vars(Settlement) /\ WF_vars(Dispatch)
  /\ WF_vars(AbortTooLate \/ AbortRequests \/ AbortWakes)
  /\ WF_vars(Engine)

FairSpec == Spec /\ Fairness

-----------------------------------------------------------------------------
PosterStates == {"off", "user", "reserve", "asleep", "stopped", "admit", "push", "sent", "refused", "failed",
                 "unwind_refused", "unwind_failed", "check", "wait", "decide", "cancel", "join", "end", "returned"}
JsStates == {"submit", "spawn_task", "spawn_controller", "join", "settle", "release", "finish", "idle",
             "listener", "abort", "abort_wake", "finalize"}

FieldsOK ==
  /\ js \in JsStates
  /\ jsReturn \in {"none", "unstarted", "started", "record", "idle", "listener"}
  /\ emits \in [Producers -> Nat]
  /\ task \in {"off", "running", "finished", "returned"}
  /\ result \in {"none", "ok", "error"}
  /\ threads \in Nat
  /\ inflight_events \in Nat /\ accepted \in Nat /\ delivered \in Nat
  /\ lease \in {"none", "held", "released"}
  /\ handle \in {"none", "open", "closing", "finalized", "deleted"}
  /\ queue \in Seq({"event", "completion"})
  /\ controller_future \in {"none", "live", "consumed"}
  /\ reap \in {"idle", "queued", "done"}
  /\ promise \in {"pending", "discarded", "listener", "abort", "error", "resolved"}
  /\ outcome \in {"none", "listener", "abort", "error", "resolved"}
  /\ env \in {"alive", "gone"}
  /\ native_released \in BOOLEAN /\ closing \in BOOLEAN /\ owned \in BOOLEAN
  /\ queue_closed \in BOOLEAN /\ cancel_token \in BOOLEAN /\ cancel_requested \in BOOLEAN
  /\ cancel_dispatched \in BOOLEAN /\ task_finished \in BOOLEAN /\ claimed \in BOOLEAN
  /\ js_released \in BOOLEAN /\ listener_ref \in BOOLEAN /\ listener_failed \in BOOLEAN
  /\ has_event_listener \in BOOLEAN /\ registration \in BOOLEAN

TypeOK ==
  /\ FieldsOK
  /\ pc \in [Posters -> PosterStates]
  /\ ref_count \in Nat /\ active \in Nat

One(b) == IF b THEN 1 ELSE 0

\* The record of a poster that the engine has not accepted.
HoldsRecord(p) == pc[p] \in {"push", "refused", "failed", "unwind_refused", "unwind_failed"}
Holders == {p \in Posters : HoldsRecord(p)}

\* The threads inside a push.
Pushers == {p \in Posters : InPush(p)}

\* The JavaScript thread holds an event record, or runs the listener on it.
InListener == js = "listener" \/ jsReturn = "listener"

\* The reference that create gave to submit, and submit to the finalizer.
InitialOwner == js = "submit" \/ jsReturn = "unstarted" \/ handle \in {"open", "closing"}

ControllerOwner == pc[Controller] \notin {"off", "returned"}

\* References of the JavaScript thread, of the other threads, and of records.
JsOwners ==
  One(InitialOwner) + One(InListener) + One(jsReturn = "record")
  + One(js \in {"settle", "release", "finish"}) + One(js \in {"abort", "abort_wake"})

ThreadOwners == One(task \in {"running", "finished"}) + One(ControllerOwner) + One(reap = "queued")

RecordOwners == Cardinality(Holders) + Len(queue)

Owners == JsOwners + ThreadOwners + RecordOwners

\* Every owner holds exactly one reference, in every interleaving of the
\* submit, post, delivery, settlement, abort, finalizer and reaper paths.
RefCountExact == ref_count = Owners

\* The operation is freed only when nobody uses it any more: not the task, not
\* the controller, not the reaper, not a queued record, not the JavaScript
\* thread, not the finalizer.
NoUseAfterFree ==
  ref_count = 0 =>
    /\ task \notin {"running", "finished"}
    /\ \A p \in Producers : ~HoldsRecord(p) /\ pc[p] \notin {"sent", "reserve", "asleep", "admit"}
    /\ pc[Controller] \in {"off", "returned"}
    /\ queue = <<>>
    /\ js = "idle"
    /\ reap # "queued"
    /\ handle \in {"none", "finalized", "deleted"}

\* An abort event never takes a reference of an operation that has none left.
AbortFindsOperation ==
  js \in {"idle", "listener"} /\ env = "alive" /\ registration => ref_count > 0

\* The count in the dispatcher word is the number of threads inside a push.
GateCounts == active = Cardinality(Pushers)

\* Once the finalizer has returned, the engine drains the queue and deletes the
\* handle: no thread is in, or can still get into, a push on it.
NoPushAfterFinalizer ==
  handle \in {"finalized", "deleted"} => closing /\ Pushers = {}

\* A slot is used by exactly the events that are on their way: from the
\* reservation to the return of the listener, whichever way it ends.
SlotsExact ==
  /\ inflight_events = Cardinality({p \in Producers : pc[p] = "admit" \/ HoldsRecord(p)})
                       + Cardinality({i \in 1 .. Len(queue) : queue[i] = "event"}) + One(InListener)
  /\ inflight_events <= QueueLimit

\* The completion is the last record: nothing is queued, or can be, behind it.
CompletionIsLast ==
  \A i \in 1 .. Len(queue) : queue[i] = "completion" =>
    /\ i = Len(queue)
    /\ task = "returned"
    /\ \A p \in Producers : pc[p] = "stopped"

\* The controller's future is consumed before its operation is freed.
FutureNotLeaked == ref_count = 0 => controller_future # "live"

\* The accounts of the operation: the listener's reference, the dispatcher word,
\* the event slots and the controller's future, on every path that ends one.
Bookkeeping == AbortFindsOperation /\ GateCounts /\ SlotsExact /\ FutureNotLeaked

\* The settlement the controller posts is the last thing JavaScript sees of the
\* operation: every event it accepted was delivered before, whatever failed.
SettlementIsLast ==
  /\ CompletionIsLast
  /\ promise \notin {"pending", "discarded"} /\ pc[Controller] # "off" => delivered = accepted

\* "Every event emitted before the task returned is delivered before the
\* Promise settles."
EventsPrecedeSettlement == promise \notin {"pending", "discarded"} => delivered = accepted

\* The contract of AsyncTask, with cancel_requested as the cancellation.
Contract ==
  INSTANCE AsyncTask WITH
    phase <- IF task = "off" THEN "new" ELSE IF task = "running" THEN "running" ELSE "ended",
    failed <- listener_failed,
    cancelled <- cancel_requested,
    live <- env = "alive"

ImplementsContract == Contract!Spec

\* The gate is closed over a handle that is open and that nobody has undertaken
\* to release: a push failed on the open handle (releaseDispatcher and the
\* finalizer, which close the gate too, own the handle from then on).
FailedPushLeftGateClosed == closing /\ ~owned /\ handle = "open"

\* The promise the caller got settles (or submit throws), also when a spawn fails
\* while producers sleep on a full queue, and once a settlement has begun it is
\* carried through - unless the environment goes away, or a push that failed on
\* the open handle leaves the gate closed for good, for the completion too.
PromiseSettles ==
  (js = "submit") ~> (promise # "pending" \/ env # "alive" \/ []FailedPushLeftGateClosed)

\* Once the promise settled or the environment is gone, the operation is freed,
\* which also releases its lease of the runtime.
OperationFreed == (promise # "pending" \/ env = "gone") ~> native_released

\* After an incidental failure of a push the "still-live handle" is left "for
\* the JavaScript thread to release".
LiveHandleReleased == FailedPushLeftGateClosed ~> (handle # "open")

=============================================================================
