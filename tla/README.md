# A verification project for zig-napi

zig-napi binds Zig to Node-API: Node.js, OpenHarmony and WASI hosts load an addon whose
functions, classes and asynchronous tasks are written in Zig. Two parts of it keep protocol
state. The native library runs asynchronous work on threads that must post to a JavaScript
thread which may go away at any moment. The JavaScript package (`packages/zig-napi`)
generates the loaders that bring a WASI build of an addon to life and take it down again,
and the command line that builds, rebuilds and renames an addon project. This project models
both, with one module per component.

Paths below are relative to the repository; `async.zig` is `src/napi/async.zig`,
`wasi-templates` is `packages/zig-napi/lib/wasi-templates.cjs`, `cli` is
`packages/zig-napi/lib/cli.cjs`.

## Inventory

| Component | State | Operations | Hard part |
|---|---|---|---|
| Shared reaper (`ReapService`, async.zig 111-236) | FIFO of caller-owned nodes, `pending`, `workers` | `submit`, `pop`, `releaseWorker`, `peekHasWork`, `claimWorker`, `reaperMain` | threads that leave while work arrives; spawns that fail outside the lock |
| Threaded runtime registry (async.zig 20-56, 597-817) | live and closing entries with lease counts, live runtime, retired runtimes, reaper flag | `acquireThreadedRuntime`, `releaseThreadedRuntime`, `runtimeEnvCleanupHook`, `maybeRetireRuntimeLocked`, `runtimeReaper`, `retireRuntimeInline` | recycled `napi_env` addresses; operations that outlive their environment; a runtime's worker must never join itself |
| Async operation (`AsyncTaskOperation`, async.zig 1185-2873) | reference count, dispatcher word, event slots, cancellation flags, futures, JavaScript references, promise | `submit`, `runTask`, `controllerTask`, `emitFromContext`, `postToDispatcher`, `dispatcherCallJs`, `dispatchSettlement`, `requestAbort`, `dispatcherFinalize`, `destroyJs`, `destroyNativeOnly`, `releaseNative` | five threads, engine callbacks, teardown at any point, failed spawns and pushes |
| Abort registration (`src/napi/abort_signal.zig`) | `active`, `native_released`, two references | `bindOwned`, `requestAbort`, `deactivate`, `finalizeRegistration` | an abort event against the release of its operation |
| WASI cleanup barrier, library half (async.zig 319-518, 1793-1867) | registry of operations, node states, settlement counters | `registerWasmOperation`, `retireWasmOperation`, `wasmEnvCleanupPrepare`, `settleForWasmCleanup` | a barrier that claims what others retire; two completions |
| WASI loader, one binding (wasi-templates, Node.js and browser loaders) | context, worker pool, cleanup and drain flags, dispose promises, crash latch, exit listener, rollback record | instantiate, publish, `dispose`, `prepareWasmEnvCleanup`, `drainWasmEnvCleanup`, destroy, terminate, `disposeAfterCrash`, rollback and its replay, exit | a worker that crashes between any two checks; cleanup steps that fail; disposals that overlap |
| WASI loader, registries (wasi-templates) | process-wide record and exit listener of one file, captured `beforeExit` listener | load, fail, replay, dispose, exit | successive evaluations of one file share what is keyed by the file |
| WASI worker crashes (wasi-templates, worker scripts) | shared report, crash flag, the addon's crash word, error events | worker construction with retries, start of the worker script, report, `getWasiThreadCrashError` | two workers crash at once; a crash before the worker knows whom to tell |
| WASI deferred loader (wasi-templates) | default instance, managed context destroyers, batch in flight, dispose promises on three levels | `instantiate`, `createInstance`, instance and module `dispose`, `beforeExit` | disposals that wait for each other; a host that cannot yield |
| Project build (cli; `build-output.cjs`, `wasi-templates` 247-300) | `package.json`, wasm files, loaders, `browser.js`, package directories, a watcher with a child | `new`, `build`, `build --watch`, `artifacts`, `create-npm-dirs`, `package` | a configuration read twice while the user edits it; changes during a build; signals |
| Rename (`packages/zig-napi/lib/rename-project.cjs`) | staged edits and moves, temporary files | stage, write, move, undo, clean up; dry run | file operations that fail half-way and again during undo |
| Addon entry (`templates/node-addon/index.js`, `binding-target.cjs`) | candidate loop, collected errors | native and WASI candidates, forced flavors, binding target | many layouts times many environment variables |
| Thread-safe function wrapper (`src/napi/wrapper/thread_safe_function.zig`) | limit ledger, epoch futex, pending completions | call, `CallAsync`, acquire, release, abort, finalize | finalize-before-drain and drain-before-finalize engines |
| Worker (`src/napi/wrapper/worker.zig`) | queued, in_completion, completed, freed, promise | create, `tryQueue`, `AsyncQueue`, `Cancel`, complete, `deinit` | re-entrant `deinit`, cancel races |
| Managed reference, native promise (`wrapper/managed_reference.zig`, `value/native_promise.zig`) | owner and lifetime counts, released, outcome | clone, close, cleanup, finalize, dispose, settle, wait | close on one thread against teardown on another |
| Allocator overrides, native wraps, payload registry (`util/`, `wrapper/native_wrap.zig`) | per-thread stack; registry of typed payloads | enter/exit; wrap/finalize | bounded stack, out-of-order exits |
| Conversion, classes, declarations, scaffolding, targets | - | - | functions of their input, or build-time code |

How they interact. *Native*: `submit` leases the runtime from the registry, creates a
thread-safe function in the engine and starts two pool threads (task and controller). The
task pushes events through the thread-safe function; the engine hands them to the JavaScript
thread. The controller waits for the task or a cancellation, joins the task and pushes the
completion, whose dispatch settles the promise. The abort registration calls back into the
operation. If the environment goes away first, the thread-safe function's finalizer hands
the controller's future to the shared reaper. Whoever drops the last reference runs
`releaseNative`, which returns the lease and may retire the runtime. Everything is shared
memory: a few mutexes and condition variables, atomics, and the engine's queue.
*WASI*: `build` compiles the addon and generates its loaders; the addon's `index.js` picks a
native library or one of the loaders; the loader finds and instantiates the module with
emnapi, stamps the artifact's name on the binding, and starts workers as the addon asks for
threads. Taking a binding down calls the library's cleanup barrier, waits a bounded number of
event loop turns for the settlements it owes, destroys the context and terminates the
workers. Loader and workers share the wasm memory and a small report buffer; evaluations of
one loader file share two process-wide registries.

What makes each component correct: the reaper loses no node and keeps its bound; the
registry never retires a runtime in use, never confuses two environments at one address,
and destroys each runtime once; the operation is freed exactly when its last user is done,
its handle is not used once the engine may delete it, events and the settlement come in
order, the promise settles, and everything is eventually freed. A loader never discards a
settlement it could still deliver, never enters a poisoned module again, never says it is
clean while a context, worker or listener is left, and keeps somebody responsible for what
it could not clean up; every disposal ends. The command line leaves loaders that fit the
modules beside them and builds every change it is told of; a rename happens entirely or not
at all; the entry loads what its environment asks for or says why it cannot.

## Modules

| Module | Kind | Models |
|---|---|---|
| `ReapService` | component | the shared reaper |
| `RuntimeRegistry` | component | environments, leases, runtimes and their reaper |
| `AsyncTask` | abstract specification | what the caller of an asynchronous task is promised |
| `AsyncOperation` | component, implements `AsyncTask` | one operation on the native threaded runtime, with its event queue, thread-safe function and abort registration |
| `WasiBinding` | component | one instance of a Node.js or browser WASI loader |
| `WasiRegistry` | component | several evaluations of one loader file in one process; a rollback is its outcome, whose detail is `WasiBinding` |
| `WorkerCrash` | component | WASI workers, their start, and how a crash becomes known |
| `WasiDeferred` | component | the deferred loader: default and independent instances, managed contexts |
| `ProjectBuild` | component | a project, its user, and the commands that build it |
| `RenameProject` | component | the rename of a project |
| `AddonLoading` | component | the generated entry and the search of a loader for its module |
| `MC...` | TLC instances | bounds and symmetry sets; other constants are in the `.cfg` files |
| `..._proofs` | proofs | the theorems about every component, for every value of the constants. `Project_proofs` is about `ProjectBuild`, `RenameProject` and `AddonLoading` together, so the last two call their parts `RenameInit`, `RenameNext`, `RenameSpec`, `LoadInit`, `LoadNext`, `LoadSpec` |

`PROJECT.json` maps every definition that models code to its lines. A definition preceded
by "Mutation of ..." or "Mutant: ..." is a broken variant of the definition that follows it: it
stands for a plausible bug and shows that the property it is paired with can fail. No
specification uses it.

### ReapService

`queue` is the intrusive list, `workers` the counter; `pending` is the length of the queue
(the code keeps the number beside the list and changes both in the same critical section).
A `submit` is two steps, because `std.Thread.spawn` happens after the unlock: `Submit` links
the node and may claim a slot, then `SpawnOk` or `SpawnFailed` completes it. A submit starts
at most one thread, so threads are named after the node whose submit started them. The
thread's own steps are the critical sections of `reaperMain`, each under the spin lock. A
cleanup that blocks is a thread that stays in `run`.

### RuntimeRegistry

An environment is an incarnation with an address; two incarnations may share an address one
after the other, which is exactly the case `RuntimeLease.env` exists for. Entries are named
after the incarnation that created them and looked up by address. The JavaScript thread of
an environment is in `acquireThreadedRuntime` in at most one call; the call has a step for
`retireRuntimeInline` up to the unlock, one for the destruction of the runtime it took
(which joins that runtime's pool workers), and one for the critical section that finds or
creates the entry and the runtime. `AcquireRefused` and `AcquireNoStorage` are the
allocation and hook failures, with what each leaves behind. `existing.closed` (async.zig
770) cannot be reached - `findRuntimeEnvLocked` searches the live list only and
`closeRuntimeEnvLocked` unlinks what it closes - so no action models it. `Release` is the
last reference of an operation; it may happen on a pool worker of the very runtime it
retires, which is why `WorkerReturns` is a separate, later step and why destruction waits
for it (`Joined`). The retired list is a set: runtimes are interchangeable on it.

### AsyncOperation

One operation, from `submit` to the end of its memory. The actors are the JavaScript
thread (`js`), the task body and its group members (`Producers`), the controller, the
shared reaper (`reap`, abstracted to "queued, then done after the controller returned": the
property `SubmittedRuns` of ReapService), and the engine.

* *References.* `ref_count` follows every `retain` and `dropOwner`. The owners are listed by
  `Owners`: the initial reference, the task, the controller, the reaper, each record that
  is posted or being posted, the abort callback, and the settlement.
* *Dispatcher word.* `active`, `closing`, `owned` are its three fields; each access to the
  word is a step. A push is `Admit`, the engine call (`PushQueued`, `PushOnClosing`,
  `PushFails`), `Leave`, and for a failure `Unwind`.
* *Event slots.* `Reserve` is one look at the queue under `event_queue_mutex`; a full queue
  puts the producer to sleep. `Signalled` is `event_queue_cond.signal` (one sleeper, or none
  if nobody sleeps), `Woken` the broadcast of `wakeEventProducers`.
* *Controller.* `ControllerChecks` is the wait under `state_mutex`; `ControllerDecides` the
  re-read of the flags after it; `ControllerJoins` the `cancel` or `await` of the task's
  future. Both wait for the task to return. `cancel_dispatched` is set after the join.
* *Settlement.* `Settle` claims and awaits the controller's future, decides the reason and
  runs `destroyJs` up to the point where the handle is released; `ReleaseHandle` waits out
  the admitted pushes; `FinishSettlement` settles the promise and drops the references. A
  cleanup that fails (its JavaScript threw) turns a resolution into a rejection (`settledWith`).
* *Listener.* `DispatchEvent` calls it. `DispatchUnheard` drops an event: the settlement has released
  the listener, or its reference can no longer be resolved, which the code takes for a sign that the
  environment is going away, and so does the model.
* *Engine.* A thread-safe function is open, closing (released with an empty queue, or its
  environment torn down), finalized and deleted. The finalizer runs before the queue is
  drained with a null environment, as Node does and as the code's comments require. A push
  on a closing handle costs the thread its reference to it; without one the engine reports
  an invalid argument.

Steps that were merged, and why this hides nothing: the two loads of
`waitForTaskDoneOrAbort` read flags that only ever become true; `closeEventQueue` stores and
wakes in one step, since a producer that looks between the two sees the closed queue; the
failure path of a push closes the gate, drops the record's reference and frees the slot in
one step, all of them writes nobody waits for in between; `AbortWakes` wakes the controller
and the producers together.

Left out of the data: payloads, results and errors other than "ok or error", listener
values, record pooling, `state` (reported to nobody), the diagnostics counters. Left out of
the control: the `single` runtime, and everything under `use_wasm_*` (the barrier, the
`settled` race it creates, async work, the futex); the descriptor and `create`, whose
effects are the initial states. `settled` is omitted because without the barrier
`dispatchSettlement` runs at most once.

### AsyncTask and the refinement

`AsyncTask` has seven variables and eight actions: a task starts, emits and ends; accepted
events are delivered; a cancellation may be requested; the promise settles once, never while
the task runs, never with events left over unless the task was cancelled, with the reason of
the highest priority; nothing is delivered or settled after teardown. `Contract` in
`AsyncOperation` maps `phase` to the task's progress, `cancelled` to `cancel_requested` and
`live` to the environment; `accepted`, `delivered` and `promise` are carried by name.
`ImplementsContract` is checked as a property of the main run.

### WasiBinding

One loader that was required or imported once. `host` says which template it is, `abi` which
of the two cleanup exports the linked module has. The loader's JavaScript is one thread: `pc`
is its place in the disposal or rollback chain. A synchronous run of code is split at every
look at the crash flag, because workers raise it from other threads at any time; while `pc`
is in `SyncPoints` no other action of the main thread is possible. In `AwaitPoints` the chain
waits for a promise or a macrotask, and calls, dispatches, the exit event and replays come
in between.

* *Load.* `FetchModule` and `CreateContext`, `BeforeInit`, `Publish`, or
  `InitializationFails` from each of them. The Node.js loader registers the exit listener when
  it publishes the binding and a rollback record when it fails; the browser loader has neither.
* *Disposal.* `prepare` calls the barrier and reads the number of owed settlements;
  `DrainTurn` is one turn of the bounded drain, blind when the module cannot count;
  then the context is destroyed and every worker terminated. Each of these may fail, which ends
  the chain with the promise rejected and free to be called again.
* *Crash.* A worker may crash at any moment. The disposal that finds out closes the re-entry
  gate (`closed`), only terminates workers and rejects (`disposeAfterThreadCrash`, the pass
  "crash"), while the pass of an ordinary disposal may still be under way.
* *Rollback.* A failed load runs the same chain with `mode = "rollback"`; what it could not do
  stays in `record` and is replayed by the next evaluation.
* *Exit.* The synchronous teardown of the "exit" event; it cannot yield and may therefore
  strand settlements, which is why the properties speak of a process that lives.

External: emnapi's `Context.destroy()` (discards what is queued), dispatch of thread-safe
functions, `worker.terminate()`, and the addon's promises (`StartWork`, `FinishWork`). The
library's half of the barrier is the number of queued settlements.

`TerminateThrows` is FALSE in the runs: a `terminate()` that throws before it returns a promise, for every
worker, leaves the promise of a crash disposal pending. Node.js and browsers do not throw there. A
browser loader whose rollback was retained has no record and nothing that would replay it;
`OwedTeardown` therefore speaks of Node.js.

### WasiRegistry

`Instances` are the evaluations of one file: a failing `require` is not cached, so the next
one evaluates the file again, with a new context but the same registries. A rollback that
awaits nothing has its outcome in the same run; otherwise `RollbackSettles` is a later step of the
evaluation that started it (`runner`), which need not be the one that owns the context.
`CreateContext` includes the capture of the `beforeExit` listener emnapi registers, with the
program's own `newListener` hook possibly between. `error` is the error a record keeps and
every `require` throws: what the load threw (with or without a cause, or something that takes
no properties) with the failure of each rollback attached to it (`attachCleanupErrors`).
Evicting a file that is in use from the module cache
(`delete require.cache[...]`) is not modelled: the second evaluation's
retained rollback would then find the first one's listener and register none of its own.

### WorkerCrash

Workers and the host run in parallel on shared memory. Each atomic of the worker's crash
handler is a step: claim the report (compare-and-exchange), write it, its thread, its length,
publish it, raise the flag, raise the addon's flag by its address if known, on Node.js call
the addon's export otherwise, and let the error leave as an event. That call
(`this.instance?.exports?.napi_wasm_thread_crashed?.()`, inside a `try` with an empty `catch`) may
come to nothing: the worker has an instance only after `onLoad`, the module may not
export the function (`exported`), and the call may trap (`trapped`, a history variable). The
loader's flag is up by then in every case, so the loader knows of the crash, but the addon need
not: `CrashIsReported` promises the addon's flag to a worker that has its address, and
the flag or a trap to one that has the export. The host looks at flag and
report at any time. `execArgv` is what the construction of a Node.js worker is tried with:
options Node.js refuses are named by the error and removed, and the construction is tried
again; options are a set of model values, of which some carry the program's own code and are
removed beforehand. `LoadRuntime`, `CreateWorkerContext` and `InstallHandler` are the steps at
which the start of a worker script may fail; without a handler a failure is known by the
worker's "error" event only.

### WasiDeferred

One action is the code between two awaits. Disposals exist on three levels: an instance's
own, the default instance's, and the module's, which also runs the destroyers of contexts
that a failed initialisation left behind. `batch` is the set of destroyers in flight, `bp`
where each of them stands; `beforeExit` starts a batch too, from a once-listener. The bounded
drain is one await that ends with an empty queue or gives up. Left out: a `process.once` that
throws and its microtask retries, and hosts without process events.

### ProjectBuild

Files are reduced to what the properties tell apart: the `napi` section of `package.json` and
the loaders it lists, the memory limits compiled into a wasm file or written into a loader,
the flavor `browser.js` names, and the package directories. A build is a chain of steps from
"preparing" to "ending", with a step for each file it writes and an await between its two
reads of the configuration; `snapshot` is what it read. The user edits `package.json` between any
two steps. A watcher keeps `notified`, `timer` and `pending`; its child ends by itself or is
killed by the signal. `new` is the choice of targets; `artifacts` collects what upstream
tooling (external) put together; `package` copies.

What the model showed and no property states: a build ends by writing `package.json` as it read
it, with its own `files`, so an edit in between is lost (cli 1182); after a change of memory limits, a native build or `artifacts` rewrites the WASI
loaders while the wasm files keep the old limits until the next WASI build; a build of a
project without WASI flavors returns early and leaves the loaders of removed flavors;
`files` of `package.json` only ever grows; a configuration error in a watched build ends the
watcher, because `fail` exits the process. `BuiltFlavorMatches` is restricted to the flavor that
was built for this reason.

### RenameProject and AddonLoading

`RenameProject` has one step per file operation, each of which may fail; another process may
write any file. `raced`, `undone` and `half` are ghosts that name the excuses of the
properties: a file written by somebody else after it was read, an undo step that failed, a
temporary file whose own write failed half-way. A destination created after staging is
overwritten by the move, and a process that is killed while it applies leaves a mixed tree; neither
is promised by the code. The dry run of an upstream rename (external) works in a copy.

`AddonLoading` is sequential: the run enumerates every layout and every setting of the
variables and follows the candidate loops. Errors are counted, not described (the code chains
them through `cause`, overwriting a `cause` the candidate's error had). The loader stamps the artifact's
name on the binding; the entry itself stamps nothing.

## Runs

| Run | Instance | Properties | Shows |
|---|---|---|---|
| `reap_service` | 4 nodes, cap 2, spawns may fail | `TypeOK`, `WorkersBounded`, `NoStrandedNode`, `QueueDrains` | the bound, no lost node; every submitted node runs unless a spawn fails, and one started thread drains the queue |
| `runtime_registry` | 3 incarnations, 2 addresses, 2 operations, 3 runtimes, failures | `TypeOK`, `LeaseKeepsRuntime`, `EntryCountsLeases`, `EntriesExact`, `RuntimeHasOneHolder`, `RetiredIsDestroyed` | registry safety; a retired runtime is destroyed while a reaper is there |
| `async_operation` | 2 producers, 1 slot, 2 emits each, all failures | `TypeOK`, `RefCountExact`, `NoUseAfterFree`, `NoPushAfterFinalizer`, `Bookkeeping`, `SettlementIsLast`, `ImplementsContract`, `PromiseSettles`, `OperationFreed` | safety, the contract, settlement, and the return of memory and lease |
| `wasi_binding` | 2 promises, 2 workers, 2 callers, both hosts, all cleanup failures, a crash | `NoStrandedSettlement`, `OwedTeardown`, `TeardownLeavesNothing`, `NoEntryAfterClose`, `TeardownsEnd` | the life of one binding |
| `wasi_registry` | 5 evaluations, symmetry | `ListenerIsOwners`, `FailedLoadRemembered` | the registries of one file |
| `worker_crash` | 2 workers, 4 options, both hosts | `ReportIsWhole`, `CrashIsReported` | whole reports, no silent crash |
| `wasi_deferred` | 2 instances of either kind, 1 beforeExit | `YieldingPathsStrandNothing`, `RetainedIsManaged`, `OneSingleton`, `DisposeSettles` | the deferred loader |
| `project_build` | 5 configurations, 2 edits, 2 commands | `BuiltFlavorMatches`, `RemovalIsSafe`, `StopStartsNoChild`, `ChangesAreBuilt`, `BuildsComeToRest` | what is on disk fits together; the watcher misses nothing and rests |
| `rename` | 2 edits, 2 moves, 2 faults, 1 foreign write | `AllOrNothing`, `NoTempLeft` | renames entirely or not at all |
| `addon_loading` | 2 tuples, 3 native and 5 WASI layouts, 4 export shapes | `EntryPolicy` | the candidate policy |
| `async_operation_lost_events` | spawn failures | `EventsPrecedeSettlement` | violated: see Findings |
| `project_build_entry` | as `project_build` | `EntryIsConfigured` | violated: see Findings |

Some properties are conjunctions of named parts: `QueueDrains` is `SubmittedRuns` and
`StartedThreadDrains`; `EntriesExact` is `LeaseOnOwnEntry`, `LiveEntriesAreLive` and
`ActiveRuntimeHasOwner`; `Bookkeeping` is `AbortFindsOperation`, `GateCounts`, `SlotsExact` and
`FutureNotLeaked`; `SettlementIsLast` is `CompletionIsLast` and the delivery of every accepted event
before the controller's settlement; `TeardownLeavesNothing` is `ResolvedMeansClean` and
`FailedLoadMeansClean`; `FailedLoadRemembered` is `OneContextPerFile` and `NoFailureLost`;
`TeardownsEnd` is `DisposeSettles` and `RollbackEnds`; `EntryPolicy` is
`LoadsTheRightArtifact`, `FailsForAReason` and `NamesTheArtifact`. The JavaScript modules'
`TypeOK` (`RenameTypeOK`; for `AddonLoading`, `EnvironmentOK` and `LoopShape` of `Project_proofs`) holds on the same instances and
is proved below; it is not among the properties of their runs, which are about hazards.

### Bounds

* `ReapService`: four nodes and a cap of two give a busy worker, a leaving worker, a submit
  whose spawn is under way and a node behind them, all at once; a third worker adds no new
  relation between `pending` and `workers`.
* `RuntimeRegistry`: three incarnations on two addresses cover a dead and a live environment at
  one address beside a third one; three runtimes cover a live one, a retired one and one being
  destroyed; two operations are one that outlives its environment and one that does not.
* `AsyncOperation`: one slot and two producers are the smallest queue on which a producer
  sleeps while another one holds the slot; two emits let a producer reuse a slot. `MaxEmits`
  (guard of `EmitBegins`) is the only artificial bound in its actions; that a signal fires once
  (guard of `AbortBegins`) is one of the `AbortSignal` itself.
* `WasiBinding`: two promises are one settled and one still in flight at the end of a drain; two
  workers are one that crashes and one that is terminated; two callers share or replace a
  promise. `DrainTurns` is 2 (128 in the code) and `BlindTurns` 1 (4): the drain ends early,
  at its last turn, or at its bound, whatever the number. `MaxReplays` is 1.
* `WasiRegistry`: five evaluations are a failed one, two that meet its record, one that loads,
  and one after its disposal.
* `WorkerCrash`: two workers race for one report; of the four options one carries the
  program's code, two are refused and one is accepted.
* `WasiDeferred`: two instances are the default one and its successor, the default one beside
  an independent one, or two independent ones; `MaxExits` is 1: one batch is started by the
  listener, before, during or after those of `dispose`.
* `ProjectBuild`: configurations with one flavor, with both (and a larger threadless memory), with
  none, with a rejected target, and with memory that cannot grow; with `Image` 1,
  `DefaultInitial` 2 and `DefaultMaximum` 5 every comparison of limits is decided both ways.
  `MaxEdits` and `MaxCommands` are 2: an edit during the first build and one during the second.
* `RenameProject`: one file is edited and moved, one only edited, one only moved (no file is staged
  twice, see `OrderAssumption`); two faults are one in the rename and one in its undo. `MaxFaults`, `MaxWrites` bound the environment.
* `AddonLoading`: `zig-out`, `root` and `package` are all the places; layouts include a loader
  without its module and a loader that finds another place's module.

The proofs do not depend on any of these numbers. All runs say `CHECK_DEADLOCK FALSE`: the
systems really come to rest, when every node ran, every environment is gone, the operation is
freed, the process exited, or the commands and edits are used up. No liveness run uses symmetry.

### Fairness

Only steps of what exists and can run are weakly fair, and weak fairness suffices: every wait in
the code is for something that, once true, stays true until the waiter moves, or is re-signalled
by the one who changes it. Nobody is obliged to submit, abort, tear down, crash, edit, or fail.

* Native: helper threads and their cleanups, pool threads, the controller, the reaper, the
  JavaScript thread once a call, a dispatch or the finalizer is under way, and the event loop,
  which dispatches a non-empty queue and finalizes a closing handle. User code is assumed to
  return (`ProducerStops`, `ListenerReturns`, the cleanup of a node); without that nothing can
  be promised. `PromiseSettles` excepts an environment that goes away (a dead environment
  settles nothing) and an operation whose gate a push that failed on the open handle has closed
  for good (`FailedPushLeftGateClosed`, see Known divergences). The latter is a state that never ends, and
  not one that a settlement passes through: from the release of the handle on it is `owned`.
  A settlement that has begun must therefore be carried through to the promise.
* Loaders: the event loop comes round to every continuation, and promises returned by
  `destroy()` and `terminate()` settle, either way. The addon's own work need not end: the
  drain is bounded for that reason. A crashing worker finishes its handler and the host handles
  its events; the synchronous construction of a worker ends.
* Command line: a build's steps, its child, the watcher's timer and file events. A watch
  command's child ends or is killed.

## Findings

Each is a run that TLC refutes, stating what the repository says.

1. `async_operation_lost_events`. website/src/content/api/async-runtime.md: "every event emitted
   before the task returned is delivered before the Promise settles". If the controller cannot be
   started, the promise is rejected at once and the queued events are dropped. With a started
   controller the sentence holds (`SettlementIsLast`).
2. `project_build_entry`. The comment at cli 865-866 says "Configured flavors count too: a
   single-flavor build must not repoint the entry at a flavor the project does not actually
   ship." The entry is chosen from the flavors of this run and the configured ones together, the
   single-threaded one first, so `build --target wasm32-wasip1` in a project that configures
   only the threaded flavor repoints `browser.js`.

### Known divergences

Further disagreements between a comment or a test and the code, each reproduced by
`tlc -config <cfg> <module>`:

| Configuration | Property | What the repository says, and what happens |
|---|---|---|
| `MCReapServiceOutstanding.cfg` | `OneWorkerPerOutstandingItem` | submit's comment: "One worker per outstanding item, capped". The test compares the *queued* nodes with the workers, so with one worker busy the next node starts none and waits behind it. |
| `MCRuntimeRegistryStranded.cfg` | `NextAcquireReleasesRetired` | maybeRetireRuntimeLocked: without a helper thread "the runtime stays retired until the next acquire". An acquire releases one; two can be retired. |
| `MCAsyncOperationHandle.cfg` | `LiveHandleReleased` | postToDispatcher: after an incidental failure "leave the still-live handle for the JavaScript thread to release". The gate it closes also refuses the completion, whose dispatch alone would release the handle. Node.js reports no such failure for an unbounded queue. |
| `MCWasiBindingLatch.cfg` | `CrashDisposalLatched` | crash.test.cjs: "crash disposal must remain latched". When a termination fails after a crash, the latch is cleared for a retry (wasi-templates 739-744, 751-756). |
| `MCWasiDeferredRetry.cfg` | `OnlyExitStrands` | wasi-templates 2479-2483: only the cleanup of `beforeExit` cannot yield. Module `dispose()` retries a retained rollback through the same destroyer, without a drain (2631-2634). |

## Proofs

`TLAPS` checks the theorems below for every value of the constants that satisfies the module's
named assumptions: `ReapAssumption`, `RegistryAssumption` (one in `RuntimeRegistry`, one in
`WasiRegistry`), `OperationAssumption`, `BindingAssumption`, `WorkerAssumption`,
`DeferredAssumption`, `PathsAssumption`, `ConfigsAssumption`, `DefaultsAssumption`,
`NoneAssumption`, `BoundsAssumption`, `LayoutsAssumption`. They ask that the actors that are counted are
finite, that inputs have their shape, that null values are distinct, and that bounds are
naturals or positive. `DefaultsAssumption` orders the memory sizes of the package: a
module's own image, at least one page, fits the default initial size, which is below the default
maximum (wasi-templates 91-92: 4000 and 65536 pages). `OrderAssumption` of
`RenameProject` says that the staged edits and the moves are sequences without repetition:
`edits` is a `Map` keyed by file, the walk visits a file once, and a destination keeps the
directory and the suffix of its file, so two files never move to one place
(rename-project.cjs 36-173).

| Theorem | Establishes |
|---|---|
| `ReapService_proofs!TypeCorrect` | `TypeOK` |
| `ReapService_proofs!WorkersExactAndBounded` | `WorkersExact`, `WorkersBounded` |
| `ReapService_proofs!NodesNotStranded` | `NoStrandedNode` |
| `ReapService_proofs!StrandedNodesRecoverable` | `StrandedNodeIsRecoverable` |
| `ReapService_proofs!NodesRunOnce` | `EachNodeOnce`, the safety half of `QueueDrains` |
| `RuntimeRegistry_proofs!TypeCorrect` | `TypeOK` |
| `RuntimeRegistry_proofs!LeaseSafe` | `LeaseKeepsRuntime`, `LeaseOnOwnEntry` |
| `RuntimeRegistry_proofs!RegistryExact` | `EntryCountsLeases`, `LiveEntriesAreLive` |
| `RuntimeRegistry_proofs!RuntimeDestroyedOnce` | `RuntimeHasOneHolder` |
| `RuntimeRegistry_proofs!EntriesAreExact` | `EntriesExact` |
| `RuntimeRegistry_proofs!NoRuntimeLost` | `RuntimesAreKept`, the safety half of `RetiredIsDestroyed`, and `WorkersHaveRuntime`: no runtime is freed under its pool workers |
| `AsyncOperation_proofs!TypeCorrect` | `TypeOK` |
| `AsyncOperation_proofs!ReferencesExact` | `RefCountExact` |
| `AsyncOperation_proofs!HandleSafe` | `GateCounts`, `NoPushAfterFinalizer` |
| `AsyncOperation_proofs!OperationSafe` | `NoUseAfterFree` |
| `AsyncOperation_proofs!AccountsExact` | `Bookkeeping` |
| `AsyncOperation_proofs!NothingFollowsSettlement` | `SettlementIsLast` |
| `AsyncOperation_proofs!OperationImplementsContract` | `ImplementsContract`: the refinement of `AsyncTask` |
| `AsyncOperation_proofs!NoWakeUpLost` | `SleepShape`, `EveryWaitIsServed`, the safety half of `PromiseSettles` and `OperationFreed` |
| `WasiBinding_proofs!TypeCorrect` | `TypeOK` |
| `WasiBinding_proofs!NothingStranded` | `NoStrandedSettlement` |
| `WasiBinding_proofs!TeardownIsOwned` | `OwedTeardown` |
| `WasiBinding_proofs!SuccessLeavesNothing` | `TeardownLeavesNothing` |
| `WasiBinding_proofs!ClosedIsNotEntered` | `NoEntryAfterClose`, an action property |
| `WasiBinding_proofs!TeardownsAreRun` | `TeardownsHaveRunner`, the safety half of `TeardownsEnd` |
| `WasiRegistry_proofs!TypeCorrect` | `TypeOK` |
| `WasiRegistry_proofs!ListenerOwned` | `ListenerIsOwners` |
| `WasiRegistry_proofs!FailureRemembered` | `FailedLoadRemembered` |
| `WorkerCrash_proofs!TypeCorrect` | `TypeOK` |
| `WorkerCrash_proofs!ReportWhole` | `ReportIsWhole` |
| `WorkerCrash_proofs!DeadIsVisible` | `CrashIsVisible`, the safety half of `CrashIsReported`: the address means the addon's flag is up, the export that it is up or the call trapped |
| `WasiDeferred_proofs!TypeCorrect` | `TypeOK` |
| `WasiDeferred_proofs!NothingDiscarded` | `YieldingPathsStrandNothing` |
| `WasiDeferred_proofs!FailedIsKept` | `RetainedIsManaged` |
| `WasiDeferred_proofs!SingletonIsOne` | `OneSingleton` |
| `WasiDeferred_proofs!NobodyWaitsInVain` | `WaitsAreServed`, the safety half of `DisposeSettles` |
| `Project_proofs!TypeCorrect` | `TypeOK` of `ProjectBuild` |
| `Project_proofs!BuildsMatch` | `BuiltFlavorMatches` |
| `Project_proofs!RemovesOnlyStale` | `RemovalIsSafe`, an action property |
| `Project_proofs!NoChildAfterStop` | `StopStartsNoChild`, an action property |
| `Project_proofs!WatcherRemembers` | `NoChangeIsForgotten`, the safety half of `ChangesAreBuilt` |
| `Project_proofs!RenameTypeCorrect` | `RenameTypeOK` |
| `Project_proofs!RenamesWhole` | `AllOrNothing` |
| `Project_proofs!LeavesNoTemp` | `NoTempLeft` |
| `Project_proofs!EntryFollowsPolicy` | `EntryPolicy` |

The argument has the same form everywhere: an inductive invariant `IInv`, `Init => IInv`,
one lemma or case per action for `IInv /\ [Next]_vars => IInv'`, and the properties as consequences.
TLC checked each inductive invariant on the module's instance before it was proved.

* *ReapService.* `workers` is a natural number only because it equals the number of counted
  threads plus the spawns under way, so the type, `WorkersExact` and the cap are proved
  together, with the cap on the counter itself (`workers <= MaxWorkers`): `ClaimWorker` and
  `Submit` both test it under the lock. `NoStrandedNode` is not inductive by itself either:
  a submit that starts no thread relies on `workers > 0`, hence on a counted thread, to have
  somebody who will look again. `EachNodeOnce` follows each node from the queue to one thread
  to the finished ones: a step moves it on, and no step copies or drops it.
* *RuntimeRegistry.* A lease keeps its runtime because the runtime retires only when both
  lists are empty, and its entry is on one of them as long as its count is not zero; the count
  is the cardinality of the leases. That an entry belongs to its operation's own environment
  needs that live entries belong to live environments, one per address, and that
  `addr` never changes. An active runtime has an owner because a closed entry is freed with its
  last lease (`ClosingDrains`): a list that is not empty names somebody who will retire it.
  Every step that takes a runtime from the live slot, the retired list, the reaper or the
  JavaScript thread that destroys it gives it to another one of these, and destruction is behind
  the join of the runtime's pool workers.
* *AsyncOperation, references.* `IInv` is `TypeOK`, `RefCountExact`, `GateCounts`,
  `NoPushAfterFinalizer` and `Shape`, which says which states of the actors go together: what
  the JavaScript thread can
  be doing when the handle or the task is in a given state (`JsShape`), which actors exist
  before the spawns (`SpawnShape`), where producers can be while the task does not run
  (`ProducerShape`), what the handle's states say about the word (`HandleShape`), and who owns
  the controller's future (`ReapShape`). Without `Shape` the count of owners could not be shown
  to move by the same amount as `ref_count`: an action's guard usually mentions one actor, while
  the sum mentions all of them. `NoUseAfterFree` then follows: if the sum is zero, so is each
  of its terms.
* *AsyncOperation, contract.* The second invariant `CInv` relates steps that are far apart. The
  completion is last because the controller posts after the join and every producer has stopped by
  then (`ControllerShape`); what `destroyJs` gave up stays given up (`TornShape`,
  `ReleasedShape`); and while the handle is open and the JavaScript thread has not given the
  operation up, the accepted events are exactly those delivered, with the listener, or
  queued (`DeliveryShape`). The decided settlement is still the right one when the promise settles
  some steps later (`OutcomeShape`): the flags that decide it no longer change. With these, each
  action is shown to be one of `AsyncTask`'s or a stutter: an accepted event comes while the task
  runs, a cancellation or a delivery while the environment lives and the promise is pending, and
  `FinishSettlement` settles with the reason the contract asks for, a cleanup that failed included.
* *AsyncOperation, waits.* `SleepShape` is what makes a single wake-up enough: while a producer
  sleeps and no abort is under way, the slots in use and the producers that are looking for one
  cover the limit, and nobody sleeps once the queue is closed or an abort is over. A release
  signals one sleeper for its one slot, and closing and aborting broadcast. With `SlotsExact` and `DeliveryShape` this says that
  a sleeper always has an event on its way, a thread that will free a slot, or a finalizer that
  will wake it (`EveryWaitIsServed`). The waits of the controller and of the JavaScript thread are
  there too, so that no cycle of waits is possible. Without the signal of a release TLC refutes it.
* *WasiBinding.* The chain carries what it has established: after the drain nothing is queued if
  the module can count (`BarrierShape`), because a barrier that ran lets no work start or
  finish; a "main" pass that waits holds every live worker (`StopShape`); and whoever is
  told that the disposal resolved is told so by the chain's end (`ChainShape`). A crash can
  cut the chain between any two of its steps, which is why these say "drained, or the
  barrier did not run", never "drained". The proof covers a `terminate()` that throws too
  (`TerminateThrows` TRUE), which only the liveness property excludes. Every step that enters
  the instance tests the gate, so `NoEntryAfterClose` is proved step by step. `WaitShape`
  adds that a pending promise has a run, or an open termination, behind it; the exception is a
  `terminate()` that throws after a crash, which the theorem states.
* *WasiRegistry.* A context that is alive belongs to the cached instance or to the record, never
  to both (`AliveIsAccounted`), and a record that is replayed has a runner (`RecordShape`):
  from these there is one context per file and the listener is its owner's, for any
  number of evaluations.
* *WorkerCrash.* The compare-and-exchange elects one writer (`WriterAlone`) and nobody writes after
  publication, so body and thread name agree whenever the length is there (`BodyIsOfThread`),
  and what the host read stays true (`ErrorFromReport`). A worker that is past the step that raises
  a flag left it up, and nothing takes it down (`FlagsRaised`); an address, an instance and
  a trap are never forgotten either.
* *WasiDeferred.* A path that destroys a context after its drain finds nothing unsettled, as
  nothing starts behind the barrier (`DrainShape`); an independent instance is managed only after
  a failure (`FailedShape`); a context whose destruction began stays managed until it is gone
  (`ManagedShape`); a singleton that is not disposed is the default one (`DefaultShape`). Each
  level waits for the one below it, and only while that one is under way (`WaitsAreServed`),
  so disposals that overlap cannot wait for each other in a circle.
* *ProjectBuild.* What a build writes for its flavor - the limits linked into the module and the
  limits its loader allocates - comes from one snapshot (`ReadShape`), and from the step that
  copies the module to the step that writes the loader the two agree (`BuiltShape`), however
  often `package.json` changes meanwhile. A removal is decided by the same snapshot and by the entry
  as it is then. A change seen by the watcher moves from event to timer to queued build to a build
  that has yet to read (`NoChangeIsForgotten`); a signal clears all of them (`WatchShape`), so
  nothing is left that would start a child.
* *RenameProject.* The operator `After(base, w, m)` is the tree after `w` edits and `m` moves. Each
  step of the run and of its undo moves the tree between neighbouring values of it; moves
  begin when all edits are done and edits are undone when no move stands. The lemmas
  about `After` are what `OrderAssumption` is for: moving back restores the
  file only if no other move took its source or reached its destination.
* *AddonLoading.* When the loops stand at a candidate, those before it were tried and did not load
  (`NativeTried`, `WasiTried` in `SearchShape`); a loop that ran out therefore means that there
  is none, and one that stopped has the first permitted candidate (`Chosen`, `NotFound`). The
  lists of candidates may have any length.

Checked by TLC only:

* the liveness properties (`QueueDrains`, `RetiredIsDestroyed`, `PromiseSettles`,
  `OperationFreed`, `TeardownsEnd`, `CrashIsReported`, `DisposeSettles`, `ChangesAreBuilt`,
  `BuildsComeToRest`): fairness and ENABLED are out of the prover's reach. The theorems named
  above as their safety halves prove that nobody is left waiting without somebody who will act; that this
  somebody does act is what TLC checks. `BuildsComeToRest` has no such half. The refinement
  theorem is for the same reason about the safety of `AsyncTask`, which states no fairness;
* what a loop of the code computes for inputs of any length, where the model has its result
  rather than its steps (the flavors a run builds, the program's own code among the `execArgv`
  options): that is induction over data. The loops over candidates, edits, moves and refused
  options are steps of the model and are covered.

Every invariant and every action property of the passing runs is stated by a theorem. The properties under Findings and Known divergences are violated, so there is nothing to prove.

## Plan

1. Done: `ReapService`, `RuntimeRegistry`, `AsyncTask`/`AsyncOperation` with the proofs above;
   `WasiBinding`, `WasiRegistry`, `WorkerCrash`, `WasiDeferred`; `ProjectBuild`, `RenameProject`,
   `AddonLoading`.
2. Done: the proofs. Every safety property and every action property of the passing runs, the contract of
   `AsyncOperation`, and the safety halves of the liveness properties are theorems.
3. `EventQueue`: slots with an explicit mutex and condition variable, and the futex variant of
   the threaded wasm build; an abstract bounded queue both implement.
4. `WasmBarrier`, the library half: registry, node states, `settleForWasmCleanup`, the
   settlement counter; each reference dropped once, zero pending means nothing left to wait for.
5. `AbortRegistration`: the mutex handshake, the two references, `bindOwned`'s roll-back.
6. `TsfnWrapper`, `ManagedReference`, `NativePromise`, `Worker`: ledgers and counts against
   cleanup hook, finalizer and drain.
7. `AllocatorOverride`, descriptor and `create`, `NativeWrap`, the declaration cache.

## Not modelled

* The value conversions, class wrappers, declaration generator, build integration and raw
  bindings keep no protocol state: they are functions of their input, or build-time programs.
* In the native operation: the `single` runtime and the paths under `use_wasm_*`. The remaining
  concurrent components are in the plan and, with their hazards, in `PROJECT.json`.
* In the loaders: the text of errors; the file system roots and environment given to WASI; streams of the browser fetch beyond "it arrived
  or not". The loaders under `examples/` are outputs of the modelled templates.
* In the command line: `dts`, `pre-publish`, `version` and `universalize`, which call other
  tools; the copy rules of native libraries; the declaration cache (`build-output.cjs` 68-142);
  what follows a rename (fingerprint, loaders) and the upstream rename itself.
