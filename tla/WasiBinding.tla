---------------------------- MODULE WasiBinding ----------------------------
(* One instance of a generated WASI loader, for Node.js or the browser:      *)
(* initialization, the environment-cleanup barrier, the bounded settlement   *)
(* drain, disposal, the rollback of a failed initialization with its replays,*)
(* a worker crash at any point, and the synchronous teardown of the "exit"   *)
(* event.  The Node.js loader initializes in one synchronous run and owns an *)
(* "exit" listener and a rollback record; the browser one awaits the module, *)
(* its instantiation and its own rollback, and owns neither.                 *)
(*                                                                           *)
(* The loader's JavaScript runs on one thread.  A synchronous run of code is *)
(* split at every look at the crash flag, which worker threads raise at any  *)
(* time; while `pc` is in SyncPoints no other action of the main thread is   *)
(* possible.  Everywhere else the chain awaits a promise or a macrotask.     *)
(* Code outside src/: emnapi's Context.destroy(), its thread-safe function   *)
(* dispatch, worker.terminate() and the promises an addon creates.           *)
EXTENDS Naturals, FiniteSets

CONSTANTS Promises,     \* promises the addon may hand to JavaScript
          Workers,      \* worker threads the addon may start
          Callers,      \* callers of binding[Symbol.for("napi.rs.wasi.dispose")]()
          DrainTurns,   \* __WASM_ENV_CLEANUP_DRAIN_TURNS, 128 in the code
          BlindTurns,   \* __WASM_ENV_CLEANUP_BLIND_DRAIN_TURNS, 4 in the code
          MaxReplays,   \* bound on replays of a retained rollback
          TerminateThrows  \* worker.terminate() may throw before it returns

ASSUME BindingAssumption ==
  /\ DrainTurns \in Nat \ {0}
  /\ BlindTurns \in Nat \ {0}
  /\ MaxReplays \in Nat
  /\ TerminateThrows \in BOOLEAN

VARIABLES
  host,       \* "node" or "browser": which loader it is
  abi,        \* which cleanup exports the linked module has
  phase,      \* "loading", "live", "failed" (initialization threw), "exited"
  ctx,        \* the emnapi context: "none", "alive", "destroyed"
  instance,   \* __napiInstance is set
  promise,    \* state of each promise of the addon
  worker,     \* "unused", "live" (in __wasiWorkers), "gone"
  pc,         \* where the disposal or rollback chain stands
  mode,       \* "dispose" or "rollback": who runs the chain
  errors,     \* cleanupErrors of the rollback is not empty
  prepared, ran, drained,  \* __emnapiWasmEnvCleanupPrepared / Ran / Drained
  turn,       \* macrotask turns the drain has taken
  destroyed,  \* __emnapiContextDestroyed
  pass,       \* the two passes of __terminateWasiWorkers that can overlap
  main,       \* __wasiDisposePromise: "none", "pending", "resolved", "rejected"
  crashed,    \* __hasWasiThreadCrashed()
  closed,     \* __wasiReentryClosed
  latch,      \* __wasiThreadCrashDisposePromise: "none", "crash", "main"
  crashSettled, \* the promise of the crash path has rejected
  call,       \* state of each dispose() call
  exitListener, \* the "exit" listener of this file is registered
  record,     \* the rollback record in the process-wide registry
  replays

cleanup == <<prepared, ran, drained, turn>>
crash   == <<crashed, closed, latch, crashSettled>>
platform == <<host, abi>>
addon   == <<platform, instance, promise, ctx>>
chain   == <<pc, mode, errors>>
process == <<phase, exitListener, record, replays>>
vars == <<platform, phase, ctx, instance, promise, worker, pc, mode, errors, prepared,
          ran, drained, turn, destroyed, pass, main, crashed, closed, latch,
          crashSettled, call, exitListener, record, replays>>

Failures == {"failed", "failedDestroy", "failedStop"}
SyncPoints == {"prepare", "probe", "destroy", "terminate", "done"} \cup Failures
AwaitPoints == {"idle", "drain", "drained", "destroying", "terminating", "crashTerminating"}
PassNames == {"main", "crash"}
NoPass == [waiting |-> {}, failed |-> FALSE, open |-> FALSE]

Live == {w \in Workers : worker[w] = "live"}
Queued == {p \in Promises : promise[p] = "queued"}
MainIdle == pc \notin SyncPoints /\ phase # "exited"

TypeOK ==
  /\ host \in {"node", "browser"}
  /\ abi \in [prepare : BOOLEAN, pending : BOOLEAN]
  /\ phase \in {"loading", "live", "failed", "exited"}
  /\ ctx \in {"none", "alive", "destroyed"}
  /\ instance \in BOOLEAN
  /\ promise \in [Promises -> {"none", "running", "queued", "settled", "stranded"}]
  /\ worker \in [Workers -> {"unused", "live", "gone"}]
  /\ pc \in SyncPoints \cup AwaitPoints
  /\ mode \in {"dispose", "rollback"}
  /\ errors \in BOOLEAN
  /\ prepared \in BOOLEAN /\ ran \in BOOLEAN /\ drained \in BOOLEAN
  /\ turn \in 0..(DrainTurns + BlindTurns)
  /\ destroyed \in BOOLEAN
  /\ pass \in [PassNames -> [waiting : SUBSET Workers, failed : BOOLEAN, open : BOOLEAN]]
  /\ main \in {"none", "pending", "resolved", "rejected"}
  /\ crashed \in BOOLEAN /\ closed \in BOOLEAN
  /\ latch \in {"none", "crash", "main"}
  /\ crashSettled \in BOOLEAN
  /\ call \in [Callers -> {"idle", "main", "crash", "resolved", "rejected"}]
  /\ exitListener \in BOOLEAN
  /\ record \in {"none", "idle", "active"}
  /\ replays \in 0..MaxReplays

Init ==
  /\ host \in {"node", "browser"}
  /\ abi \in {a \in [prepare : BOOLEAN, pending : BOOLEAN] : a.pending => a.prepare}
  /\ phase = "loading" /\ ctx = "none" /\ instance = FALSE
  /\ promise = [p \in Promises |-> "none"]
  /\ worker = [w \in Workers |-> "unused"]
  /\ pc = "idle" /\ mode = "dispose" /\ errors = FALSE
  /\ prepared = FALSE /\ ran = FALSE /\ drained = FALSE /\ turn = 0
  /\ destroyed = FALSE
  /\ pass = [n \in PassNames |-> NoPass]
  /\ main = "none"
  /\ crashed = FALSE /\ closed = FALSE /\ latch = "none" /\ crashSettled = FALSE
  /\ call = [c \in Callers |-> "idle"]
  /\ exitListener = FALSE /\ record = "none" /\ replays = 0

-----------------------------------------------------------------------------
(* Initialization: one synchronous require(), or a module evaluation that    *)
(* awaits.                                                                   *)

\* The browser loader fetches the first of two candidates that answers; when
\* none does it throws before there is anything to roll back.
FetchModule ==
  /\ host = "browser" /\ phase = "loading" /\ pc = "idle" /\ ctx = "none"
  /\ phase' = "failed"
  /\ UNCHANGED <<addon, worker, chain, cleanup, destroyed, pass, main, crash, call,
                 exitListener, record, replays>>

CreateContext ==
  /\ phase = "loading" /\ pc = "idle" /\ ctx = "none"
  /\ ctx' = "alive"
  /\ UNCHANGED <<platform, instance, promise, worker, chain, cleanup, destroyed, pass,
                 main, crash, call, process>>

\* beforeInit: the instance is published to the loader, then registration runs
\* with a live environment and may start asynchronous work.
BeforeInit ==
  /\ phase = "loading" /\ pc = "idle" /\ ctx = "alive" /\ ~instance
  /\ instance' = TRUE
  /\ UNCHANGED <<platform, ctx, promise, worker, chain, cleanup, destroyed, pass, main,
                 crash, call, process>>

Publish ==
  /\ phase = "loading" /\ pc = "idle" /\ instance
  /\ phase' = "live" /\ exitListener' = (host = "node")
  /\ UNCHANGED <<addon, worker, chain, cleanup, destroyed, pass, main, crash, call,
                 record, replays>>

\* Anything in the try block may throw: the rollback starts in the same run.
\* Node.js keeps its record in a process-wide registry; the browser loader just
\* awaits it, which `record` = "active" stands for.
InitializationFails ==
  /\ phase = "loading" /\ pc = "idle"
  /\ phase' = "failed" /\ record' = "active"
  /\ pc' = "prepare" /\ mode' = "rollback" /\ errors' = FALSE
  /\ UNCHANGED <<addon, worker, cleanup, destroyed, pass, main, crash, call,
                 exitListener, replays>>

\* The addon starts asynchronous work and hands its promise to JavaScript; a
\* module without the barrier accepts it until the context is gone.
StartWork(p) ==
  /\ MainIdle /\ phase \in {"loading", "live"} /\ instance /\ ctx = "alive"
  /\ ~ran /\ ~closed /\ promise[p] = "none"
  /\ promise' = [promise EXCEPT ![p] = "running"]
  /\ UNCHANGED <<platform, ctx, instance, worker, chain, cleanup, destroyed, pass, main,
                 crash, call, process>>

\* A worker thread finishes the work and queues its settlement.
FinishWork(p) ==
  /\ phase # "exited" /\ promise[p] = "running"
  /\ promise' = [promise EXCEPT ![p] = "queued"]
  /\ UNCHANGED <<platform, ctx, instance, worker, chain, cleanup, destroyed, pass, main,
                 crash, call, process>>

\* Mutant: callbacks run although re-entry is closed.
DispatchUngated(p) ==
  /\ MainIdle /\ (phase = "loading" => host = "browser")
  /\ ctx = "alive" /\ promise[p] = "queued"
  /\ promise' = [promise EXCEPT ![p] = "settled"]
  /\ UNCHANGED <<platform, ctx, instance, worker, chain, cleanup, destroyed, pass, main,
                 crash, call, process>>
\* A macrotask of emnapi's thread-safe function dispatch: __wasiSetImmediate
\* drops the callback once re-entry is closed.
Dispatch(p) ==
  /\ MainIdle /\ (phase = "loading" => host = "browser") /\ ~closed
  /\ ctx = "alive" /\ promise[p] = "queued"
  /\ promise' = [promise EXCEPT ![p] = "settled"]
  /\ UNCHANGED <<platform, ctx, instance, worker, chain, cleanup, destroyed, pass, main,
                 crash, call, process>>

onCreateWorker(w) ==
  /\ MainIdle /\ phase \in {"loading", "live"} /\ ctx = "alive" /\ ~closed /\ ~ran
  /\ worker[w] = "unused"
  /\ worker' = [worker EXCEPT ![w] = "live"]
  /\ UNCHANGED <<addon, chain, cleanup, destroyed, pass, main, crash, call, process>>

\* A worker thread stops on an uncaught error: it raises the flag itself, or
\* the "error" event does.
WorkerCrash(w) ==
  /\ phase # "exited" /\ worker[w] = "live" /\ ~crashed
  /\ crashed' = TRUE
  /\ UNCHANGED <<addon, worker, chain, cleanup, destroyed, pass, main, closed, latch,
                 crashSettled, call, process>>

-----------------------------------------------------------------------------
(* __terminateWasiWorkers: every registered worker is asked to stop.  `gone` *)
(* stop at once, as every browser worker does, `threw` throw, the others     *)
(* answer later.                                                             *)

terminateWasiWorkers(n, gone, threw) ==
  /\ gone \subseteq Live /\ threw \subseteq Live \ gone
  /\ TerminateThrows \/ threw = {}
  /\ host = "browser" => gone \cup threw = Live
  /\ worker' = [w \in Workers |-> IF w \in gone THEN "gone" ELSE worker[w]]
  /\ pass' = [pass EXCEPT ![n] = [waiting |-> Live \ (gone \cup threw),
                                  failed  |-> threw # {},
                                  open    |-> Live # gone \cup threw]]

\* Nothing to await: `finish` runs in the same call, and throws if one threw.
TerminatedAtOnce(n) == ~pass'[n].open
TerminationFailedAtOnce(n) == TerminatedAtOnce(n) /\ pass'[n].failed

\* The promise of one terminate() call settles.
WorkerTerminated(n, w, ok) ==
  /\ MainIdle /\ w \in pass[n].waiting
  /\ pass' = [pass EXCEPT ![n].waiting = @ \ {w},
                          ![n].failed = @ \/ ~ok]
  /\ worker' = IF ok THEN [worker EXCEPT ![w] = "gone"] ELSE worker
  /\ UNCHANGED <<addon, chain, cleanup, destroyed, main, crash, call, process>>

-----------------------------------------------------------------------------
(* __disposeWasiBinding                                                      *)

\* After a crash: join the latched promise, or close re-entry, stop the
\* workers and latch a promise that will reject.
disposeAfterThreadCrash(c) ==
  /\ MainIdle /\ phase = "live" /\ call[c] = "idle" /\ crashed
  /\ \/ /\ latch = "crash"
        /\ call' = [call EXCEPT ![c] = IF crashSettled THEN "rejected" ELSE "crash"]
        /\ UNCHANGED <<closed, latch, crashSettled, pass, worker>>
     \/ /\ latch = "main"
        /\ call' = [call EXCEPT ![c] = IF main = "pending" THEN "main" ELSE "rejected"]
        /\ UNCHANGED <<closed, latch, crashSettled, pass, worker>>
     \/ /\ latch = "none"
        /\ closed' = TRUE /\ latch' = "crash"
        /\ \E gone \in SUBSET Live, threw \in SUBSET Live : terminateWasiWorkers("crash", gone, threw)
        /\ crashSettled' = TerminatedAtOnce("crash")
        /\ call' = [call EXCEPT ![c] = IF TerminatedAtOnce("crash") THEN "rejected" ELSE "crash"]
  /\ UNCHANGED <<addon, chain, cleanup, destroyed, main, crashed, process>>

\* The terminations of the crash path are over: its promise rejects.
CrashPromiseRejects ==
  /\ MainIdle /\ pass["crash"].open /\ pass["crash"].waiting = {}
  /\ pass' = [pass EXCEPT !["crash"].open = FALSE]
  /\ crashSettled' = TRUE
  /\ call' = [c \in Callers |-> IF call[c] = "crash" THEN "rejected" ELSE call[c]]
  /\ UNCHANGED <<addon, worker, chain, cleanup, destroyed, main, crashed, closed,
                 latch, process>>

\* No crash: share the promise of the disposal under way or done, or start one.
disposeWasiBinding(c) ==
  /\ MainIdle /\ phase = "live" /\ call[c] = "idle" /\ ~crashed
  /\ \/ /\ main = "pending"
        /\ call' = [call EXCEPT ![c] = "main"]
        /\ UNCHANGED <<main, chain>>
     \/ /\ main = "resolved"
        /\ call' = [call EXCEPT ![c] = "resolved"]
        /\ UNCHANGED <<main, chain>>
     \/ /\ main = "none"
        /\ call' = [call EXCEPT ![c] = "main"]
        /\ main' = "pending"
        /\ pc' = "prepare" /\ mode' = "dispose" /\ errors' = FALSE
  /\ UNCHANGED <<addon, worker, cleanup, destroyed, pass, crash, process>>

-----------------------------------------------------------------------------
(* The chain, shared by disposal and rollback.                               *)

\* __checkWasiThreadCrash at the head of a step: closes re-entry and throws.
CheckThrows(failure) ==
  /\ crashed
  /\ closed' = TRUE /\ pc' = failure
  /\ UNCHANGED <<latch, crashSettled, crashed>>

prepareWasmEnvCleanup ==
  /\ pc = "prepare"
  /\ \/ CheckThrows("failed") /\ UNCHANGED <<promise, prepared, ran>>
     \/ /\ ~crashed /\ prepared
        /\ pc' = "probe"
        /\ UNCHANGED <<promise, prepared, ran, crash>>
     \/ /\ ~crashed /\ ~prepared
        /\ ran' = (abi.prepare /\ instance)
        /\ promise' = IF ran' THEN [p \in Promises |-> IF promise[p] = "running"
                                                       THEN "queued" ELSE promise[p]]
                              ELSE promise
        /\ prepared' = TRUE /\ pc' = "probe"
        /\ UNCHANGED crash
     \/ \* the barrier itself traps
        /\ ~crashed /\ ~prepared /\ abi.prepare /\ instance
        /\ pc' = "failed"
        /\ UNCHANGED <<promise, prepared, ran, crash>>
  /\ UNCHANGED <<platform, ctx, instance, worker, mode, errors, drained, turn, destroyed,
                 pass, main, call, process>>

\* The first, synchronous part of __drainWasmEnvCleanup.
drainWasmEnvCleanup ==
  /\ pc = "probe"
  /\ \/ CheckThrows("failed") /\ UNCHANGED <<drained, turn>>
     \/ /\ ~crashed /\ (drained \/ ~ran)
        /\ pc' = "destroy"
        /\ UNCHANGED <<drained, turn, crash>>
     \/ /\ ~crashed /\ ~drained /\ ran /\ abi.pending /\ Queued = {}
        /\ drained' = TRUE /\ pc' = "destroy"
        /\ UNCHANGED <<turn, crash>>
     \/ /\ ~crashed /\ ~drained /\ ran /\ (abi.pending => Queued # {})
        /\ turn' = 0 /\ pc' = "drain"
        /\ UNCHANGED <<drained, crash>>
     \/ \* the probe throws
        /\ ~crashed /\ ~drained /\ ran /\ abi.pending
        /\ pc' = "failed"
        /\ UNCHANGED <<drained, turn, crash>>
  /\ UNCHANGED <<addon, worker, mode, errors, prepared, ran, destroyed, pass, main,
                 call, process>>

\* The bound on the wait is not reached with this turn.
StillWaiting == turn + 1 < IF abi.pending THEN DrainTurns ELSE BlindTurns

\* Mutant: the bound of the wait passes for success.
ReadsEmptyOrTimedOut == IF abi.pending THEN Queued = {} \/ ~StillWaiting ELSE ~StillWaiting
\* The wait is over: the counter reads zero, or, without a counter, the turns
\* are taken.
ReadsEmpty == IF abi.pending THEN Queued = {} ELSE ~StillWaiting

\* One macrotask turn of the wait.
DrainTurn ==
  /\ pc = "drain" /\ phase # "exited"
  /\ turn' = turn + 1
  /\ \/ CheckThrows("failed") /\ UNCHANGED drained
     \/ /\ ~crashed
        /\ ReadsEmpty
        /\ drained' = TRUE /\ pc' = "drained"
        /\ UNCHANGED crash
     \/ /\ ~crashed
        /\ ~ReadsEmpty /\ StillWaiting
        /\ UNCHANGED <<drained, pc, crash>>
     \/ \* the probe throws, or the bound is reached: ERR_NAPI_WASI_CLEANUP_PENDING
        /\ ~crashed /\ abi.pending
        /\ pc' = "failed"
        /\ UNCHANGED <<drained, crash>>
  /\ UNCHANGED <<addon, worker, mode, errors, prepared, ran, destroyed, pass, main,
                 call, process>>

\* The reaction to the drain's promise.
ContinueAfterDrain ==
  /\ pc = "drained" /\ phase # "exited"
  /\ pc' = "destroy"
  /\ UNCHANGED <<addon, worker, mode, errors, cleanup, destroyed, pass, main, crash,
                 call, process>>

\* Context.destroy() runs the cleanup hooks: what is still running or queued
\* reaches the hooks with a null env and is discarded.
ContextGone ==
  /\ ctx' = "destroyed"
  /\ promise' = [p \in Promises |-> IF promise[p] \in {"running", "queued"}
                                    THEN "stranded" ELSE promise[p]]

destroyEmnapiContext ==
  /\ pc = "destroy"
  /\ \/ CheckThrows("failedDestroy") /\ UNCHANGED <<ctx, promise, destroyed>>
     \/ /\ ~crashed /\ (destroyed \/ ctx = "none")
        /\ destroyed' = TRUE /\ pc' = "terminate"
        /\ UNCHANGED <<ctx, promise, crash>>
     \/ /\ ~crashed /\ ~destroyed /\ ctx # "none"
        /\ ContextGone
        /\ \/ destroyed' = TRUE /\ pc' = "terminate"
           \/ destroyed' = FALSE /\ pc' = "destroying"
        /\ UNCHANGED crash
     \/ \* destroy() throws before it ran anything
        /\ ~crashed /\ ~destroyed /\ ctx = "alive"
        /\ pc' = "failedDestroy"
        /\ UNCHANGED <<ctx, promise, destroyed, crash>>
  /\ UNCHANGED <<platform, instance, worker, mode, errors, cleanup, pass, main, call, process>>

\* The promise of an asynchronous destroy() settles.
DestroySettles(ok) ==
  /\ pc = "destroying" /\ phase # "exited"
  /\ destroyed' = ok
  /\ pc' = IF ok THEN "terminate" ELSE "failedDestroy"
  /\ UNCHANGED <<addon, worker, mode, errors, cleanup, pass, main, crash, call, process>>

\* __finishWasiDisposal / __finishWasiInitializationRollback.
StopWorkers ==
  /\ pc = "terminate"
  /\ \E gone \in SUBSET Live, threw \in SUBSET Live :
       /\ terminateWasiWorkers("main", gone, threw)
       /\ pc' = IF pass'["main"].open THEN "terminating"
                ELSE IF pass'["main"].failed THEN "failedStop" ELSE "done"
  /\ UNCHANGED <<addon, mode, errors, cleanup, destroyed, main, crash, call, process>>

\* Mutant: a failed termination is not reported.
WorkersStoppedAnyhow ==
  /\ pc = "terminating" /\ phase # "exited" /\ pass["main"].waiting = {}
  /\ pass' = [pass EXCEPT !["main"].open = FALSE]
  /\ pc' = "done"
  /\ UNCHANGED <<addon, worker, mode, errors, cleanup, destroyed, main, crash, call,
                 process>>
\* Every terminate() promise has settled.
WorkersStopped ==
  /\ pc = "terminating" /\ phase # "exited" /\ pass["main"].waiting = {}
  /\ pass' = [pass EXCEPT !["main"].open = FALSE]
  /\ pc' = IF pass["main"].failed THEN "failedStop" ELSE "done"
  /\ UNCHANGED <<addon, worker, mode, errors, cleanup, destroyed, main, crash, call,
                 process>>

-----------------------------------------------------------------------------
(* How the chain ends for a disposal.                                        *)

DisposeDone ==
  /\ pc = "done" /\ mode = "dispose"
  /\ exitListener' = FALSE
  /\ main' = "resolved" /\ pc' = "idle"
  /\ call' = [c \in Callers |-> IF call[c] = "main" THEN "resolved" ELSE call[c]]
  /\ UNCHANGED <<addon, worker, mode, errors, cleanup, destroyed, pass, crash, phase,
                 record, replays>>

\* Mutant: the promise is forgotten and never rejected.
DisposeFailedSilently ==
  /\ pc \in Failures /\ mode = "dispose" /\ ~crashed
  /\ main' = "none" /\ pc' = "idle"
  /\ UNCHANGED <<addon, worker, mode, errors, cleanup, destroyed, pass, crash, call,
                 process>>
\* A retryable failure: the promise is forgotten before it rejects.
DisposeFailed ==
  /\ pc \in Failures /\ mode = "dispose" /\ ~crashed
  /\ main' = "none" /\ pc' = "idle"
  /\ call' = [c \in Callers |-> IF call[c] = "main" THEN "rejected" ELSE call[c]]
  /\ UNCHANGED <<addon, worker, mode, errors, cleanup, destroyed, pass, crash, process>>

\* A failure with a crashed worker: the disposal's own promise becomes the
\* latched one, whatever was latched before.  If every terminate() threw, the
\* reaction throws too and nobody settles the promise.
DisposeFailedAfterCrash ==
  /\ pc \in Failures /\ mode = "dispose" /\ crashed
  /\ latch' = "main" /\ closed' = TRUE
  /\ \E gone \in SUBSET Live, threw \in SUBSET Live :
       /\ terminateWasiWorkers("main", gone, threw)
       /\ IF pass'["main"].open
          THEN pc' = "crashTerminating" /\ UNCHANGED <<main, call>>
          ELSE IF pass'["main"].failed
               THEN pc' = "idle" /\ UNCHANGED <<main, call>>
               ELSE /\ pc' = "idle" /\ main' = "rejected"
                    /\ call' = [c \in Callers |-> IF call[c] = "main" THEN "rejected"
                                                  ELSE call[c]]
  /\ UNCHANGED <<addon, mode, errors, cleanup, destroyed, crashed, crashSettled, process>>

CrashedDisposeRejects ==
  /\ pc = "crashTerminating" /\ phase # "exited" /\ pass["main"].waiting = {}
  /\ pass' = [pass EXCEPT !["main"].open = FALSE]
  /\ main' = "rejected" /\ pc' = "idle"
  /\ call' = [c \in Callers |-> IF call[c] = "main" THEN "rejected" ELSE call[c]]
  /\ UNCHANGED <<addon, worker, mode, errors, cleanup, destroyed, crash, process>>

-----------------------------------------------------------------------------
(* How the chain ends for a rollback of a failed initialization.             *)

\* What becomes of the record: the browser loader throws its error and keeps
\* nothing, and the module map keeps the error.
Settled(outcome) == record' = IF host = "node" THEN outcome ELSE "none"

\* Mutant: no teardown is registered for the kept context.
RollbackRetainedUnlistened ==
  /\ pc = "failed" /\ mode = "rollback"
  /\ Settled("idle") /\ pc' = "idle" /\ errors' = TRUE
  /\ UNCHANGED <<addon, worker, mode, cleanup, destroyed, pass, main, crash, call,
                 phase, exitListener, replays>>
\* The barrier or the drain did not finish: the context is not destroyed, the
\* record is retained and the process teardown is asked to reclaim it.
RollbackRetained ==
  /\ pc = "failed" /\ mode = "rollback"
  /\ exitListener' = (host = "node")
  /\ Settled("idle") /\ pc' = "idle" /\ errors' = TRUE
  /\ UNCHANGED <<addon, worker, mode, cleanup, destroyed, pass, main, crash, call,
                 phase, replays>>

\* destroy() failed: the error is kept and the workers are stopped all the same.
RollbackDestroyFailed ==
  /\ pc = "failedDestroy" /\ mode = "rollback"
  /\ errors' = TRUE /\ pc' = "terminate"
  /\ UNCHANGED <<addon, worker, mode, cleanup, destroyed, pass, main, crash, call,
                 process>>

\* __completeWasiInitializationRollback: the record and the teardown listener
\* go when nothing failed; otherwise the record stays for a replay.
RollbackComplete ==
  /\ pc \in {"done", "failedStop"} /\ mode = "rollback"
  /\ pc' = "idle"
  /\ errors' = (errors \/ pc = "failedStop")
  /\ Settled(IF errors' THEN "idle" ELSE "none")
  /\ exitListener' = (exitListener /\ errors')
  /\ UNCHANGED <<addon, worker, mode, cleanup, destroyed, pass, main, crash, call,
                 phase, replays>>

\* A later require() of the same file finds the record and replays it, unless a
\* replay is under way; either way it throws the record's error.
ReplayRollback ==
  /\ MainIdle /\ phase = "failed" /\ record = "idle" /\ replays < MaxReplays
  /\ record' = "active" /\ replays' = replays + 1
  /\ pc' = "prepare" /\ errors' = FALSE
  /\ UNCHANGED <<addon, worker, mode, cleanup, destroyed, pass, main, crash, call,
                 phase, exitListener>>

-----------------------------------------------------------------------------
(* __disposeWasiBindingAtExit: the process leaves; no step can await.        *)

ExitTeardown ==
  \/ /\ crashed \/ destroyed \/ pc = "destroying"   \* throws, or nothing to do
     /\ UNCHANGED <<ctx, promise>>
  \/ /\ ~crashed /\ ~destroyed /\ pc # "destroying" /\ ctx # "none"
     /\ ContextGone
  \/ UNCHANGED <<ctx, promise>>                     \* the barrier or destroy() throws

Exit ==
  /\ MainIdle /\ phase # "loading"
  /\ phase' = "exited" /\ exitListener' = FALSE
  /\ IF exitListener
     THEN /\ ExitTeardown
          /\ worker' = [w \in Workers |-> IF worker[w] = "live" THEN "gone" ELSE worker[w]]
     ELSE UNCHANGED <<ctx, promise, worker>>
  /\ UNCHANGED <<platform, instance, chain, cleanup, destroyed, pass, main, crash, call,
                 record, replays>>

-----------------------------------------------------------------------------

Load == FetchModule \/ CreateContext \/ BeforeInit \/ Publish \/ InitializationFails
Addon == \/ \E p \in Promises : StartWork(p) \/ FinishWork(p) \/ Dispatch(p)
         \/ \E w \in Workers : onCreateWorker(w) \/ WorkerCrash(w)
Chain == \/ prepareWasmEnvCleanup \/ drainWasmEnvCleanup \/ DrainTurn
         \/ ContinueAfterDrain \/ destroyEmnapiContext
         \/ \E ok \in BOOLEAN : DestroySettles(ok)
         \/ StopWorkers \/ WorkersStopped
         \/ DisposeDone \/ DisposeFailed \/ DisposeFailedAfterCrash
         \/ CrashedDisposeRejects \/ CrashPromiseRejects
         \/ RollbackRetained \/ RollbackDestroyFailed \/ RollbackComplete
Terminated == \E n \in PassNames, w \in Workers, ok \in BOOLEAN : WorkerTerminated(n, w, ok)
Dispose(c) == disposeWasiBinding(c) \/ disposeAfterThreadCrash(c)

Next == \/ Load \/ Addon \/ Chain \/ Terminated \/ ReplayRollback \/ Exit
        \/ \E c \in Callers : Dispose(c)

\* The event loop runs the continuations of the chain; destroy() and
\* terminate() settle the promises they return.
Fairness == WF_vars(Chain) /\ WF_vars(Terminated)

Spec == Init /\ [][Next]_vars
FairSpec == Spec /\ Fairness

-----------------------------------------------------------------------------

\* With the cleanup exports present, a promise that reached JavaScript is never
\* discarded by Context.destroy() while the process lives, in a disposal, a
\* retry, a rollback or its replay.
NoStrandedSettlement ==
  (\E p \in Promises : promise[p] = "stranded") /\ abi.pending => phase = "exited"

\* A context that the running code still owes a teardown, because it was
\* published or because its rollback stopped before destroying it, has the
\* "exit" listener that will reclaim it.
OwedTeardown ==
  /\ host = "node" /\ phase = "live" /\ main # "resolved" => exitListener
  /\ phase = "failed" /\ record = "idle" /\ ctx = "alive" /\ (~prepared \/ (ran /\ ~drained))
       => exitListener

\* dispose() resolves only when the context is destroyed, no worker is left in
\* the pool and no exit listener is left on the process.
ResolvedMeansClean ==
  \A c \in Callers : call[c] = "resolved" =>
    ctx = "destroyed" /\ destroyed /\ (phase # "exited" => Live = {}) /\ ~exitListener

\* A failed load that reports no cleanup error left nothing: no context, no
\* worker, no exit listener; and Node.js forgets the record of no other.
FailedLoadMeansClean ==
  phase = "failed" /\ record = "none" =>
    /\ ~errors => ctx # "alive" /\ Live = {} /\ ~exitListener
    /\ errors => host = "browser"

\* A teardown that reports success, in either way, left nothing behind.
TeardownLeavesNothing == ResolvedMeansClean /\ FailedLoadMeansClean

\* After re-entry is closed the wasm instance is not entered again: nothing is
\* delivered or discarded and the barrier does not run.
NoEntryAfterClose ==
  [][closed => /\ \A p \in Promises : promise[p] = "queued" => promise'[p] = "queued"
               /\ ran' = ran /\ ctx' = ctx]_vars

\* Every dispose() call settles, also when it shares a promise, when a worker
\* crashes under it, and when the drain gives up.
DisposeSettles ==
  \A c \in Callers : call[c] \in {"main", "crash"} ~>
    call[c] \in {"resolved", "rejected"} \/ phase = "exited"

\* A rollback, also a replayed one, comes to an end: the record is retained or
\* forgotten, never left active.
RollbackEnds == record = "active" ~> record # "active" \/ phase = "exited"

\* No teardown, disposal or rollback, hangs.
TeardownsEnd == DisposeSettles /\ RollbackEnds

\* crash.test.cjs: "crash disposal must remain latched".
CrashDisposalLatched == [][latch # "none" => latch' = latch]_vars
=============================================================================
