------------------------- MODULE WasiBinding_proofs -------------------------
(***************************************************************************)
(* Proofs about WasiBinding, for any number of promises, workers, callers, *)
(* drain turns and replays: no settlement is stranded, what is owed a      *)
(* teardown has the listener for it, a teardown that reports success left  *)
(* nothing behind, the instance is not entered after re-entry closed, and  *)
(* whoever waits for a teardown has a run that will end it.                *)
(***************************************************************************)
EXTENDS WasiBinding, TLAPS

\* The points of the chain that follow the drain.
AfterDrain == {"drained", "destroy", "destroying", "terminate", "terminating", "done",
               "failedDestroy", "failedStop"}

\* The parts of the type invariant.
StatesOK ==
  /\ host \in {"node", "browser"}
  /\ phase \in {"loading", "live", "failed", "exited"}
  /\ ctx \in {"none", "alive", "destroyed"}
  /\ pc \in SyncPoints \cup AwaitPoints
  /\ mode \in {"dispose", "rollback"}
  /\ main \in {"none", "pending", "resolved", "rejected"}
  /\ latch \in {"none", "crash", "main"}
  /\ record \in {"none", "idle", "active"}
FlagsOK ==
  /\ abi \in [prepare : BOOLEAN, pending : BOOLEAN]
  /\ instance \in BOOLEAN /\ errors \in BOOLEAN
  /\ prepared \in BOOLEAN /\ ran \in BOOLEAN /\ drained \in BOOLEAN
  /\ destroyed \in BOOLEAN
  /\ crashed \in BOOLEAN /\ closed \in BOOLEAN /\ crashSettled \in BOOLEAN
  /\ exitListener \in BOOLEAN
MapsOK ==
  /\ promise \in [Promises -> {"none", "running", "queued", "settled", "stranded"}]
  /\ worker \in [Workers -> {"unused", "live", "gone"}]
  /\ call \in [Callers -> {"idle", "main", "crash", "resolved", "rejected"}]
PassOK == pass \in [PassNames -> [waiting : SUBSET Workers, failed : BOOLEAN, open : BOOLEAN]]
CountsOK == turn \in 0..(DrainTurns + BlindTurns) /\ replays \in 0..MaxReplays

\* What is there of the instance while it loads, and when it is published.
LoadShape ==
  /\ abi.pending => abi.prepare
  /\ ~instance => \A p \in Promises : promise[p] = "none"
  /\ instance => ctx # "none"
  /\ phase = "live" \/ main # "none" => instance
  /\ ctx = "none" => /\ \A w \in Workers : worker[w] = "unused"
                     /\ \A n \in PassNames : pass[n].waiting = {}
  /\ phase = "loading" => /\ pc = "idle" /\ mode = "dispose" /\ ~errors /\ ~prepared /\ ~destroyed
                          /\ ~exitListener /\ record = "none" /\ main = "none"
  /\ closed => crashed /\ phase # "loading"

\* How far the barrier and the drain are, and what they left of the promises.
BarrierShape ==
  /\ ran => prepared
  /\ prepared => (ran <=> abi.prepare /\ instance)
  /\ ran => \A p \in Promises : promise[p] # "running"
  /\ drained => ran /\ (abi.pending => Queued = {})
  /\ pc \in {"probe", "drain"} \cup AfterDrain => prepared
  /\ pc = "drain" => ran /\ turn < IF abi.pending THEN DrainTurns ELSE BlindTurns
  /\ pc \in AfterDrain => drained \/ ~ran

\* How far the destruction of the context and the end of the workers are.
StopShape ==
  /\ destroyed => ctx # "alive"
  /\ pc = "destroying" => ctx = "destroyed"
  /\ pc \in {"terminate", "terminating", "done", "failedStop"} /\ (mode = "dispose" \/ ~errors)
       => destroyed
  /\ pc = "terminating" => pass["main"].failed \/ Live \subseteq pass["main"].waiting
  /\ pc = "done" => Live = {}

\* Who runs the chain, and what its end told whom.
ChainShape ==
  /\ mode = "dispose" /\ pc # "idle" => main = "pending" /\ phase \in {"live", "exited"}
  /\ mode = "rollback" => phase \in {"failed", "exited"} /\ main = "none"
  /\ main # "none" => phase \in {"live", "exited"}
  /\ pc = "crashTerminating" => mode = "dispose"
  /\ record # "none" => mode = "rollback"
  /\ phase = "failed" /\ record # "active" => pc = "idle"
  /\ main = "resolved" =>
       ctx = "destroyed" /\ destroyed /\ (phase # "exited" => Live = {}) /\ ~exitListener
  /\ \A c \in Callers : call[c] = "resolved" => main = "resolved"

\* The inductive invariant.
IInv == /\ TypeOK /\ LoadShape /\ BarrierShape /\ StopShape /\ ChainShape
        /\ NoStrandedSettlement /\ OwedTeardown /\ FailedLoadMeansClean

\* What no step may do to the instance once re-entry is closed.
NotEntered == closed => /\ \A p \in Promises : promise[p] = "queued" => promise'[p] = "queued"
                        /\ ran' = ran /\ ctx' = ctx

\* The states keep their types.
LEMMA StatesStep ==
  ASSUME StatesOK, Next
  PROVE  StatesOK'
<1> USE DEF StatesOK, SyncPoints, AwaitPoints, Failures, AfterDrain, PassNames, cleanup, crash, platform, addon,
       chain, process
<1>1. CASE Load
  <2>1. CASE FetchModule
    BY <2>1 DEF FetchModule
  <2>2. CASE CreateContext
    BY <2>2 DEF CreateContext
  <2>3. CASE BeforeInit
    BY <2>3 DEF BeforeInit
  <2>4. CASE Publish
    BY <2>4 DEF Publish
  <2>5. CASE InitializationFails
    BY <2>5 DEF InitializationFails
  <2> QED
    BY <1>1, <2>1, <2>2, <2>3, <2>4, <2>5 DEF Load
<1>2. CASE Addon
  <2>1. ASSUME NEW p \in Promises, StartWork(p) PROVE StatesOK'
    BY <2>1 DEF StartWork, MainIdle
  <2>2. ASSUME NEW p \in Promises, FinishWork(p) PROVE StatesOK'
    BY <2>2 DEF FinishWork
  <2>3. ASSUME NEW p \in Promises, Dispatch(p) PROVE StatesOK'
    BY <2>3 DEF Dispatch, MainIdle
  <2>4. ASSUME NEW w \in Workers, onCreateWorker(w) PROVE StatesOK'
    BY <2>4 DEF onCreateWorker, MainIdle
  <2>5. ASSUME NEW w \in Workers, WorkerCrash(w) PROVE StatesOK'
    BY <2>5 DEF WorkerCrash
  <2> QED
    BY <1>2, <2>1, <2>2, <2>3, <2>4, <2>5 DEF Addon
<1>3. CASE Chain
  <2>1. CASE prepareWasmEnvCleanup
    BY <2>1 DEF prepareWasmEnvCleanup, CheckThrows
  <2>2. CASE drainWasmEnvCleanup
    BY <2>2 DEF drainWasmEnvCleanup, CheckThrows
  <2>3. CASE DrainTurn
    BY <2>3 DEF DrainTurn, CheckThrows, ReadsEmpty, StillWaiting
  <2>4. CASE ContinueAfterDrain
    BY <2>4 DEF ContinueAfterDrain
  <2>5. CASE destroyEmnapiContext
    BY <2>5 DEF destroyEmnapiContext, CheckThrows, ContextGone
  <2>6. ASSUME NEW ok \in BOOLEAN, DestroySettles(ok) PROVE StatesOK'
    BY <2>6 DEF DestroySettles
  <2>7. CASE StopWorkers
    BY <2>7 DEF StopWorkers, terminateWasiWorkers
  <2>8. CASE WorkersStopped
    BY <2>8 DEF WorkersStopped
  <2>9. CASE DisposeDone
    BY <2>9 DEF DisposeDone
  <2>10. CASE DisposeFailed
    BY <2>10 DEF DisposeFailed
  <2>11. CASE DisposeFailedAfterCrash
    BY <2>11 DEF DisposeFailedAfterCrash, terminateWasiWorkers
  <2>12. CASE CrashedDisposeRejects
    BY <2>12 DEF CrashedDisposeRejects
  <2>13. CASE CrashPromiseRejects
    BY <2>13 DEF CrashPromiseRejects, MainIdle
  <2>14. CASE RollbackRetained
    BY <2>14 DEF RollbackRetained, Settled
  <2>15. CASE RollbackDestroyFailed
    BY <2>15 DEF RollbackDestroyFailed
  <2>16. CASE RollbackComplete
    BY <2>16 DEF RollbackComplete, Settled
  <2> QED
    BY <1>3, <2>1, <2>2, <2>3, <2>4, <2>5, <2>6, <2>7, <2>8, <2>9, <2>10, <2>11, <2>12, <2>13, <2>14, <2>15,
       <2>16 DEF Chain
<1>4. CASE Terminated
  <2>1. ASSUME NEW n \in PassNames, NEW w \in Workers, NEW ok \in BOOLEAN, WorkerTerminated(n, w, ok) PROVE StatesOK'
    BY <2>1 DEF WorkerTerminated, MainIdle
  <2> QED
    BY <1>4, <2>1 DEF Terminated
<1>5. CASE ReplayRollback
  BY <1>5 DEF ReplayRollback, MainIdle
<1>6. CASE Exit
  BY <1>6 DEF Exit, ExitTeardown, ContextGone, MainIdle
<1>7. ASSUME NEW c \in Callers, Dispose(c) PROVE StatesOK'
  <2>1. CASE disposeWasiBinding(c)
    BY <2>1 DEF disposeWasiBinding, MainIdle
  <2>2. CASE disposeAfterThreadCrash(c)
    BY <2>2 DEF disposeAfterThreadCrash, MainIdle, terminateWasiWorkers, TerminatedAtOnce
  <2> QED
    BY <1>7, <2>1, <2>2 DEF Dispose
<1> QED
  BY <1>1, <1>2, <1>3, <1>4, <1>5, <1>6, <1>7 DEF Next

\* The flags keep their types.
LEMMA FlagsStep ==
  ASSUME FlagsOK, Next
  PROVE  FlagsOK'
<1> USE DEF FlagsOK, cleanup, crash, platform, addon, chain, process
<1>1. CASE Load
  <2>1. CASE FetchModule
    BY <2>1 DEF FetchModule
  <2>2. CASE CreateContext
    BY <2>2 DEF CreateContext
  <2>3. CASE BeforeInit
    BY <2>3 DEF BeforeInit
  <2>4. CASE Publish
    BY <2>4 DEF Publish
  <2>5. CASE InitializationFails
    BY <2>5 DEF InitializationFails
  <2> QED
    BY <1>1, <2>1, <2>2, <2>3, <2>4, <2>5 DEF Load
<1>2. CASE Addon
  <2>1. ASSUME NEW p \in Promises, StartWork(p) PROVE FlagsOK'
    BY <2>1 DEF StartWork, MainIdle
  <2>2. ASSUME NEW p \in Promises, FinishWork(p) PROVE FlagsOK'
    BY <2>2 DEF FinishWork
  <2>3. ASSUME NEW p \in Promises, Dispatch(p) PROVE FlagsOK'
    BY <2>3 DEF Dispatch, MainIdle
  <2>4. ASSUME NEW w \in Workers, onCreateWorker(w) PROVE FlagsOK'
    BY <2>4 DEF onCreateWorker, MainIdle
  <2>5. ASSUME NEW w \in Workers, WorkerCrash(w) PROVE FlagsOK'
    BY <2>5 DEF WorkerCrash
  <2> QED
    BY <1>2, <2>1, <2>2, <2>3, <2>4, <2>5 DEF Addon
<1>3. CASE Chain
  <2>1. CASE prepareWasmEnvCleanup
    <3>1. prepared' \in BOOLEAN /\ closed' \in BOOLEAN
      BY <2>1 DEF prepareWasmEnvCleanup, CheckThrows
    <3>2. ran' \in BOOLEAN
      <4>1. ran' = ran \/ ran' = (abi.prepare /\ instance)
        BY <2>1 DEF prepareWasmEnvCleanup, CheckThrows
      <4> QED
        BY <4>1
    <3>3. UNCHANGED <<abi, instance, errors, drained, destroyed, crashed, crashSettled, exitListener>>
      BY <2>1 DEF prepareWasmEnvCleanup, CheckThrows
    <3> QED
      BY <3>1, <3>2, <3>3
  <2>2. CASE drainWasmEnvCleanup
    <3>1. drained' \in BOOLEAN /\ closed' \in BOOLEAN
      BY <2>2 DEF drainWasmEnvCleanup, CheckThrows
    <3>2. UNCHANGED <<abi, instance, errors, prepared, ran, destroyed, crashed, crashSettled, exitListener>>
      BY <2>2 DEF drainWasmEnvCleanup, CheckThrows
    <3> QED
      BY <3>1, <3>2
  <2>3. CASE DrainTurn
    <3>1. drained' \in BOOLEAN /\ closed' \in BOOLEAN
      BY <2>3 DEF DrainTurn, CheckThrows
    <3>2. UNCHANGED <<abi, instance, errors, prepared, ran, destroyed, crashed, crashSettled, exitListener>>
      BY <2>3 DEF DrainTurn, CheckThrows
    <3> QED
      BY <3>1, <3>2
  <2>4. CASE ContinueAfterDrain
    BY <2>4 DEF ContinueAfterDrain
  <2>5. CASE destroyEmnapiContext
    <3>1. destroyed' \in BOOLEAN /\ closed' \in BOOLEAN
      BY <2>5 DEF destroyEmnapiContext, CheckThrows
    <3>2. UNCHANGED <<abi, instance, errors, prepared, ran, drained, crashed, crashSettled, exitListener>>
      BY <2>5 DEF destroyEmnapiContext, CheckThrows
    <3> QED
      BY <3>1, <3>2
  <2>6. ASSUME NEW ok \in BOOLEAN, DestroySettles(ok) PROVE FlagsOK'
    BY <2>6 DEF DestroySettles
  <2>7. CASE StopWorkers
    BY <2>7 DEF StopWorkers, terminateWasiWorkers
  <2>8. CASE WorkersStopped
    BY <2>8 DEF WorkersStopped
  <2>9. CASE DisposeDone
    BY <2>9 DEF DisposeDone
  <2>10. CASE DisposeFailed
    BY <2>10 DEF DisposeFailed
  <2>11. CASE DisposeFailedAfterCrash
    BY <2>11 DEF DisposeFailedAfterCrash, terminateWasiWorkers
  <2>12. CASE CrashedDisposeRejects
    BY <2>12 DEF CrashedDisposeRejects
  <2>13. CASE CrashPromiseRejects
    BY <2>13 DEF CrashPromiseRejects, MainIdle
  <2>14. CASE RollbackRetained
    BY <2>14 DEF RollbackRetained, Settled
  <2>15. CASE RollbackDestroyFailed
    BY <2>15 DEF RollbackDestroyFailed
  <2>16. CASE RollbackComplete
    BY <2>16 DEF RollbackComplete, Settled
  <2> QED
    BY <1>3, <2>1, <2>2, <2>3, <2>4, <2>5, <2>6, <2>7, <2>8, <2>9, <2>10, <2>11, <2>12, <2>13, <2>14, <2>15,
       <2>16 DEF Chain
<1>4. CASE Terminated
  <2>1. ASSUME NEW n \in PassNames, NEW w \in Workers, NEW ok \in BOOLEAN, WorkerTerminated(n, w, ok) PROVE FlagsOK'
    BY <2>1 DEF WorkerTerminated, MainIdle
  <2> QED
    BY <1>4, <2>1 DEF Terminated
<1>5. CASE ReplayRollback
  BY <1>5 DEF ReplayRollback, MainIdle
<1>6. CASE Exit
  BY <1>6 DEF Exit, ExitTeardown, ContextGone, MainIdle
<1>7. ASSUME NEW c \in Callers, Dispose(c) PROVE FlagsOK'
  <2>1. CASE disposeWasiBinding(c)
    BY <2>1 DEF disposeWasiBinding, MainIdle
  <2>2. CASE disposeAfterThreadCrash(c)
    BY <2>2 DEF disposeAfterThreadCrash, MainIdle, terminateWasiWorkers, TerminatedAtOnce
  <2> QED
    BY <1>7, <2>1, <2>2 DEF Dispose
<1> QED
  BY <1>1, <1>2, <1>3, <1>4, <1>5, <1>6, <1>7 DEF Next

\* So do the maps of promises, workers and calls.
LEMMA MapsStep ==
  ASSUME MapsOK, Next
  PROVE  MapsOK'
<1> USE DEF MapsOK, cleanup, crash, platform, addon, chain, process
<1>1. CASE Load
  <2>1. CASE FetchModule
    BY <2>1 DEF FetchModule
  <2>2. CASE CreateContext
    BY <2>2 DEF CreateContext
  <2>3. CASE BeforeInit
    BY <2>3 DEF BeforeInit
  <2>4. CASE Publish
    BY <2>4 DEF Publish
  <2>5. CASE InitializationFails
    BY <2>5 DEF InitializationFails
  <2> QED
    BY <1>1, <2>1, <2>2, <2>3, <2>4, <2>5 DEF Load
<1>2. CASE Addon
  <2>1. ASSUME NEW p \in Promises, StartWork(p) PROVE MapsOK'
    BY <2>1 DEF StartWork, MainIdle
  <2>2. ASSUME NEW p \in Promises, FinishWork(p) PROVE MapsOK'
    BY <2>2 DEF FinishWork
  <2>3. ASSUME NEW p \in Promises, Dispatch(p) PROVE MapsOK'
    BY <2>3 DEF Dispatch, MainIdle
  <2>4. ASSUME NEW w \in Workers, onCreateWorker(w) PROVE MapsOK'
    BY <2>4 DEF onCreateWorker, MainIdle
  <2>5. ASSUME NEW w \in Workers, WorkerCrash(w) PROVE MapsOK'
    BY <2>5 DEF WorkerCrash
  <2> QED
    BY <1>2, <2>1, <2>2, <2>3, <2>4, <2>5 DEF Addon
<1>3. CASE Chain
  <2>1. CASE prepareWasmEnvCleanup
    BY <2>1 DEF prepareWasmEnvCleanup, CheckThrows
  <2>2. CASE drainWasmEnvCleanup
    BY <2>2 DEF drainWasmEnvCleanup, CheckThrows
  <2>3. CASE DrainTurn
    BY <2>3 DEF DrainTurn, CheckThrows, ReadsEmpty, StillWaiting
  <2>4. CASE ContinueAfterDrain
    BY <2>4 DEF ContinueAfterDrain
  <2>5. CASE destroyEmnapiContext
    BY <2>5 DEF destroyEmnapiContext, CheckThrows, ContextGone
  <2>6. ASSUME NEW ok \in BOOLEAN, DestroySettles(ok) PROVE MapsOK'
    BY <2>6 DEF DestroySettles
  <2>7. CASE StopWorkers
    BY <2>7 DEF StopWorkers, terminateWasiWorkers
  <2>8. CASE WorkersStopped
    BY <2>8 DEF WorkersStopped
  <2>9. CASE DisposeDone
    BY <2>9 DEF DisposeDone
  <2>10. CASE DisposeFailed
    BY <2>10 DEF DisposeFailed
  <2>11. CASE DisposeFailedAfterCrash
    BY <2>11 DEF DisposeFailedAfterCrash, terminateWasiWorkers
  <2>12. CASE CrashedDisposeRejects
    BY <2>12 DEF CrashedDisposeRejects
  <2>13. CASE CrashPromiseRejects
    BY <2>13 DEF CrashPromiseRejects, MainIdle
  <2>14. CASE RollbackRetained
    BY <2>14 DEF RollbackRetained, Settled
  <2>15. CASE RollbackDestroyFailed
    BY <2>15 DEF RollbackDestroyFailed
  <2>16. CASE RollbackComplete
    BY <2>16 DEF RollbackComplete, Settled
  <2> QED
    BY <1>3, <2>1, <2>2, <2>3, <2>4, <2>5, <2>6, <2>7, <2>8, <2>9, <2>10, <2>11, <2>12, <2>13, <2>14, <2>15,
       <2>16 DEF Chain
<1>4. CASE Terminated
  <2>1. ASSUME NEW n \in PassNames, NEW w \in Workers, NEW ok \in BOOLEAN, WorkerTerminated(n, w, ok) PROVE MapsOK'
    BY <2>1 DEF WorkerTerminated, MainIdle
  <2> QED
    BY <1>4, <2>1 DEF Terminated
<1>5. CASE ReplayRollback
  BY <1>5 DEF ReplayRollback, MainIdle
<1>6. CASE Exit
  BY <1>6 DEF Exit, ExitTeardown, ContextGone, MainIdle
<1>7. ASSUME NEW c \in Callers, Dispose(c) PROVE MapsOK'
  <2>1. CASE disposeWasiBinding(c)
    BY <2>1 DEF disposeWasiBinding, MainIdle
  <2>2. CASE disposeAfterThreadCrash(c)
    BY <2>2 DEF disposeAfterThreadCrash, MainIdle, terminateWasiWorkers, TerminatedAtOnce
  <2> QED
    BY <1>7, <2>1, <2>2 DEF Dispose
<1> QED
  BY <1>1, <1>2, <1>3, <1>4, <1>5, <1>6, <1>7 DEF Next

\* So do the passes over the workers.
LEMMA PassStep ==
  ASSUME PassOK, Next
  PROVE  PassOK'
<1> USE DEF PassOK, PassNames, Live, cleanup, crash, platform, addon, chain, process
<1>1. CASE Load
  <2>1. CASE FetchModule
    BY <2>1 DEF FetchModule
  <2>2. CASE CreateContext
    BY <2>2 DEF CreateContext
  <2>3. CASE BeforeInit
    BY <2>3 DEF BeforeInit
  <2>4. CASE Publish
    BY <2>4 DEF Publish
  <2>5. CASE InitializationFails
    BY <2>5 DEF InitializationFails
  <2> QED
    BY <1>1, <2>1, <2>2, <2>3, <2>4, <2>5 DEF Load
<1>2. CASE Addon
  <2>1. ASSUME NEW p \in Promises, StartWork(p) PROVE PassOK'
    BY <2>1 DEF StartWork, MainIdle
  <2>2. ASSUME NEW p \in Promises, FinishWork(p) PROVE PassOK'
    BY <2>2 DEF FinishWork
  <2>3. ASSUME NEW p \in Promises, Dispatch(p) PROVE PassOK'
    BY <2>3 DEF Dispatch, MainIdle
  <2>4. ASSUME NEW w \in Workers, onCreateWorker(w) PROVE PassOK'
    BY <2>4 DEF onCreateWorker, MainIdle
  <2>5. ASSUME NEW w \in Workers, WorkerCrash(w) PROVE PassOK'
    BY <2>5 DEF WorkerCrash
  <2> QED
    BY <1>2, <2>1, <2>2, <2>3, <2>4, <2>5 DEF Addon
<1>3. CASE Chain
  <2>1. CASE prepareWasmEnvCleanup
    BY <2>1 DEF prepareWasmEnvCleanup, CheckThrows
  <2>2. CASE drainWasmEnvCleanup
    BY <2>2 DEF drainWasmEnvCleanup, CheckThrows
  <2>3. CASE DrainTurn
    BY <2>3 DEF DrainTurn, CheckThrows, ReadsEmpty, StillWaiting
  <2>4. CASE ContinueAfterDrain
    BY <2>4 DEF ContinueAfterDrain
  <2>5. CASE destroyEmnapiContext
    BY <2>5 DEF destroyEmnapiContext, CheckThrows, ContextGone
  <2>6. ASSUME NEW ok \in BOOLEAN, DestroySettles(ok) PROVE PassOK'
    BY <2>6 DEF DestroySettles
  <2>7. CASE StopWorkers
    BY <2>7 DEF StopWorkers, terminateWasiWorkers
  <2>8. CASE WorkersStopped
    BY <2>8 DEF WorkersStopped
  <2>9. CASE DisposeDone
    BY <2>9 DEF DisposeDone
  <2>10. CASE DisposeFailed
    BY <2>10 DEF DisposeFailed
  <2>11. CASE DisposeFailedAfterCrash
    BY <2>11 DEF DisposeFailedAfterCrash, terminateWasiWorkers
  <2>12. CASE CrashedDisposeRejects
    BY <2>12 DEF CrashedDisposeRejects
  <2>13. CASE CrashPromiseRejects
    BY <2>13 DEF CrashPromiseRejects, MainIdle
  <2>14. CASE RollbackRetained
    BY <2>14 DEF RollbackRetained, Settled
  <2>15. CASE RollbackDestroyFailed
    BY <2>15 DEF RollbackDestroyFailed
  <2>16. CASE RollbackComplete
    BY <2>16 DEF RollbackComplete, Settled
  <2> QED
    BY <1>3, <2>1, <2>2, <2>3, <2>4, <2>5, <2>6, <2>7, <2>8, <2>9, <2>10, <2>11, <2>12, <2>13, <2>14, <2>15,
       <2>16 DEF Chain
<1>4. CASE Terminated
  <2>1. ASSUME NEW n \in PassNames, NEW w \in Workers, NEW ok \in BOOLEAN, WorkerTerminated(n, w, ok) PROVE PassOK'
    BY <2>1 DEF WorkerTerminated, MainIdle
  <2> QED
    BY <1>4, <2>1 DEF Terminated
<1>5. CASE ReplayRollback
  BY <1>5 DEF ReplayRollback, MainIdle
<1>6. CASE Exit
  BY <1>6 DEF Exit, ExitTeardown, ContextGone, MainIdle
<1>7. ASSUME NEW c \in Callers, Dispose(c) PROVE PassOK'
  <2>1. CASE disposeWasiBinding(c)
    BY <2>1 DEF disposeWasiBinding, MainIdle
  <2>2. CASE disposeAfterThreadCrash(c)
    <3>1. CASE UNCHANGED pass
      BY <3>1
    <3>2. ASSUME NEW gone \in SUBSET Live, NEW threw \in SUBSET Live, terminateWasiWorkers("crash", gone, threw) PROVE PassOK'
      <4>1. Live \ (gone \cup threw) \in SUBSET Workers
        BY DEF Live
      <4> QED
        BY <3>2, <4>1 DEF terminateWasiWorkers
    <3> QED
      BY <2>2, <3>1, <3>2 DEF disposeAfterThreadCrash
  <2> QED
    BY <1>7, <2>1, <2>2 DEF Dispose
<1> QED
  BY <1>1, <1>2, <1>3, <1>4, <1>5, <1>6, <1>7 DEF Next

\* So do the counters.
LEMMA CountsStep ==
  ASSUME IInv, Next
  PROVE  CountsOK'
<1> USE BindingAssumption DEF IInv, TypeOK, CountsOK, BarrierShape, cleanup, crash, platform, addon, chain,
       process
<1>1. CASE Load
  <2>1. CASE FetchModule
    BY <2>1 DEF FetchModule
  <2>2. CASE CreateContext
    BY <2>2 DEF CreateContext
  <2>3. CASE BeforeInit
    BY <2>3 DEF BeforeInit
  <2>4. CASE Publish
    BY <2>4 DEF Publish
  <2>5. CASE InitializationFails
    BY <2>5 DEF InitializationFails
  <2> QED
    BY <1>1, <2>1, <2>2, <2>3, <2>4, <2>5 DEF Load
<1>2. CASE Addon
  <2>1. ASSUME NEW p \in Promises, StartWork(p) PROVE CountsOK'
    BY <2>1 DEF StartWork, MainIdle
  <2>2. ASSUME NEW p \in Promises, FinishWork(p) PROVE CountsOK'
    BY <2>2 DEF FinishWork
  <2>3. ASSUME NEW p \in Promises, Dispatch(p) PROVE CountsOK'
    BY <2>3 DEF Dispatch, MainIdle
  <2>4. ASSUME NEW w \in Workers, onCreateWorker(w) PROVE CountsOK'
    BY <2>4 DEF onCreateWorker, MainIdle
  <2>5. ASSUME NEW w \in Workers, WorkerCrash(w) PROVE CountsOK'
    BY <2>5 DEF WorkerCrash
  <2> QED
    BY <1>2, <2>1, <2>2, <2>3, <2>4, <2>5 DEF Addon
<1>3. CASE Chain
  <2>1. CASE prepareWasmEnvCleanup
    BY <2>1 DEF prepareWasmEnvCleanup, CheckThrows
  <2>2. CASE drainWasmEnvCleanup
    BY <2>2 DEF drainWasmEnvCleanup, CheckThrows
  <2>3. CASE DrainTurn
    BY <2>3 DEF DrainTurn, CheckThrows, ReadsEmpty, StillWaiting
  <2>4. CASE ContinueAfterDrain
    BY <2>4 DEF ContinueAfterDrain
  <2>5. CASE destroyEmnapiContext
    BY <2>5 DEF destroyEmnapiContext, CheckThrows, ContextGone
  <2>6. ASSUME NEW ok \in BOOLEAN, DestroySettles(ok) PROVE CountsOK'
    BY <2>6 DEF DestroySettles
  <2>7. CASE StopWorkers
    BY <2>7 DEF StopWorkers, terminateWasiWorkers
  <2>8. CASE WorkersStopped
    BY <2>8 DEF WorkersStopped
  <2>9. CASE DisposeDone
    BY <2>9 DEF DisposeDone
  <2>10. CASE DisposeFailed
    BY <2>10 DEF DisposeFailed
  <2>11. CASE DisposeFailedAfterCrash
    BY <2>11 DEF DisposeFailedAfterCrash, terminateWasiWorkers
  <2>12. CASE CrashedDisposeRejects
    BY <2>12 DEF CrashedDisposeRejects
  <2>13. CASE CrashPromiseRejects
    BY <2>13 DEF CrashPromiseRejects, MainIdle
  <2>14. CASE RollbackRetained
    BY <2>14 DEF RollbackRetained, Settled
  <2>15. CASE RollbackDestroyFailed
    BY <2>15 DEF RollbackDestroyFailed
  <2>16. CASE RollbackComplete
    BY <2>16 DEF RollbackComplete, Settled
  <2> QED
    BY <1>3, <2>1, <2>2, <2>3, <2>4, <2>5, <2>6, <2>7, <2>8, <2>9, <2>10, <2>11, <2>12, <2>13, <2>14, <2>15,
       <2>16 DEF Chain
<1>4. CASE Terminated
  <2>1. ASSUME NEW n \in PassNames, NEW w \in Workers, NEW ok \in BOOLEAN, WorkerTerminated(n, w, ok) PROVE CountsOK'
    BY <2>1 DEF WorkerTerminated, MainIdle
  <2> QED
    BY <1>4, <2>1 DEF Terminated
<1>5. CASE ReplayRollback
  BY <1>5 DEF ReplayRollback, MainIdle
<1>6. CASE Exit
  BY <1>6 DEF Exit, ExitTeardown, ContextGone, MainIdle
<1>7. ASSUME NEW c \in Callers, Dispose(c) PROVE CountsOK'
  <2>1. CASE disposeWasiBinding(c)
    BY <2>1 DEF disposeWasiBinding, MainIdle
  <2>2. CASE disposeAfterThreadCrash(c)
    BY <2>2 DEF disposeAfterThreadCrash, MainIdle, terminateWasiWorkers, TerminatedAtOnce
  <2> QED
    BY <1>7, <2>1, <2>2 DEF Dispose
<1> QED
  BY <1>1, <1>2, <1>3, <1>4, <1>5, <1>6, <1>7 DEF Next

\* What is there of the instance, after every step.
LEMMA LoadShapeStep ==
  ASSUME IInv, Next
  PROVE  LoadShape'
<1> USE DEF IInv, TypeOK, LoadShape, ChainShape, StopShape, Live, SyncPoints, AwaitPoints, Failures, AfterDrain,
       PassNames, cleanup, crash, platform, addon, chain, process
<1>1. CASE Load
  <2>1. CASE FetchModule
    BY <2>1 DEF FetchModule
  <2>2. CASE CreateContext
    BY <2>2 DEF CreateContext
  <2>3. CASE BeforeInit
    BY <2>3 DEF BeforeInit
  <2>4. CASE Publish
    BY <2>4 DEF Publish
  <2>5. CASE InitializationFails
    BY <2>5 DEF InitializationFails
  <2> QED
    BY <1>1, <2>1, <2>2, <2>3, <2>4, <2>5 DEF Load
<1>2. CASE Addon
  <2>1. ASSUME NEW p \in Promises, StartWork(p) PROVE LoadShape'
    BY <2>1 DEF StartWork, MainIdle
  <2>2. ASSUME NEW p \in Promises, FinishWork(p) PROVE LoadShape'
    BY <2>2 DEF FinishWork
  <2>3. ASSUME NEW p \in Promises, Dispatch(p) PROVE LoadShape'
    BY <2>3 DEF Dispatch, MainIdle
  <2>4. ASSUME NEW w \in Workers, onCreateWorker(w) PROVE LoadShape'
    BY <2>4 DEF onCreateWorker, MainIdle
  <2>5. ASSUME NEW w \in Workers, WorkerCrash(w) PROVE LoadShape'
    BY <2>5 DEF WorkerCrash
  <2> QED
    BY <1>2, <2>1, <2>2, <2>3, <2>4, <2>5 DEF Addon
<1>3. CASE Chain
  <2>1. CASE prepareWasmEnvCleanup
    BY <2>1 DEF prepareWasmEnvCleanup, CheckThrows
  <2>2. CASE drainWasmEnvCleanup
    BY <2>2 DEF drainWasmEnvCleanup, CheckThrows
  <2>3. CASE DrainTurn
    BY <2>3 DEF DrainTurn, CheckThrows, ReadsEmpty, StillWaiting
  <2>4. CASE ContinueAfterDrain
    BY <2>4 DEF ContinueAfterDrain
  <2>5. CASE destroyEmnapiContext
    BY <2>5 DEF destroyEmnapiContext, CheckThrows, ContextGone
  <2>6. ASSUME NEW ok \in BOOLEAN, DestroySettles(ok) PROVE LoadShape'
    BY <2>6 DEF DestroySettles
  <2>7. CASE StopWorkers
    <3>1. PICK gone \in SUBSET Live, threw \in SUBSET Live : terminateWasiWorkers("main", gone, threw)
      BY <2>7 DEF StopWorkers
    <3>2. ctx = "none" => Live = {} /\ gone = {}
      BY DEF Live
    <3>3. ctx = "none" => \A w \in Workers : worker'[w] = "unused"
      BY <3>1, <3>2 DEF terminateWasiWorkers
    <3>4. ctx = "none" => \A n \in PassNames : pass'[n].waiting = {}
      BY <3>1, <3>2 DEF terminateWasiWorkers, PassNames
    <3>5. UNCHANGED <<abi, instance, promise, ctx, phase, crashed>> /\ phase # "loading" /\ (closed' => crashed)
      BY <2>7 DEF StopWorkers, AwaitPoints
    <3>6. main' # "none" => instance
      BY <2>7 DEF StopWorkers
    <3> HIDE DEF Live
    <3> QED
      BY <3>3, <3>4, <3>5, <3>6
  <2>8. CASE WorkersStopped
    BY <2>8 DEF WorkersStopped
  <2>9. CASE DisposeDone
    BY <2>9 DEF DisposeDone
  <2>10. CASE DisposeFailed
    BY <2>10 DEF DisposeFailed
  <2>11. CASE DisposeFailedAfterCrash
    <3>1. PICK gone \in SUBSET Live, threw \in SUBSET Live : terminateWasiWorkers("main", gone, threw)
      BY <2>11 DEF DisposeFailedAfterCrash
    <3>2. ctx = "none" => Live = {} /\ gone = {}
      BY DEF Live
    <3>3. ctx = "none" => \A w \in Workers : worker'[w] = "unused"
      BY <3>1, <3>2 DEF terminateWasiWorkers
    <3>4. ctx = "none" => \A n \in PassNames : pass'[n].waiting = {}
      BY <3>1, <3>2 DEF terminateWasiWorkers, PassNames
    <3>5. UNCHANGED <<abi, instance, promise, ctx, phase, crashed>> /\ phase # "loading" /\ (closed' => crashed)
      BY <2>11 DEF DisposeFailedAfterCrash, AwaitPoints
    <3>6. main' # "none" => instance
      BY <2>11 DEF DisposeFailedAfterCrash
    <3> HIDE DEF Live
    <3> QED
      BY <3>3, <3>4, <3>5, <3>6
  <2>12. CASE CrashedDisposeRejects
    BY <2>12 DEF CrashedDisposeRejects
  <2>13. CASE CrashPromiseRejects
    BY <2>13 DEF CrashPromiseRejects, MainIdle
  <2>14. CASE RollbackRetained
    BY <2>14 DEF RollbackRetained, Settled
  <2>15. CASE RollbackDestroyFailed
    BY <2>15 DEF RollbackDestroyFailed
  <2>16. CASE RollbackComplete
    BY <2>16 DEF RollbackComplete, Settled
  <2> QED
    BY <1>3, <2>1, <2>2, <2>3, <2>4, <2>5, <2>6, <2>7, <2>8, <2>9, <2>10, <2>11, <2>12, <2>13, <2>14, <2>15,
       <2>16 DEF Chain
<1>4. CASE Terminated
  <2>1. ASSUME NEW n \in PassNames, NEW w \in Workers, NEW ok \in BOOLEAN, WorkerTerminated(n, w, ok) PROVE LoadShape'
    <3>1. ctx # "none"
      BY <2>1 DEF WorkerTerminated
    <3>2. UNCHANGED <<abi, instance, promise, ctx, phase, pc, mode, errors, prepared, destroyed, exitListener, record, main, closed, crashed>>
      BY <2>1 DEF WorkerTerminated
    <3> QED
      BY <3>1, <3>2
  <2> QED
    BY <1>4, <2>1 DEF Terminated
<1>5. CASE ReplayRollback
  BY <1>5 DEF ReplayRollback, MainIdle
<1>6. CASE Exit
  BY <1>6 DEF Exit, ExitTeardown, ContextGone, MainIdle
<1>7. ASSUME NEW c \in Callers, Dispose(c) PROVE LoadShape'
  <2>1. CASE disposeWasiBinding(c)
    BY <2>1 DEF disposeWasiBinding, MainIdle
  <2>2. CASE disposeAfterThreadCrash(c)
    BY <2>2 DEF disposeAfterThreadCrash, MainIdle, terminateWasiWorkers, TerminatedAtOnce
  <2> QED
    BY <1>7, <2>1, <2>2 DEF Dispose
<1> QED
  BY <1>1, <1>2, <1>3, <1>4, <1>5, <1>6, <1>7 DEF Next

\* The barrier and the drain, after every step.
LEMMA BarrierShapeStep ==
  ASSUME IInv, Next
  PROVE  BarrierShape'
<1> USE BindingAssumption DEF IInv, TypeOK, LoadShape, ChainShape, BarrierShape, Queued, SyncPoints,
       AwaitPoints, Failures, AfterDrain, PassNames, cleanup, crash, platform, addon, chain, process
<1>1. CASE Load
  <2>1. CASE FetchModule
    BY <2>1 DEF FetchModule
  <2>2. CASE CreateContext
    BY <2>2 DEF CreateContext
  <2>3. CASE BeforeInit
    BY <2>3 DEF BeforeInit
  <2>4. CASE Publish
    BY <2>4 DEF Publish
  <2>5. CASE InitializationFails
    BY <2>5 DEF InitializationFails
  <2> QED
    BY <1>1, <2>1, <2>2, <2>3, <2>4, <2>5 DEF Load
<1>2. CASE Addon
  <2>1. ASSUME NEW p \in Promises, StartWork(p) PROVE BarrierShape'
    BY <2>1 DEF StartWork, MainIdle
  <2>2. ASSUME NEW p \in Promises, FinishWork(p) PROVE BarrierShape'
    BY <2>2 DEF FinishWork
  <2>3. ASSUME NEW p \in Promises, Dispatch(p) PROVE BarrierShape'
    BY <2>3 DEF Dispatch, MainIdle
  <2>4. ASSUME NEW w \in Workers, onCreateWorker(w) PROVE BarrierShape'
    BY <2>4 DEF onCreateWorker, MainIdle
  <2>5. ASSUME NEW w \in Workers, WorkerCrash(w) PROVE BarrierShape'
    BY <2>5 DEF WorkerCrash
  <2> QED
    BY <1>2, <2>1, <2>2, <2>3, <2>4, <2>5 DEF Addon
<1>3. CASE Chain
  <2>1. CASE prepareWasmEnvCleanup
    BY <2>1 DEF prepareWasmEnvCleanup, CheckThrows
  <2>2. CASE drainWasmEnvCleanup
    BY <2>2 DEF drainWasmEnvCleanup, CheckThrows
  <2>3. CASE DrainTurn
    BY <2>3 DEF DrainTurn, CheckThrows, ReadsEmpty, StillWaiting
  <2>4. CASE ContinueAfterDrain
    BY <2>4 DEF ContinueAfterDrain
  <2>5. CASE destroyEmnapiContext
    BY <2>5 DEF destroyEmnapiContext, CheckThrows, ContextGone
  <2>6. ASSUME NEW ok \in BOOLEAN, DestroySettles(ok) PROVE BarrierShape'
    BY <2>6 DEF DestroySettles
  <2>7. CASE StopWorkers
    BY <2>7 DEF StopWorkers, terminateWasiWorkers
  <2>8. CASE WorkersStopped
    BY <2>8 DEF WorkersStopped
  <2>9. CASE DisposeDone
    BY <2>9 DEF DisposeDone
  <2>10. CASE DisposeFailed
    BY <2>10 DEF DisposeFailed
  <2>11. CASE DisposeFailedAfterCrash
    BY <2>11 DEF DisposeFailedAfterCrash, terminateWasiWorkers
  <2>12. CASE CrashedDisposeRejects
    BY <2>12 DEF CrashedDisposeRejects
  <2>13. CASE CrashPromiseRejects
    BY <2>13 DEF CrashPromiseRejects, MainIdle
  <2>14. CASE RollbackRetained
    BY <2>14 DEF RollbackRetained, Settled
  <2>15. CASE RollbackDestroyFailed
    BY <2>15 DEF RollbackDestroyFailed
  <2>16. CASE RollbackComplete
    BY <2>16 DEF RollbackComplete, Settled
  <2> QED
    BY <1>3, <2>1, <2>2, <2>3, <2>4, <2>5, <2>6, <2>7, <2>8, <2>9, <2>10, <2>11, <2>12, <2>13, <2>14, <2>15,
       <2>16 DEF Chain
<1>4. CASE Terminated
  <2>1. ASSUME NEW n \in PassNames, NEW w \in Workers, NEW ok \in BOOLEAN, WorkerTerminated(n, w, ok) PROVE BarrierShape'
    BY <2>1 DEF WorkerTerminated, MainIdle
  <2> QED
    BY <1>4, <2>1 DEF Terminated
<1>5. CASE ReplayRollback
  BY <1>5 DEF ReplayRollback, MainIdle
<1>6. CASE Exit
  BY <1>6 DEF Exit, ExitTeardown, ContextGone, MainIdle
<1>7. ASSUME NEW c \in Callers, Dispose(c) PROVE BarrierShape'
  <2>1. CASE disposeWasiBinding(c)
    BY <2>1 DEF disposeWasiBinding, MainIdle
  <2>2. CASE disposeAfterThreadCrash(c)
    BY <2>2 DEF disposeAfterThreadCrash, MainIdle, terminateWasiWorkers, TerminatedAtOnce
  <2> QED
    BY <1>7, <2>1, <2>2 DEF Dispose
<1> QED
  BY <1>1, <1>2, <1>3, <1>4, <1>5, <1>6, <1>7 DEF Next

\* The context and the workers, after every step.
LEMMA StopShapeStep ==
  ASSUME IInv, Next
  PROVE  StopShape'
<1> USE DEF IInv, TypeOK, LoadShape, ChainShape, StopShape, Live, SyncPoints, AwaitPoints, Failures, AfterDrain,
       PassNames, cleanup, crash, platform, addon, chain, process
<1>1. CASE Load
  <2>1. CASE FetchModule
    BY <2>1 DEF FetchModule
  <2>2. CASE CreateContext
    BY <2>2 DEF CreateContext
  <2>3. CASE BeforeInit
    BY <2>3 DEF BeforeInit
  <2>4. CASE Publish
    BY <2>4 DEF Publish
  <2>5. CASE InitializationFails
    BY <2>5 DEF InitializationFails
  <2> QED
    BY <1>1, <2>1, <2>2, <2>3, <2>4, <2>5 DEF Load
<1>2. CASE Addon
  <2>1. ASSUME NEW p \in Promises, StartWork(p) PROVE StopShape'
    BY <2>1 DEF StartWork, MainIdle
  <2>2. ASSUME NEW p \in Promises, FinishWork(p) PROVE StopShape'
    BY <2>2 DEF FinishWork
  <2>3. ASSUME NEW p \in Promises, Dispatch(p) PROVE StopShape'
    BY <2>3 DEF Dispatch, MainIdle
  <2>4. ASSUME NEW w \in Workers, onCreateWorker(w) PROVE StopShape'
    BY <2>4 DEF onCreateWorker, MainIdle
  <2>5. ASSUME NEW w \in Workers, WorkerCrash(w) PROVE StopShape'
    BY <2>5 DEF WorkerCrash
  <2> QED
    BY <1>2, <2>1, <2>2, <2>3, <2>4, <2>5 DEF Addon
<1>3. CASE Chain
  <2>1. CASE prepareWasmEnvCleanup
    BY <2>1 DEF prepareWasmEnvCleanup, CheckThrows
  <2>2. CASE drainWasmEnvCleanup
    BY <2>2 DEF drainWasmEnvCleanup, CheckThrows
  <2>3. CASE DrainTurn
    BY <2>3 DEF DrainTurn, CheckThrows, ReadsEmpty, StillWaiting
  <2>4. CASE ContinueAfterDrain
    BY <2>4 DEF ContinueAfterDrain
  <2>5. CASE destroyEmnapiContext
    BY <2>5 DEF destroyEmnapiContext, CheckThrows, ContextGone
  <2>6. ASSUME NEW ok \in BOOLEAN, DestroySettles(ok) PROVE StopShape'
    BY <2>6 DEF DestroySettles
  <2>7. CASE StopWorkers
    BY <2>7 DEF StopWorkers, terminateWasiWorkers
  <2>8. CASE WorkersStopped
    BY <2>8 DEF WorkersStopped
  <2>9. CASE DisposeDone
    BY <2>9 DEF DisposeDone
  <2>10. CASE DisposeFailed
    BY <2>10 DEF DisposeFailed
  <2>11. CASE DisposeFailedAfterCrash
    BY <2>11 DEF DisposeFailedAfterCrash, terminateWasiWorkers
  <2>12. CASE CrashedDisposeRejects
    BY <2>12 DEF CrashedDisposeRejects
  <2>13. CASE CrashPromiseRejects
    BY <2>13 DEF CrashPromiseRejects, MainIdle
  <2>14. CASE RollbackRetained
    BY <2>14 DEF RollbackRetained, Settled
  <2>15. CASE RollbackDestroyFailed
    BY <2>15 DEF RollbackDestroyFailed
  <2>16. CASE RollbackComplete
    BY <2>16 DEF RollbackComplete, Settled
  <2> QED
    BY <1>3, <2>1, <2>2, <2>3, <2>4, <2>5, <2>6, <2>7, <2>8, <2>9, <2>10, <2>11, <2>12, <2>13, <2>14, <2>15,
       <2>16 DEF Chain
<1>4. CASE Terminated
  <2>1. ASSUME NEW n \in PassNames, NEW w \in Workers, NEW ok \in BOOLEAN, WorkerTerminated(n, w, ok) PROVE StopShape'
    BY <2>1 DEF WorkerTerminated, MainIdle
  <2> QED
    BY <1>4, <2>1 DEF Terminated
<1>5. CASE ReplayRollback
  BY <1>5 DEF ReplayRollback, MainIdle
<1>6. CASE Exit
  BY <1>6 DEF Exit, ExitTeardown, ContextGone, MainIdle
<1>7. ASSUME NEW c \in Callers, Dispose(c) PROVE StopShape'
  <2>1. CASE disposeWasiBinding(c)
    BY <2>1 DEF disposeWasiBinding, MainIdle
  <2>2. CASE disposeAfterThreadCrash(c)
    BY <2>2 DEF disposeAfterThreadCrash, MainIdle, terminateWasiWorkers, TerminatedAtOnce
  <2> QED
    BY <1>7, <2>1, <2>2 DEF Dispose
<1> QED
  BY <1>1, <1>2, <1>3, <1>4, <1>5, <1>6, <1>7 DEF Next

\* The chain and those it tells, after every step.
LEMMA ChainShapeStep ==
  ASSUME IInv, Next
  PROVE  ChainShape'
<1> USE DEF IInv, TypeOK, LoadShape, ChainShape, StopShape, Live, SyncPoints, AwaitPoints, Failures, AfterDrain,
       PassNames, cleanup, crash, platform, addon, chain, process
<1>1. CASE Load
  <2>1. CASE FetchModule
    BY <2>1 DEF FetchModule
  <2>2. CASE CreateContext
    BY <2>2 DEF CreateContext
  <2>3. CASE BeforeInit
    BY <2>3 DEF BeforeInit
  <2>4. CASE Publish
    BY <2>4 DEF Publish
  <2>5. CASE InitializationFails
    BY <2>5 DEF InitializationFails
  <2> QED
    BY <1>1, <2>1, <2>2, <2>3, <2>4, <2>5 DEF Load
<1>2. CASE Addon
  <2>1. ASSUME NEW p \in Promises, StartWork(p) PROVE ChainShape'
    BY <2>1 DEF StartWork, MainIdle
  <2>2. ASSUME NEW p \in Promises, FinishWork(p) PROVE ChainShape'
    BY <2>2 DEF FinishWork
  <2>3. ASSUME NEW p \in Promises, Dispatch(p) PROVE ChainShape'
    BY <2>3 DEF Dispatch, MainIdle
  <2>4. ASSUME NEW w \in Workers, onCreateWorker(w) PROVE ChainShape'
    BY <2>4 DEF onCreateWorker, MainIdle
  <2>5. ASSUME NEW w \in Workers, WorkerCrash(w) PROVE ChainShape'
    BY <2>5 DEF WorkerCrash
  <2> QED
    BY <1>2, <2>1, <2>2, <2>3, <2>4, <2>5 DEF Addon
<1>3. CASE Chain
  <2>1. CASE prepareWasmEnvCleanup
    BY <2>1 DEF prepareWasmEnvCleanup, CheckThrows
  <2>2. CASE drainWasmEnvCleanup
    BY <2>2 DEF drainWasmEnvCleanup, CheckThrows
  <2>3. CASE DrainTurn
    BY <2>3 DEF DrainTurn, CheckThrows, ReadsEmpty, StillWaiting
  <2>4. CASE ContinueAfterDrain
    BY <2>4 DEF ContinueAfterDrain
  <2>5. CASE destroyEmnapiContext
    BY <2>5 DEF destroyEmnapiContext, CheckThrows, ContextGone
  <2>6. ASSUME NEW ok \in BOOLEAN, DestroySettles(ok) PROVE ChainShape'
    BY <2>6 DEF DestroySettles
  <2>7. CASE StopWorkers
    BY <2>7 DEF StopWorkers, terminateWasiWorkers
  <2>8. CASE WorkersStopped
    BY <2>8 DEF WorkersStopped
  <2>9. CASE DisposeDone
    <3>1. ctx = "destroyed" /\ destroyed /\ Live = {} /\ phase \in {"live", "exited"}
      <4>1. mode = "dispose" /\ pc = "done"
        BY <2>9 DEF DisposeDone
      <4> QED
        BY <4>1
    <3>2. main' = "resolved" /\ pc' = "idle" /\ ~exitListener' /\ mode' = "dispose"
      BY <2>9 DEF DisposeDone
    <3>3. UNCHANGED <<ctx, destroyed, worker, Live, phase, record>>
      BY <2>9 DEF DisposeDone
    <3>4. record = "none"
      BY <2>9 DEF DisposeDone
    <3> HIDE DEF Live
    <3> QED
      BY <3>1, <3>2, <3>3, <3>4
  <2>10. CASE DisposeFailed
    BY <2>10 DEF DisposeFailed
  <2>11. CASE DisposeFailedAfterCrash
    BY <2>11 DEF DisposeFailedAfterCrash, terminateWasiWorkers
  <2>12. CASE CrashedDisposeRejects
    BY <2>12 DEF CrashedDisposeRejects
  <2>13. CASE CrashPromiseRejects
    BY <2>13 DEF CrashPromiseRejects, MainIdle
  <2>14. CASE RollbackRetained
    BY <2>14 DEF RollbackRetained, Settled
  <2>15. CASE RollbackDestroyFailed
    BY <2>15 DEF RollbackDestroyFailed
  <2>16. CASE RollbackComplete
    BY <2>16 DEF RollbackComplete, Settled
  <2> QED
    BY <1>3, <2>1, <2>2, <2>3, <2>4, <2>5, <2>6, <2>7, <2>8, <2>9, <2>10, <2>11, <2>12, <2>13, <2>14, <2>15,
       <2>16 DEF Chain
<1>4. CASE Terminated
  <2>1. ASSUME NEW n \in PassNames, NEW w \in Workers, NEW ok \in BOOLEAN, WorkerTerminated(n, w, ok) PROVE ChainShape'
    BY <2>1 DEF WorkerTerminated, MainIdle
  <2> QED
    BY <1>4, <2>1 DEF Terminated
<1>5. CASE ReplayRollback
  BY <1>5 DEF ReplayRollback, MainIdle
<1>6. CASE Exit
  BY <1>6 DEF Exit, ExitTeardown, ContextGone, MainIdle
<1>7. ASSUME NEW c \in Callers, Dispose(c) PROVE ChainShape'
  <2>1. CASE disposeWasiBinding(c)
    BY <2>1 DEF disposeWasiBinding, MainIdle
  <2>2. CASE disposeAfterThreadCrash(c)
    BY <2>2 DEF disposeAfterThreadCrash, MainIdle, terminateWasiWorkers, TerminatedAtOnce
  <2> QED
    BY <1>7, <2>1, <2>2 DEF Dispose
<1> QED
  BY <1>1, <1>2, <1>3, <1>4, <1>5, <1>6, <1>7 DEF Next

\* No step strands a settlement.
LEMMA StrandedStep ==
  ASSUME IInv, Next
  PROVE  NoStrandedSettlement'
<1> USE DEF IInv, TypeOK, LoadShape, ChainShape, BarrierShape, NoStrandedSettlement, Queued, SyncPoints,
       AwaitPoints, Failures, AfterDrain, PassNames, cleanup, crash, platform, addon, chain, process
<1>1. CASE Load
  <2>1. CASE FetchModule
    BY <2>1 DEF FetchModule
  <2>2. CASE CreateContext
    BY <2>2 DEF CreateContext
  <2>3. CASE BeforeInit
    BY <2>3 DEF BeforeInit
  <2>4. CASE Publish
    BY <2>4 DEF Publish
  <2>5. CASE InitializationFails
    BY <2>5 DEF InitializationFails
  <2> QED
    BY <1>1, <2>1, <2>2, <2>3, <2>4, <2>5 DEF Load
<1>2. CASE Addon
  <2>1. ASSUME NEW p \in Promises, StartWork(p) PROVE NoStrandedSettlement'
    BY <2>1 DEF StartWork, MainIdle
  <2>2. ASSUME NEW p \in Promises, FinishWork(p) PROVE NoStrandedSettlement'
    BY <2>2 DEF FinishWork
  <2>3. ASSUME NEW p \in Promises, Dispatch(p) PROVE NoStrandedSettlement'
    BY <2>3 DEF Dispatch, MainIdle
  <2>4. ASSUME NEW w \in Workers, onCreateWorker(w) PROVE NoStrandedSettlement'
    BY <2>4 DEF onCreateWorker, MainIdle
  <2>5. ASSUME NEW w \in Workers, WorkerCrash(w) PROVE NoStrandedSettlement'
    BY <2>5 DEF WorkerCrash
  <2> QED
    BY <1>2, <2>1, <2>2, <2>3, <2>4, <2>5 DEF Addon
<1>3. CASE Chain
  <2>1. CASE prepareWasmEnvCleanup
    BY <2>1 DEF prepareWasmEnvCleanup, CheckThrows
  <2>2. CASE drainWasmEnvCleanup
    BY <2>2 DEF drainWasmEnvCleanup, CheckThrows
  <2>3. CASE DrainTurn
    BY <2>3 DEF DrainTurn, CheckThrows, ReadsEmpty, StillWaiting
  <2>4. CASE ContinueAfterDrain
    BY <2>4 DEF ContinueAfterDrain
  <2>5. CASE destroyEmnapiContext
    BY <2>5 DEF destroyEmnapiContext, CheckThrows, ContextGone
  <2>6. ASSUME NEW ok \in BOOLEAN, DestroySettles(ok) PROVE NoStrandedSettlement'
    BY <2>6 DEF DestroySettles
  <2>7. CASE StopWorkers
    BY <2>7 DEF StopWorkers, terminateWasiWorkers
  <2>8. CASE WorkersStopped
    BY <2>8 DEF WorkersStopped
  <2>9. CASE DisposeDone
    BY <2>9 DEF DisposeDone
  <2>10. CASE DisposeFailed
    BY <2>10 DEF DisposeFailed
  <2>11. CASE DisposeFailedAfterCrash
    BY <2>11 DEF DisposeFailedAfterCrash, terminateWasiWorkers
  <2>12. CASE CrashedDisposeRejects
    BY <2>12 DEF CrashedDisposeRejects
  <2>13. CASE CrashPromiseRejects
    BY <2>13 DEF CrashPromiseRejects, MainIdle
  <2>14. CASE RollbackRetained
    BY <2>14 DEF RollbackRetained, Settled
  <2>15. CASE RollbackDestroyFailed
    BY <2>15 DEF RollbackDestroyFailed
  <2>16. CASE RollbackComplete
    BY <2>16 DEF RollbackComplete, Settled
  <2> QED
    BY <1>3, <2>1, <2>2, <2>3, <2>4, <2>5, <2>6, <2>7, <2>8, <2>9, <2>10, <2>11, <2>12, <2>13, <2>14, <2>15,
       <2>16 DEF Chain
<1>4. CASE Terminated
  <2>1. ASSUME NEW n \in PassNames, NEW w \in Workers, NEW ok \in BOOLEAN, WorkerTerminated(n, w, ok) PROVE NoStrandedSettlement'
    BY <2>1 DEF WorkerTerminated, MainIdle
  <2> QED
    BY <1>4, <2>1 DEF Terminated
<1>5. CASE ReplayRollback
  BY <1>5 DEF ReplayRollback, MainIdle
<1>6. CASE Exit
  BY <1>6 DEF Exit, ExitTeardown, ContextGone, MainIdle
<1>7. ASSUME NEW c \in Callers, Dispose(c) PROVE NoStrandedSettlement'
  <2>1. CASE disposeWasiBinding(c)
    BY <2>1 DEF disposeWasiBinding, MainIdle
  <2>2. CASE disposeAfterThreadCrash(c)
    BY <2>2 DEF disposeAfterThreadCrash, MainIdle, terminateWasiWorkers, TerminatedAtOnce
  <2> QED
    BY <1>7, <2>1, <2>2 DEF Dispose
<1> QED
  BY <1>1, <1>2, <1>3, <1>4, <1>5, <1>6, <1>7 DEF Next

\* Whoever is owed a teardown keeps the listener, after every step.
LEMMA OwedStep ==
  ASSUME IInv, Next
  PROVE  OwedTeardown'
<1> USE DEF IInv, TypeOK, LoadShape, ChainShape, BarrierShape, OwedTeardown, SyncPoints, AwaitPoints, Failures,
       AfterDrain, PassNames, cleanup, crash, platform, addon, chain, process
<1>1. CASE Load
  <2>1. CASE FetchModule
    BY <2>1 DEF FetchModule
  <2>2. CASE CreateContext
    BY <2>2 DEF CreateContext
  <2>3. CASE BeforeInit
    BY <2>3 DEF BeforeInit
  <2>4. CASE Publish
    BY <2>4 DEF Publish
  <2>5. CASE InitializationFails
    BY <2>5 DEF InitializationFails
  <2> QED
    BY <1>1, <2>1, <2>2, <2>3, <2>4, <2>5 DEF Load
<1>2. CASE Addon
  <2>1. ASSUME NEW p \in Promises, StartWork(p) PROVE OwedTeardown'
    BY <2>1 DEF StartWork, MainIdle
  <2>2. ASSUME NEW p \in Promises, FinishWork(p) PROVE OwedTeardown'
    BY <2>2 DEF FinishWork
  <2>3. ASSUME NEW p \in Promises, Dispatch(p) PROVE OwedTeardown'
    BY <2>3 DEF Dispatch, MainIdle
  <2>4. ASSUME NEW w \in Workers, onCreateWorker(w) PROVE OwedTeardown'
    BY <2>4 DEF onCreateWorker, MainIdle
  <2>5. ASSUME NEW w \in Workers, WorkerCrash(w) PROVE OwedTeardown'
    BY <2>5 DEF WorkerCrash
  <2> QED
    BY <1>2, <2>1, <2>2, <2>3, <2>4, <2>5 DEF Addon
<1>3. CASE Chain
  <2>1. CASE prepareWasmEnvCleanup
    BY <2>1 DEF prepareWasmEnvCleanup, CheckThrows
  <2>2. CASE drainWasmEnvCleanup
    BY <2>2 DEF drainWasmEnvCleanup, CheckThrows
  <2>3. CASE DrainTurn
    BY <2>3 DEF DrainTurn, CheckThrows, ReadsEmpty, StillWaiting
  <2>4. CASE ContinueAfterDrain
    BY <2>4 DEF ContinueAfterDrain
  <2>5. CASE destroyEmnapiContext
    BY <2>5 DEF destroyEmnapiContext, CheckThrows, ContextGone
  <2>6. ASSUME NEW ok \in BOOLEAN, DestroySettles(ok) PROVE OwedTeardown'
    BY <2>6 DEF DestroySettles
  <2>7. CASE StopWorkers
    BY <2>7 DEF StopWorkers, terminateWasiWorkers
  <2>8. CASE WorkersStopped
    BY <2>8 DEF WorkersStopped
  <2>9. CASE DisposeDone
    BY <2>9 DEF DisposeDone
  <2>10. CASE DisposeFailed
    BY <2>10 DEF DisposeFailed
  <2>11. CASE DisposeFailedAfterCrash
    BY <2>11 DEF DisposeFailedAfterCrash, terminateWasiWorkers
  <2>12. CASE CrashedDisposeRejects
    BY <2>12 DEF CrashedDisposeRejects
  <2>13. CASE CrashPromiseRejects
    BY <2>13 DEF CrashPromiseRejects, MainIdle
  <2>14. CASE RollbackRetained
    BY <2>14 DEF RollbackRetained, Settled
  <2>15. CASE RollbackDestroyFailed
    BY <2>15 DEF RollbackDestroyFailed
  <2>16. CASE RollbackComplete
    BY <2>16 DEF RollbackComplete, Settled
  <2> QED
    BY <1>3, <2>1, <2>2, <2>3, <2>4, <2>5, <2>6, <2>7, <2>8, <2>9, <2>10, <2>11, <2>12, <2>13, <2>14, <2>15,
       <2>16 DEF Chain
<1>4. CASE Terminated
  <2>1. ASSUME NEW n \in PassNames, NEW w \in Workers, NEW ok \in BOOLEAN, WorkerTerminated(n, w, ok) PROVE OwedTeardown'
    BY <2>1 DEF WorkerTerminated, MainIdle
  <2> QED
    BY <1>4, <2>1 DEF Terminated
<1>5. CASE ReplayRollback
  BY <1>5 DEF ReplayRollback, MainIdle
<1>6. CASE Exit
  BY <1>6 DEF Exit, ExitTeardown, ContextGone, MainIdle
<1>7. ASSUME NEW c \in Callers, Dispose(c) PROVE OwedTeardown'
  <2>1. CASE disposeWasiBinding(c)
    BY <2>1 DEF disposeWasiBinding, MainIdle
  <2>2. CASE disposeAfterThreadCrash(c)
    BY <2>2 DEF disposeAfterThreadCrash, MainIdle, terminateWasiWorkers, TerminatedAtOnce
  <2> QED
    BY <1>7, <2>1, <2>2 DEF Dispose
<1> QED
  BY <1>1, <1>2, <1>3, <1>4, <1>5, <1>6, <1>7 DEF Next

\* A failed load that reports no error left nothing, after every step.
LEMMA FailedLoadStep ==
  ASSUME IInv, Next
  PROVE  FailedLoadMeansClean'
<1> USE DEF IInv, TypeOK, LoadShape, ChainShape, StopShape, FailedLoadMeansClean, Live, SyncPoints, AwaitPoints,
       Failures, AfterDrain, PassNames, cleanup, crash, platform, addon, chain, process
<1>1. CASE Load
  <2>1. CASE FetchModule
    BY <2>1 DEF FetchModule
  <2>2. CASE CreateContext
    BY <2>2 DEF CreateContext
  <2>3. CASE BeforeInit
    BY <2>3 DEF BeforeInit
  <2>4. CASE Publish
    BY <2>4 DEF Publish
  <2>5. CASE InitializationFails
    BY <2>5 DEF InitializationFails
  <2> QED
    BY <1>1, <2>1, <2>2, <2>3, <2>4, <2>5 DEF Load
<1>2. CASE Addon
  <2>1. ASSUME NEW p \in Promises, StartWork(p) PROVE FailedLoadMeansClean'
    BY <2>1 DEF StartWork, MainIdle
  <2>2. ASSUME NEW p \in Promises, FinishWork(p) PROVE FailedLoadMeansClean'
    BY <2>2 DEF FinishWork
  <2>3. ASSUME NEW p \in Promises, Dispatch(p) PROVE FailedLoadMeansClean'
    BY <2>3 DEF Dispatch, MainIdle
  <2>4. ASSUME NEW w \in Workers, onCreateWorker(w) PROVE FailedLoadMeansClean'
    BY <2>4 DEF onCreateWorker, MainIdle
  <2>5. ASSUME NEW w \in Workers, WorkerCrash(w) PROVE FailedLoadMeansClean'
    BY <2>5 DEF WorkerCrash
  <2> QED
    BY <1>2, <2>1, <2>2, <2>3, <2>4, <2>5 DEF Addon
<1>3. CASE Chain
  <2>1. CASE prepareWasmEnvCleanup
    BY <2>1 DEF prepareWasmEnvCleanup, CheckThrows
  <2>2. CASE drainWasmEnvCleanup
    BY <2>2 DEF drainWasmEnvCleanup, CheckThrows
  <2>3. CASE DrainTurn
    BY <2>3 DEF DrainTurn, CheckThrows, ReadsEmpty, StillWaiting
  <2>4. CASE ContinueAfterDrain
    BY <2>4 DEF ContinueAfterDrain
  <2>5. CASE destroyEmnapiContext
    BY <2>5 DEF destroyEmnapiContext, CheckThrows, ContextGone
  <2>6. ASSUME NEW ok \in BOOLEAN, DestroySettles(ok) PROVE FailedLoadMeansClean'
    BY <2>6 DEF DestroySettles
  <2>7. CASE StopWorkers
    BY <2>7 DEF StopWorkers, terminateWasiWorkers
  <2>8. CASE WorkersStopped
    BY <2>8 DEF WorkersStopped
  <2>9. CASE DisposeDone
    BY <2>9 DEF DisposeDone
  <2>10. CASE DisposeFailed
    BY <2>10 DEF DisposeFailed
  <2>11. CASE DisposeFailedAfterCrash
    BY <2>11 DEF DisposeFailedAfterCrash, terminateWasiWorkers
  <2>12. CASE CrashedDisposeRejects
    BY <2>12 DEF CrashedDisposeRejects
  <2>13. CASE CrashPromiseRejects
    BY <2>13 DEF CrashPromiseRejects, MainIdle
  <2>14. CASE RollbackRetained
    BY <2>14 DEF RollbackRetained, Settled
  <2>15. CASE RollbackDestroyFailed
    BY <2>15 DEF RollbackDestroyFailed
  <2>16. CASE RollbackComplete
    BY <2>16 DEF RollbackComplete, Settled
  <2> QED
    BY <1>3, <2>1, <2>2, <2>3, <2>4, <2>5, <2>6, <2>7, <2>8, <2>9, <2>10, <2>11, <2>12, <2>13, <2>14, <2>15,
       <2>16 DEF Chain
<1>4. CASE Terminated
  <2>1. ASSUME NEW n \in PassNames, NEW w \in Workers, NEW ok \in BOOLEAN, WorkerTerminated(n, w, ok) PROVE FailedLoadMeansClean'
    BY <2>1 DEF WorkerTerminated, MainIdle
  <2> QED
    BY <1>4, <2>1 DEF Terminated
<1>5. CASE ReplayRollback
  BY <1>5 DEF ReplayRollback, MainIdle
<1>6. CASE Exit
  BY <1>6 DEF Exit, ExitTeardown, ContextGone, MainIdle
<1>7. ASSUME NEW c \in Callers, Dispose(c) PROVE FailedLoadMeansClean'
  <2>1. CASE disposeWasiBinding(c)
    BY <2>1 DEF disposeWasiBinding, MainIdle
  <2>2. CASE disposeAfterThreadCrash(c)
    BY <2>2 DEF disposeAfterThreadCrash, MainIdle, terminateWasiWorkers, TerminatedAtOnce
  <2> QED
    BY <1>7, <2>1, <2>2 DEF Dispose
<1> QED
  BY <1>1, <1>2, <1>3, <1>4, <1>5, <1>6, <1>7 DEF Next

\* The program starts in a state that satisfies the invariant.
LEMMA InitHolds ==
  ASSUME Init
  PROVE  IInv
<1> USE BindingAssumption DEF Init
<1>1. TypeOK
  <2>1. StatesOK
    BY DEF StatesOK, SyncPoints, AwaitPoints, Failures
  <2>2. abi \in [prepare : BOOLEAN, pending : BOOLEAN]
    OBVIOUS
  <2>3. FlagsOK
    BY <2>2 DEF FlagsOK
  <2>4. MapsOK
    BY DEF MapsOK
  <2>5. PassOK
    BY DEF PassOK, NoPass, PassNames
  <2>6. CountsOK
    BY DEF CountsOK
  <2> QED
    BY <2>1, <2>3, <2>4, <2>5, <2>6 DEF TypeOK, StatesOK, FlagsOK, MapsOK, PassOK, CountsOK
<1>2. LoadShape
  BY DEF LoadShape, NoPass, PassNames
<1>3. BarrierShape /\ StopShape
  BY DEF BarrierShape, StopShape, AfterDrain
<1>4. ChainShape
  BY DEF ChainShape
<1>5. NoStrandedSettlement /\ OwedTeardown /\ FailedLoadMeansClean
  BY DEF NoStrandedSettlement, OwedTeardown, FailedLoadMeansClean
<1> QED
  BY <1>1, <1>2, <1>3, <1>4, <1>5 DEF IInv

\* The type invariant is kept, part by part.
LEMMA TypeStep ==
  ASSUME IInv, Next
  PROVE  TypeOK'
BY StatesStep, FlagsStep, MapsStep, PassStep, CountsStep
   DEF IInv, TypeOK, StatesOK, FlagsOK, MapsOK, PassOK, CountsOK

\* The invariant is inductive.
LEMMA IInvStep ==
  ASSUME IInv, [Next]_vars
  PROVE  IInv'
<1>1. CASE Next
  BY <1>1, TypeStep, LoadShapeStep, BarrierShapeStep, StopShapeStep, ChainShapeStep,
     StrandedStep, OwedStep, FailedLoadStep DEF IInv
<1>2. CASE UNCHANGED vars
  <2>1. TypeOK'
    BY <1>2 DEF vars, platform, IInv, TypeOK
  <2>2. LoadShape' /\ BarrierShape'
    BY <1>2 DEF vars, platform, IInv, LoadShape, BarrierShape, Queued
  <2>3. StopShape' /\ ChainShape'
    BY <1>2 DEF vars, platform, IInv, StopShape, ChainShape, Live
  <2>4. NoStrandedSettlement' /\ OwedTeardown' /\ FailedLoadMeansClean'
    BY <1>2 DEF vars, platform, IInv, NoStrandedSettlement, OwedTeardown,
       FailedLoadMeansClean, Live
  <2> QED
    BY <2>1, <2>2, <2>3, <2>4 DEF IInv
<1> QED
  BY <1>1, <1>2

\* The invariant holds in every reachable state.
THEOREM Inductive == Spec => []IInv
<1>1. Init => IInv
  BY InitHolds
<1>2. IInv /\ [Next]_vars => IInv'
  BY IInvStep
<1> QED
  BY <1>1, <1>2, PTL DEF Spec

\* Every variable of a binding keeps its type: the flags of the loader, the
\* passes over its workers and the counters of the drain and the replays.
THEOREM TypeCorrect == Spec => []TypeOK
<1>1. IInv => TypeOK
  BY DEF IInv
<1> QED
  BY <1>1, Inductive, PTL

\* With the cleanup exports present, __drainWasmEnvCleanup keeps
\* Context.destroy() from discarding a promise that reached JavaScript, in a
\* disposal, a retry, a rollback and every replay of it.
THEOREM NothingStranded == Spec => []NoStrandedSettlement
<1>1. IInv => NoStrandedSettlement
  BY DEF IInv
<1> QED
  BY <1>1, Inductive, PTL

\* A published binding of Node.js, and a rollback that stopped before it
\* destroyed the context, have the "exit" listener that reclaims it.
THEOREM TeardownIsOwned == Spec => []OwedTeardown
<1>1. IInv => OwedTeardown
  BY DEF IInv
<1> QED
  BY <1>1, Inductive, PTL

\* dispose() that resolves, and a failed load that reports no cleanup error,
\* left no context, no worker and no exit listener.
THEOREM SuccessLeavesNothing == Spec => []TeardownLeavesNothing
<1>1. IInv => TeardownLeavesNothing
  BY DEF IInv, ChainShape, TeardownLeavesNothing, ResolvedMeansClean
<1> QED
  BY <1>1, Inductive, PTL

\* No step enters the instance after re-entry is closed.
LEMMA NotEnteredStep ==
  ASSUME IInv, Next
  PROVE  NotEntered
<1> USE DEF IInv, TypeOK, LoadShape, NotEntered, cleanup, crash, platform, addon, chain, process
<1>1. CASE Load
  <2>1. CASE FetchModule
    BY <2>1 DEF FetchModule
  <2>2. CASE CreateContext
    BY <2>2 DEF CreateContext
  <2>3. CASE BeforeInit
    BY <2>3 DEF BeforeInit
  <2>4. CASE Publish
    BY <2>4 DEF Publish
  <2>5. CASE InitializationFails
    BY <2>5 DEF InitializationFails
  <2> QED
    BY <1>1, <2>1, <2>2, <2>3, <2>4, <2>5 DEF Load
<1>2. CASE Addon
  <2>1. ASSUME NEW p \in Promises, StartWork(p) PROVE NotEntered
    BY <2>1 DEF StartWork, MainIdle
  <2>2. ASSUME NEW p \in Promises, FinishWork(p) PROVE NotEntered
    BY <2>2 DEF FinishWork
  <2>3. ASSUME NEW p \in Promises, Dispatch(p) PROVE NotEntered
    BY <2>3 DEF Dispatch, MainIdle
  <2>4. ASSUME NEW w \in Workers, onCreateWorker(w) PROVE NotEntered
    BY <2>4 DEF onCreateWorker, MainIdle
  <2>5. ASSUME NEW w \in Workers, WorkerCrash(w) PROVE NotEntered
    BY <2>5 DEF WorkerCrash
  <2> QED
    BY <1>2, <2>1, <2>2, <2>3, <2>4, <2>5 DEF Addon
<1>3. CASE Chain
  <2>1. CASE prepareWasmEnvCleanup
    BY <2>1 DEF prepareWasmEnvCleanup, CheckThrows
  <2>2. CASE drainWasmEnvCleanup
    BY <2>2 DEF drainWasmEnvCleanup, CheckThrows
  <2>3. CASE DrainTurn
    BY <2>3 DEF DrainTurn, CheckThrows, ReadsEmpty, StillWaiting
  <2>4. CASE ContinueAfterDrain
    BY <2>4 DEF ContinueAfterDrain
  <2>5. CASE destroyEmnapiContext
    BY <2>5 DEF destroyEmnapiContext, CheckThrows, ContextGone
  <2>6. ASSUME NEW ok \in BOOLEAN, DestroySettles(ok) PROVE NotEntered
    BY <2>6 DEF DestroySettles
  <2>7. CASE StopWorkers
    BY <2>7 DEF StopWorkers, terminateWasiWorkers
  <2>8. CASE WorkersStopped
    BY <2>8 DEF WorkersStopped
  <2>9. CASE DisposeDone
    BY <2>9 DEF DisposeDone
  <2>10. CASE DisposeFailed
    BY <2>10 DEF DisposeFailed
  <2>11. CASE DisposeFailedAfterCrash
    BY <2>11 DEF DisposeFailedAfterCrash, terminateWasiWorkers
  <2>12. CASE CrashedDisposeRejects
    BY <2>12 DEF CrashedDisposeRejects
  <2>13. CASE CrashPromiseRejects
    BY <2>13 DEF CrashPromiseRejects, MainIdle
  <2>14. CASE RollbackRetained
    BY <2>14 DEF RollbackRetained, Settled
  <2>15. CASE RollbackDestroyFailed
    BY <2>15 DEF RollbackDestroyFailed
  <2>16. CASE RollbackComplete
    BY <2>16 DEF RollbackComplete, Settled
  <2> QED
    BY <1>3, <2>1, <2>2, <2>3, <2>4, <2>5, <2>6, <2>7, <2>8, <2>9, <2>10, <2>11, <2>12, <2>13, <2>14, <2>15,
       <2>16 DEF Chain
<1>4. CASE Terminated
  <2>1. ASSUME NEW n \in PassNames, NEW w \in Workers, NEW ok \in BOOLEAN, WorkerTerminated(n, w, ok) PROVE NotEntered
    BY <2>1 DEF WorkerTerminated, MainIdle
  <2> QED
    BY <1>4, <2>1 DEF Terminated
<1>5. CASE ReplayRollback
  BY <1>5 DEF ReplayRollback, MainIdle
<1>6. CASE Exit
  BY <1>6 DEF Exit, ExitTeardown, ContextGone, MainIdle
<1>7. ASSUME NEW c \in Callers, Dispose(c) PROVE NotEntered
  <2>1. CASE disposeWasiBinding(c)
    BY <2>1 DEF disposeWasiBinding, MainIdle
  <2>2. CASE disposeAfterThreadCrash(c)
    BY <2>2 DEF disposeAfterThreadCrash, MainIdle, terminateWasiWorkers, TerminatedAtOnce
  <2> QED
    BY <1>7, <2>1, <2>2 DEF Dispose
<1> QED
  BY <1>1, <1>2, <1>3, <1>4, <1>5, <1>6, <1>7 DEF Next

\* Once a crash closed re-entry, no step delivers or discards a queued
\* settlement, runs the barrier or destroys the context.
THEOREM ClosedIsNotEntered == Spec => NoEntryAfterClose
<1>1. IInv /\ [Next]_vars => [NotEntered]_vars
  BY NotEnteredStep
<1>2. [][NotEntered]_vars => NoEntryAfterClose
  BY PTL DEF NoEntryAfterClose, NotEntered
<1> QED
  BY <1>1, <1>2, Inductive, PTL DEF Spec

\* Whoever waits has somebody to wait for: a caller of dispose() the chain or the
\* terminations of the crash path, an active rollback the chain.
TeardownsHaveRunner ==
  /\ record = "active" => pc # "idle"
  /\ main = "pending" => pc # "idle" \/ (TerminateThrows /\ crashed)
  /\ \A c \in Callers : /\ call[c] = "main" => main = "pending"
                       /\ call[c] = "crash" => pass["crash"].open

\* What the crash path has latched.
WaitShape ==
  /\ TeardownsHaveRunner
  /\ latch = "crash" => crashSettled \/ pass["crash"].open
  /\ \A c \in Callers : call[c] = "crash" => latch # "none"

\* Every step keeps a runner for whoever waits.
LEMMA WaitShapeStep ==
  ASSUME StatesOK, MapsOK, PassOK, ChainShape, WaitShape, Next
  PROVE  WaitShape'
<1> USE DEF WaitShape, TeardownsHaveRunner, StatesOK, MapsOK, PassOK, ChainShape,
    SyncPoints, AwaitPoints, Failures, PassNames, cleanup, crash, platform, addon, chain, process
<1>1. CASE Load
  <2>1. CASE FetchModule
    BY <2>1 DEF FetchModule
  <2>2. CASE CreateContext
    BY <2>2 DEF CreateContext
  <2>3. CASE BeforeInit
    BY <2>3 DEF BeforeInit
  <2>4. CASE Publish
    BY <2>4 DEF Publish
  <2>5. CASE InitializationFails
    BY <2>5 DEF InitializationFails
  <2> QED
    BY <1>1, <2>1, <2>2, <2>3, <2>4, <2>5 DEF Load
<1>2. CASE Addon
  <2>1. ASSUME NEW p \in Promises, StartWork(p) PROVE WaitShape'
    BY <2>1 DEF StartWork, MainIdle
  <2>2. ASSUME NEW p \in Promises, FinishWork(p) PROVE WaitShape'
    BY <2>2 DEF FinishWork
  <2>3. ASSUME NEW p \in Promises, Dispatch(p) PROVE WaitShape'
    BY <2>3 DEF Dispatch, MainIdle
  <2>4. ASSUME NEW w \in Workers, onCreateWorker(w) PROVE WaitShape'
    BY <2>4 DEF onCreateWorker, MainIdle
  <2>5. ASSUME NEW w \in Workers, WorkerCrash(w) PROVE WaitShape'
    BY <2>5 DEF WorkerCrash
  <2> QED
    BY <1>2, <2>1, <2>2, <2>3, <2>4, <2>5 DEF Addon
<1>3. CASE Chain
  <2>1. CASE prepareWasmEnvCleanup
    BY <2>1 DEF prepareWasmEnvCleanup, CheckThrows
  <2>2. CASE drainWasmEnvCleanup
    BY <2>2 DEF drainWasmEnvCleanup, CheckThrows
  <2>3. CASE DrainTurn
    BY <2>3 DEF DrainTurn, CheckThrows, ReadsEmpty, StillWaiting
  <2>4. CASE ContinueAfterDrain
    BY <2>4 DEF ContinueAfterDrain
  <2>5. CASE destroyEmnapiContext
    BY <2>5 DEF destroyEmnapiContext, CheckThrows, ContextGone
  <2>6. ASSUME NEW ok \in BOOLEAN, DestroySettles(ok) PROVE WaitShape'
    BY <2>6 DEF DestroySettles
  <2>7. CASE StopWorkers
    BY <2>7 DEF StopWorkers, terminateWasiWorkers
  <2>8. CASE WorkersStopped
    BY <2>8 DEF WorkersStopped
  <2>9. CASE DisposeDone
    BY <2>9 DEF DisposeDone
  <2>10. CASE DisposeFailed
    BY <2>10 DEF DisposeFailed
  <2>11. CASE DisposeFailedAfterCrash
    BY <2>11 DEF DisposeFailedAfterCrash, terminateWasiWorkers
  <2>12. CASE CrashedDisposeRejects
    BY <2>12 DEF CrashedDisposeRejects
  <2>13. CASE CrashPromiseRejects
    BY <2>13 DEF CrashPromiseRejects, MainIdle
  <2>14. CASE RollbackRetained
    BY <2>14 DEF RollbackRetained, Settled
  <2>15. CASE RollbackDestroyFailed
    BY <2>15 DEF RollbackDestroyFailed
  <2>16. CASE RollbackComplete
    BY <2>16 DEF RollbackComplete, Settled
  <2> QED
    BY <1>3, <2>1, <2>2, <2>3, <2>4, <2>5, <2>6, <2>7, <2>8, <2>9, <2>10, <2>11, <2>12, <2>13, <2>14, <2>15,
       <2>16 DEF Chain
<1>4. CASE Terminated
  <2>1. ASSUME NEW n \in PassNames, NEW w \in Workers, NEW ok \in BOOLEAN, WorkerTerminated(n, w, ok) PROVE WaitShape'
    BY <2>1 DEF WorkerTerminated, MainIdle
  <2> QED
    BY <1>4, <2>1 DEF Terminated
<1>5. CASE ReplayRollback
  BY <1>5 DEF ReplayRollback, MainIdle
<1>6. CASE Exit
  BY <1>6 DEF Exit, ExitTeardown, ContextGone, MainIdle
<1>7. ASSUME NEW c \in Callers, Dispose(c) PROVE WaitShape'
  <2>1. CASE disposeWasiBinding(c)
    BY <2>1 DEF disposeWasiBinding, MainIdle
  <2>2. CASE disposeAfterThreadCrash(c)
    <3>1. UNCHANGED <<record, pc, main, crashed>>
      BY <2>2 DEF disposeAfterThreadCrash
    <3>2. CASE latch = "crash"
      BY <2>2, <3>2 DEF disposeAfterThreadCrash
    <3>3. CASE latch = "main"
      BY <2>2, <3>3 DEF disposeAfterThreadCrash
    <3>4. CASE latch = "none"
      <4>1. latch' = "crash" /\ crashSettled' = ~pass'["crash"].open
        BY <2>2, <3>4 DEF disposeAfterThreadCrash, terminateWasiWorkers, TerminatedAtOnce
      <4>2. call' = [call EXCEPT ![c] = IF crashSettled' THEN "rejected" ELSE "crash"]
        BY <2>2, <3>4, <4>1 DEF disposeAfterThreadCrash, TerminatedAtOnce
      <4>3. pass'["crash"].open \in BOOLEAN
        <5>1. PICK gone \in SUBSET Live, threw \in SUBSET Live : terminateWasiWorkers("crash", gone, threw)
          BY <2>2, <3>4 DEF disposeAfterThreadCrash
        <5>2. pass'["crash"].open = (Live # gone \cup threw)
          BY <5>1 DEF terminateWasiWorkers
        <5> QED
          BY <5>2
      <4>4. \A d \in Callers : call[d] # "crash"
        BY <3>4
      <4> QED
        BY <3>1, <4>1, <4>2, <4>3, <4>4
    <3> QED
      BY <3>2, <3>3, <3>4
  <2> QED
    BY <1>7, <2>1, <2>2 DEF Dispose
<1> QED
  BY <1>1, <1>2, <1>3, <1>4, <1>5, <1>6, <1>7 DEF Next

\* So does a stutter.
LEMMA WaitersStutter ==
  ASSUME WaitShape, UNCHANGED vars
  PROVE  WaitShape'
BY DEF WaitShape, TeardownsHaveRunner, vars

\* A teardown that somebody waits for has a run of the loader, or promises of
\* the platform, that will end it: the safety half of TeardownsEnd.
THEOREM TeardownsAreRun == Spec => []TeardownsHaveRunner
<1>1. Init => WaitShape
  BY DEF Init, WaitShape, TeardownsHaveRunner
<1>2. IInv /\ WaitShape /\ [Next]_vars => WaitShape'
  <2> SUFFICES ASSUME IInv, WaitShape, Next \/ UNCHANGED vars PROVE WaitShape'
    OBVIOUS
  <2>1. StatesOK /\ MapsOK /\ PassOK /\ ChainShape
    BY DEF IInv, TypeOK, StatesOK, MapsOK, PassOK
  <2> QED
    BY <2>1, WaitShapeStep, WaitersStutter
<1>3. WaitShape => TeardownsHaveRunner
  BY DEF WaitShape
<1> QED
  BY <1>1, <1>2, <1>3, Inductive, PTL DEF Spec

=============================================================================
