------------------------ MODULE WasiDeferred_proofs -------------------------
(***************************************************************************)
(* Proofs about WasiDeferred, for any number of instances created by       *)
(* instantiate() and createInstance(): no path that can yield discards a   *)
(* settlement, what a failed creation kept is kept by a listener or a      *)
(* batch, there is one singleton, and nobody waits for what is not on its  *)
(* way.                                                                    *)
(***************************************************************************)
EXTENDS WasiDeferred, TLAPS

\* Promises that Context.destroy() would discard, whether the barrier ran or not.
Unsettled(i) == promise[i] \in {"running", "queued"}

\* A path that can yield destroys a context only after its drain, and nothing
\* starts or finishes behind the barrier.
DrainShape ==
  /\ \A i \in prepared : promise[i] # "running"
  /\ \A i \in Instances :
       /\ pc[i] \in {"unused", "module"} => promise[i] = "none"
       /\ pc[i] = "rdrain" \/ dp[i] \in {"drain", "destroy"} => i \in prepared
       /\ pc[i] = "rdestroy" \/ dp[i] = "destroy" => ~Unsettled(i)

\* An independent instance is managed, and its destroyer called by a batch, only
\* when its initialization failed.
FailedShape ==
  \A i \in Instances :
    /\ pc[i] \in {"rdrain", "unreached"} => i \in failed
    /\ kind[i] = "indep" /\ (i \in managed \/ bp[i] = "call") => i \in failed
    /\ bp[i] = "retry" => i \in failed

\* The context of a singleton, and one whose rollback began to destroy it, is
\* managed until it is gone; its rollback alone waits for the rollback's destroy.
ManagedShape ==
  \A i \in Instances :
    /\ pc[i] \in {"unused", "module"} => ctx[i] = "none"
    /\ ctx[i] \in {"alive", "destroying"}
       /\ (kind[i] = "single" \/ pc[i] \in {"rdestroy", "rwait", "rejected"}) => i \in managed
    /\ waiter[i] = "rollback" => pc[i] = "rwait"

\* A singleton that is not disposed is the default instance, and the one that a
\* disposal under way was started for is still that one or was forgotten.
DefaultShape ==
  /\ \A i \in Instances :
       /\ kind[i] = "single" /\ pc[i] \notin {"unused", "rejected"} /\ ctx[i] # "disposed"
            => default = i
       /\ dp[i] = "ok" => ctx[i] = "disposed"
  /\ ddispose # None => started /\ default \in {ddispose, None}

\* The inductive invariant.
IInv == /\ TypeOK /\ DrainShape /\ FailedShape /\ ManagedShape /\ DefaultShape
        /\ YieldingPathsStrandNothing /\ RetainedIsManaged

\* The parts of the type invariant.
CreationOK ==
  /\ kind \in [Instances -> {"single", "indep"}]
  /\ pc \in [Instances -> {"unused", "module", "instantiate", "ready", "rdrain",
                           "unreached", "rdestroy", "rwait", "rejected"}]
  /\ dp \in [Instances -> {"idle", "drain", "destroy", "wait", "ok", "error"}]
  /\ bp \in [Instances -> {"idle", "call", "default", "retry", "wait", "done"}]
ContextOK ==
  /\ ctx \in [Instances -> {"none", "alive", "destroying", "disposed"}]
  /\ waiter \in [Instances -> {"none", "rollback", "dispose", "batch"}]
  /\ promise \in [Instances -> {"none", "running", "queued", "settled", "stranded"}]
  /\ strander \in [Instances -> {"none", "rollback", "dispose", "exit", "retry"}]
BlockingOK ==
  /\ ctx \in [Instances -> {"none", "alive", "destroying", "disposed"}]
  /\ blocking \subseteq {i \in Instances : ctx[i] = "destroying"}
SetsOK ==
  /\ failed \subseteq Instances /\ prepared \subseteq Instances
  /\ managed \subseteq Instances /\ batch \subseteq Instances /\ attempted \subseteq Instances
ModuleOK ==
  /\ default \in Instances \cup {None} /\ ddispose \in Instances \cup {None}
  /\ listener \in BOOLEAN /\ started \in BOOLEAN /\ byExit \in BOOLEAN /\ exits \in 0..MaxExits
  /\ mdispose \in {"none", "default", "managed", "await"}

\* The states of the creations and disposals keep their types.
LEMMA CreationStep ==
  ASSUME CreationOK, ModuleOK, Next
  PROVE  CreationOK'
<1> USE DEF CreationOK, context, create, module, cleanup, Set
<1>1. CASE CallsDestroyers
  <2>1. ASSUME NEW i \in Instances, CallsDestroy(i) PROVE CreationOK'
    BY <2>1 DEF CallsDestroy, destroy, Discards, Cancelled, UnregisterCleanup, Reregister,
        prepareEnvCleanup
  <2>2. ASSUME NEW i \in Instances, CallsDefault(i) PROVE CreationOK'
    BY <2>2 DEF CallsDefault, disposeDefaultInstance
  <2> QED
    BY <1>1, <2>1, <2>2 DEF CallsDestroyers
<1>2. ASSUME NEW i \in Instances, createInstance(i) PROVE CreationOK'
  BY <1>2 DEF createInstance
<1>3. ASSUME NEW i \in Instances, instantiate(i) PROVE CreationOK'
  BY <1>3 DEF instantiate, DestroyDepth
<1>4. ASSUME NEW i \in Instances, disposeInstance(i) PROVE CreationOK'
  BY <1>4 DEF disposeInstance, StartInstanceDispose, MustDrain, prepareEnvCleanup, Cancelled
<1>5. ASSUME NEW i \in Instances, Work(i) PROVE CreationOK'
  <2>1. CASE StartWork(i)
    BY <2>1 DEF StartWork
  <2>2. CASE FinishWork(i)
    BY <2>2 DEF FinishWork
  <2>3. CASE Dispatch(i)
    BY <2>3 DEF Dispatch
  <2> QED
    BY <1>5, <2>1, <2>2, <2>3 DEF Work
<1>6. ASSUME NEW i \in Instances, Creates(i) PROVE CreationOK'
  <2>1. CASE InputRejected(i)
    BY <2>1 DEF InputRejected, ForgetDefault
  <2>2. ASSUME NEW ok \in BOOLEAN, CreateContext(i, ok) PROVE CreationOK'
    BY <2>2 DEF CreateContext, registerManagedEmnapiContext
  <2>3. CASE InstantiateOk(i)
    BY <2>3 DEF InstantiateOk
  <2>4. CASE InstantiateFails(i)
    BY <2>4 DEF InstantiateFails, prepareEnvCleanup, Cancelled
  <2>5. CASE RollbackDrained(i)
    BY <2>5 DEF RollbackDrained, RegisterRollback, registerManagedEmnapiContext
  <2>6. CASE RollbackTimesOut(i)
    BY <2>6 DEF RollbackTimesOut
  <2>7. CASE RollbackRetains(i)
    BY <2>7 DEF RollbackRetains, ForgetDefault, registerManagedEmnapiContext
  <2>8. CASE RollbackDestroys(i)
    BY <2>8 DEF RollbackDestroys, destroy, Discards, Cancelled, UnregisterCleanup, Reregister,
       prepareEnvCleanup, ForgetDefault
  <2> QED
    BY <1>6, <2>1, <2>2, <2>3, <2>4, <2>5, <2>6, <2>7, <2>8 DEF Creates
<1>7. ASSUME NEW i \in Instances, Disposes(i) PROVE CreationOK'
  <2>1. CASE DisposeDrained(i)
    BY <2>1 DEF DisposeDrained
  <2>2. CASE DisposeGivesUp(i)
    BY <2>2 DEF DisposeGivesUp
  <2>3. CASE DisposeDestroys(i)
    BY <2>3 DEF DisposeDestroys, destroy, Discards, Cancelled, UnregisterCleanup,
        Reregister, prepareEnvCleanup
  <2> QED
    BY <1>7, <2>1, <2>2, <2>3 DEF Disposes
<1>8. ASSUME NEW i \in Instances, DestroyEnds(i) PROVE CreationOK'
  <2>1. ASSUME NEW ok \in BOOLEAN, DestroySettles(i, ok) PROVE CreationOK'
    BY <2>1 DEF DestroySettles, UnregisterCleanup, Reregister, ForgetDefault
  <2> QED
    BY <1>8, <2>1 DEF DestroyEnds
<1>9. CASE DisposesDefault
  <2>1. CASE DefaultReady
    BY <2>1 DEF DefaultReady, StartInstanceDispose, MustDrain, prepareEnvCleanup, Cancelled
  <2>2. CASE DefaultRejected
    BY <2>2 DEF DefaultRejected, DefaultSettles
  <2>3. CASE DefaultDisposed
    BY <2>3 DEF DefaultDisposed, DefaultSettles
  <2>4. CASE DefaultFailed
    BY <2>4 DEF DefaultFailed, DefaultSettles
  <2> QED
    BY <1>9, <2>1, <2>2, <2>3, <2>4 DEF DisposesDefault
<1>10. CASE beforeExit
  BY <1>10 DEF beforeExit, StartBatch
<1>11. CASE BatchSettles
  BY <1>11 DEF BatchSettles
<1>12. CASE dispose
  BY <1>12 DEF dispose, disposeDefaultInstance
<1>13. CASE DisposesModule
  <2>1. CASE DrainManaged
    BY <2>1 DEF DrainManaged, StartBatch
  <2>2. CASE ModuleDisposed
    BY <2>2 DEF ModuleDisposed
  <2> QED
    BY <1>13, <2>1, <2>2 DEF DisposesModule
<1> QED
  BY <1>1, <1>2, <1>3, <1>4, <1>5, <1>6, <1>7, <1>8, <1>9, <1>10, <1>11, <1>12, <1>13 DEF Next

\* So do the contexts.
LEMMA ContextStep ==
  ASSUME ContextOK, Next
  PROVE  ContextOK'
<1> USE DEF ContextOK, context, create, module, cleanup, Set
<1>1. CASE CallsDestroyers
  <2>1. ASSUME NEW i \in Instances, CallsDestroy(i) PROVE ContextOK'
    BY <2>1 DEF CallsDestroy, destroy, Discards, Cancelled, UnregisterCleanup, Reregister,
        prepareEnvCleanup
  <2>2. ASSUME NEW i \in Instances, CallsDefault(i) PROVE ContextOK'
    BY <2>2 DEF CallsDefault, disposeDefaultInstance
  <2> QED
    BY <1>1, <2>1, <2>2 DEF CallsDestroyers
<1>2. ASSUME NEW i \in Instances, createInstance(i) PROVE ContextOK'
  BY <1>2 DEF createInstance
<1>3. ASSUME NEW i \in Instances, instantiate(i) PROVE ContextOK'
  BY <1>3 DEF instantiate, DestroyDepth
<1>4. ASSUME NEW i \in Instances, disposeInstance(i) PROVE ContextOK'
  BY <1>4 DEF disposeInstance, StartInstanceDispose, MustDrain, prepareEnvCleanup, Cancelled
<1>5. ASSUME NEW i \in Instances, Work(i) PROVE ContextOK'
  <2>1. CASE StartWork(i)
    BY <2>1 DEF StartWork
  <2>2. CASE FinishWork(i)
    BY <2>2 DEF FinishWork
  <2>3. CASE Dispatch(i)
    BY <2>3 DEF Dispatch
  <2> QED
    BY <1>5, <2>1, <2>2, <2>3 DEF Work
<1>6. ASSUME NEW i \in Instances, Creates(i) PROVE ContextOK'
  <2>1. CASE InputRejected(i)
    BY <2>1 DEF InputRejected, ForgetDefault
  <2>2. ASSUME NEW ok \in BOOLEAN, CreateContext(i, ok) PROVE ContextOK'
    BY <2>2 DEF CreateContext, registerManagedEmnapiContext
  <2>3. CASE InstantiateOk(i)
    BY <2>3 DEF InstantiateOk
  <2>4. CASE InstantiateFails(i)
    BY <2>4 DEF InstantiateFails, prepareEnvCleanup, Cancelled
  <2>5. CASE RollbackDrained(i)
    BY <2>5 DEF RollbackDrained, RegisterRollback, registerManagedEmnapiContext
  <2>6. CASE RollbackTimesOut(i)
    BY <2>6 DEF RollbackTimesOut
  <2>7. CASE RollbackRetains(i)
    BY <2>7 DEF RollbackRetains, ForgetDefault, registerManagedEmnapiContext
  <2>8. CASE RollbackDestroys(i)
    BY <2>8 DEF RollbackDestroys, destroy, Discards, Cancelled, UnregisterCleanup, Reregister,
       prepareEnvCleanup, ForgetDefault
  <2> QED
    BY <1>6, <2>1, <2>2, <2>3, <2>4, <2>5, <2>6, <2>7, <2>8 DEF Creates
<1>7. ASSUME NEW i \in Instances, Disposes(i) PROVE ContextOK'
  <2>1. CASE DisposeDrained(i)
    BY <2>1 DEF DisposeDrained
  <2>2. CASE DisposeGivesUp(i)
    BY <2>2 DEF DisposeGivesUp
  <2>3. CASE DisposeDestroys(i)
    BY <2>3 DEF DisposeDestroys, destroy, Discards, Cancelled, UnregisterCleanup,
        Reregister, prepareEnvCleanup
  <2> QED
    BY <1>7, <2>1, <2>2, <2>3 DEF Disposes
<1>8. ASSUME NEW i \in Instances, DestroyEnds(i) PROVE ContextOK'
  <2>1. ASSUME NEW ok \in BOOLEAN, DestroySettles(i, ok) PROVE ContextOK'
    BY <2>1 DEF DestroySettles, UnregisterCleanup, Reregister, ForgetDefault
  <2> QED
    BY <1>8, <2>1 DEF DestroyEnds
<1>9. CASE DisposesDefault
  <2>1. CASE DefaultReady
    BY <2>1 DEF DefaultReady, StartInstanceDispose, MustDrain, prepareEnvCleanup, Cancelled
  <2>2. CASE DefaultRejected
    BY <2>2 DEF DefaultRejected, DefaultSettles
  <2>3. CASE DefaultDisposed
    BY <2>3 DEF DefaultDisposed, DefaultSettles
  <2>4. CASE DefaultFailed
    BY <2>4 DEF DefaultFailed, DefaultSettles
  <2> QED
    BY <1>9, <2>1, <2>2, <2>3, <2>4 DEF DisposesDefault
<1>10. CASE beforeExit
  BY <1>10 DEF beforeExit, StartBatch
<1>11. CASE BatchSettles
  BY <1>11 DEF BatchSettles
<1>12. CASE dispose
  BY <1>12 DEF dispose, disposeDefaultInstance
<1>13. CASE DisposesModule
  <2>1. CASE DrainManaged
    BY <2>1 DEF DrainManaged, StartBatch
  <2>2. CASE ModuleDisposed
    BY <2>2 DEF ModuleDisposed
  <2> QED
    BY <1>13, <2>1, <2>2 DEF DisposesModule
<1> QED
  BY <1>1, <1>2, <1>3, <1>4, <1>5, <1>6, <1>7, <1>8, <1>9, <1>10, <1>11, <1>12, <1>13 DEF Next

\* Only a destroy under way blocks the life cycle of the module.
LEMMA BlockingStep ==
  ASSUME BlockingOK, CreationOK, ManagedShape, Next
  PROVE  BlockingOK'
<1> USE DEF BlockingOK, context, create, module, cleanup, Set
<1>1. CASE CallsDestroyers
  <2>1. ASSUME NEW i \in Instances, CallsDestroy(i) PROVE BlockingOK'
    BY <2>1 DEF CallsDestroy, destroy, Discards, Cancelled, UnregisterCleanup, Reregister,
        prepareEnvCleanup
  <2>2. ASSUME NEW i \in Instances, CallsDefault(i) PROVE BlockingOK'
    BY <2>2 DEF CallsDefault, disposeDefaultInstance
  <2> QED
    BY <1>1, <2>1, <2>2 DEF CallsDestroyers
<1>2. ASSUME NEW i \in Instances, createInstance(i) PROVE BlockingOK'
  BY <1>2 DEF createInstance
<1>3. ASSUME NEW i \in Instances, instantiate(i) PROVE BlockingOK'
  BY <1>3 DEF instantiate, DestroyDepth
<1>4. ASSUME NEW i \in Instances, disposeInstance(i) PROVE BlockingOK'
  BY <1>4 DEF disposeInstance, StartInstanceDispose, MustDrain, prepareEnvCleanup, Cancelled
<1>5. ASSUME NEW i \in Instances, Work(i) PROVE BlockingOK'
  <2>1. CASE StartWork(i)
    BY <2>1 DEF StartWork
  <2>2. CASE FinishWork(i)
    BY <2>2 DEF FinishWork
  <2>3. CASE Dispatch(i)
    BY <2>3 DEF Dispatch
  <2> QED
    BY <1>5, <2>1, <2>2, <2>3 DEF Work
<1>6. ASSUME NEW i \in Instances, Creates(i) PROVE BlockingOK'
  <2>1. CASE InputRejected(i)
    BY <2>1 DEF InputRejected, ForgetDefault
  <2>2. ASSUME NEW ok \in BOOLEAN, CreateContext(i, ok) PROVE BlockingOK'
    BY <2>2 DEF CreateContext, registerManagedEmnapiContext, CreationOK, ManagedShape
  <2>3. CASE InstantiateOk(i)
    BY <2>3 DEF InstantiateOk
  <2>4. CASE InstantiateFails(i)
    BY <2>4 DEF InstantiateFails, prepareEnvCleanup, Cancelled
  <2>5. CASE RollbackDrained(i)
    BY <2>5 DEF RollbackDrained, RegisterRollback, registerManagedEmnapiContext
  <2>6. CASE RollbackTimesOut(i)
    BY <2>6 DEF RollbackTimesOut
  <2>7. CASE RollbackRetains(i)
    BY <2>7 DEF RollbackRetains, ForgetDefault, registerManagedEmnapiContext
  <2>8. CASE RollbackDestroys(i)
    BY <2>8 DEF RollbackDestroys, destroy, Discards, Cancelled, UnregisterCleanup, Reregister,
       prepareEnvCleanup, ForgetDefault
  <2> QED
    BY <1>6, <2>1, <2>2, <2>3, <2>4, <2>5, <2>6, <2>7, <2>8 DEF Creates
<1>7. ASSUME NEW i \in Instances, Disposes(i) PROVE BlockingOK'
  <2>1. CASE DisposeDrained(i)
    BY <2>1 DEF DisposeDrained
  <2>2. CASE DisposeGivesUp(i)
    BY <2>2 DEF DisposeGivesUp
  <2>3. CASE DisposeDestroys(i)
    BY <2>3 DEF DisposeDestroys, destroy, Discards, Cancelled, UnregisterCleanup,
        Reregister, prepareEnvCleanup
  <2> QED
    BY <1>7, <2>1, <2>2, <2>3 DEF Disposes
<1>8. ASSUME NEW i \in Instances, DestroyEnds(i) PROVE BlockingOK'
  <2>1. ASSUME NEW ok \in BOOLEAN, DestroySettles(i, ok) PROVE BlockingOK'
    BY <2>1 DEF DestroySettles, UnregisterCleanup, Reregister, ForgetDefault
  <2> QED
    BY <1>8, <2>1 DEF DestroyEnds
<1>9. CASE DisposesDefault
  <2>1. CASE DefaultReady
    BY <2>1 DEF DefaultReady, StartInstanceDispose, MustDrain, prepareEnvCleanup, Cancelled
  <2>2. CASE DefaultRejected
    BY <2>2 DEF DefaultRejected, DefaultSettles
  <2>3. CASE DefaultDisposed
    BY <2>3 DEF DefaultDisposed, DefaultSettles
  <2>4. CASE DefaultFailed
    BY <2>4 DEF DefaultFailed, DefaultSettles
  <2> QED
    BY <1>9, <2>1, <2>2, <2>3, <2>4 DEF DisposesDefault
<1>10. CASE beforeExit
  BY <1>10 DEF beforeExit, StartBatch
<1>11. CASE BatchSettles
  BY <1>11 DEF BatchSettles
<1>12. CASE dispose
  BY <1>12 DEF dispose, disposeDefaultInstance
<1>13. CASE DisposesModule
  <2>1. CASE DrainManaged
    BY <2>1 DEF DrainManaged, StartBatch
  <2>2. CASE ModuleDisposed
    BY <2>2 DEF ModuleDisposed
  <2> QED
    BY <1>13, <2>1, <2>2 DEF DisposesModule
<1> QED
  BY <1>1, <1>2, <1>3, <1>4, <1>5, <1>6, <1>7, <1>8, <1>9, <1>10, <1>11, <1>12, <1>13 DEF Next

\* So do the sets of instances.
LEMMA SetsStep ==
  ASSUME SetsOK, ModuleOK, Next
  PROVE  SetsOK'
<1> USE DEF SetsOK, context, create, module, cleanup, Set
<1>1. CASE CallsDestroyers
  <2>1. ASSUME NEW i \in Instances, CallsDestroy(i) PROVE SetsOK'
    BY <2>1 DEF CallsDestroy, destroy, Discards, Cancelled, UnregisterCleanup, Reregister,
        prepareEnvCleanup
  <2>2. ASSUME NEW i \in Instances, CallsDefault(i) PROVE SetsOK'
    BY <2>2 DEF CallsDefault, disposeDefaultInstance
  <2> QED
    BY <1>1, <2>1, <2>2 DEF CallsDestroyers
<1>2. ASSUME NEW i \in Instances, createInstance(i) PROVE SetsOK'
  BY <1>2 DEF createInstance
<1>3. ASSUME NEW i \in Instances, instantiate(i) PROVE SetsOK'
  BY <1>3 DEF instantiate, DestroyDepth
<1>4. ASSUME NEW i \in Instances, disposeInstance(i) PROVE SetsOK'
  BY <1>4 DEF disposeInstance, StartInstanceDispose, MustDrain, prepareEnvCleanup, Cancelled
<1>5. ASSUME NEW i \in Instances, Work(i) PROVE SetsOK'
  <2>1. CASE StartWork(i)
    BY <2>1 DEF StartWork
  <2>2. CASE FinishWork(i)
    BY <2>2 DEF FinishWork
  <2>3. CASE Dispatch(i)
    BY <2>3 DEF Dispatch
  <2> QED
    BY <1>5, <2>1, <2>2, <2>3 DEF Work
<1>6. ASSUME NEW i \in Instances, Creates(i) PROVE SetsOK'
  <2>1. CASE InputRejected(i)
    BY <2>1 DEF InputRejected, ForgetDefault
  <2>2. ASSUME NEW ok \in BOOLEAN, CreateContext(i, ok) PROVE SetsOK'
    BY <2>2 DEF CreateContext, registerManagedEmnapiContext
  <2>3. CASE InstantiateOk(i)
    BY <2>3 DEF InstantiateOk
  <2>4. CASE InstantiateFails(i)
    BY <2>4 DEF InstantiateFails, prepareEnvCleanup, Cancelled
  <2>5. CASE RollbackDrained(i)
    BY <2>5 DEF RollbackDrained, RegisterRollback, registerManagedEmnapiContext
  <2>6. CASE RollbackTimesOut(i)
    BY <2>6 DEF RollbackTimesOut
  <2>7. CASE RollbackRetains(i)
    BY <2>7 DEF RollbackRetains, ForgetDefault, registerManagedEmnapiContext
  <2>8. CASE RollbackDestroys(i)
    BY <2>8 DEF RollbackDestroys, destroy, Discards, Cancelled, UnregisterCleanup, Reregister,
       prepareEnvCleanup, ForgetDefault
  <2> QED
    BY <1>6, <2>1, <2>2, <2>3, <2>4, <2>5, <2>6, <2>7, <2>8 DEF Creates
<1>7. ASSUME NEW i \in Instances, Disposes(i) PROVE SetsOK'
  <2>1. CASE DisposeDrained(i)
    BY <2>1 DEF DisposeDrained
  <2>2. CASE DisposeGivesUp(i)
    BY <2>2 DEF DisposeGivesUp
  <2>3. CASE DisposeDestroys(i)
    BY <2>3 DEF DisposeDestroys, destroy, Discards, Cancelled, UnregisterCleanup,
        Reregister, prepareEnvCleanup
  <2> QED
    BY <1>7, <2>1, <2>2, <2>3 DEF Disposes
<1>8. ASSUME NEW i \in Instances, DestroyEnds(i) PROVE SetsOK'
  <2>1. ASSUME NEW ok \in BOOLEAN, DestroySettles(i, ok) PROVE SetsOK'
    BY <2>1 DEF DestroySettles, UnregisterCleanup, Reregister, ForgetDefault
  <2> QED
    BY <1>8, <2>1 DEF DestroyEnds
<1>9. CASE DisposesDefault
  <2>1. CASE DefaultReady
    BY <2>1 DEF DefaultReady, StartInstanceDispose, MustDrain, prepareEnvCleanup, Cancelled,
        ModuleOK
  <2>2. CASE DefaultRejected
    BY <2>2 DEF DefaultRejected, DefaultSettles
  <2>3. CASE DefaultDisposed
    BY <2>3 DEF DefaultDisposed, DefaultSettles
  <2>4. CASE DefaultFailed
    BY <2>4 DEF DefaultFailed, DefaultSettles
  <2> QED
    BY <1>9, <2>1, <2>2, <2>3, <2>4 DEF DisposesDefault
<1>10. CASE beforeExit
  BY <1>10 DEF beforeExit, StartBatch
<1>11. CASE BatchSettles
  BY <1>11 DEF BatchSettles
<1>12. CASE dispose
  BY <1>12 DEF dispose, disposeDefaultInstance, ModuleOK
<1>13. CASE DisposesModule
  <2>1. CASE DrainManaged
    BY <2>1 DEF DrainManaged, StartBatch
  <2>2. CASE ModuleDisposed
    BY <2>2 DEF ModuleDisposed
  <2> QED
    BY <1>13, <2>1, <2>2 DEF DisposesModule
<1> QED
  BY <1>1, <1>2, <1>3, <1>4, <1>5, <1>6, <1>7, <1>8, <1>9, <1>10, <1>11, <1>12, <1>13 DEF Next

\* So do the singleton and the flags of the module.
LEMMA ModuleStep ==
  ASSUME ModuleOK, Next
  PROVE  ModuleOK'
<1> USE DeferredAssumption DEF ModuleOK, context, create, module, cleanup, Set
<1>1. CASE CallsDestroyers
  <2>1. ASSUME NEW i \in Instances, CallsDestroy(i) PROVE ModuleOK'
    BY <2>1 DEF CallsDestroy, destroy, Discards, Cancelled, UnregisterCleanup, Reregister,
        prepareEnvCleanup
  <2>2. ASSUME NEW i \in Instances, CallsDefault(i) PROVE ModuleOK'
    BY <2>2 DEF CallsDefault, disposeDefaultInstance
  <2> QED
    BY <1>1, <2>1, <2>2 DEF CallsDestroyers
<1>2. ASSUME NEW i \in Instances, createInstance(i) PROVE ModuleOK'
  BY <1>2 DEF createInstance
<1>3. ASSUME NEW i \in Instances, instantiate(i) PROVE ModuleOK'
  BY <1>3 DEF instantiate, DestroyDepth
<1>4. ASSUME NEW i \in Instances, disposeInstance(i) PROVE ModuleOK'
  BY <1>4 DEF disposeInstance, StartInstanceDispose, MustDrain, prepareEnvCleanup, Cancelled
<1>5. ASSUME NEW i \in Instances, Work(i) PROVE ModuleOK'
  <2>1. CASE StartWork(i)
    BY <2>1 DEF StartWork
  <2>2. CASE FinishWork(i)
    BY <2>2 DEF FinishWork
  <2>3. CASE Dispatch(i)
    BY <2>3 DEF Dispatch
  <2> QED
    BY <1>5, <2>1, <2>2, <2>3 DEF Work
<1>6. ASSUME NEW i \in Instances, Creates(i) PROVE ModuleOK'
  <2>1. CASE InputRejected(i)
    BY <2>1 DEF InputRejected, ForgetDefault
  <2>2. ASSUME NEW ok \in BOOLEAN, CreateContext(i, ok) PROVE ModuleOK'
    BY <2>2 DEF CreateContext, registerManagedEmnapiContext
  <2>3. CASE InstantiateOk(i)
    BY <2>3 DEF InstantiateOk
  <2>4. CASE InstantiateFails(i)
    BY <2>4 DEF InstantiateFails, prepareEnvCleanup, Cancelled
  <2>5. CASE RollbackDrained(i)
    BY <2>5 DEF RollbackDrained, RegisterRollback, registerManagedEmnapiContext
  <2>6. CASE RollbackTimesOut(i)
    BY <2>6 DEF RollbackTimesOut
  <2>7. CASE RollbackRetains(i)
    BY <2>7 DEF RollbackRetains, ForgetDefault, registerManagedEmnapiContext
  <2>8. CASE RollbackDestroys(i)
    BY <2>8 DEF RollbackDestroys, destroy, Discards, Cancelled, UnregisterCleanup, Reregister,
       prepareEnvCleanup, ForgetDefault
  <2> QED
    BY <1>6, <2>1, <2>2, <2>3, <2>4, <2>5, <2>6, <2>7, <2>8 DEF Creates
<1>7. ASSUME NEW i \in Instances, Disposes(i) PROVE ModuleOK'
  <2>1. CASE DisposeDrained(i)
    BY <2>1 DEF DisposeDrained
  <2>2. CASE DisposeGivesUp(i)
    BY <2>2 DEF DisposeGivesUp
  <2>3. CASE DisposeDestroys(i)
    BY <2>3 DEF DisposeDestroys, destroy, Discards, Cancelled, UnregisterCleanup,
        Reregister, prepareEnvCleanup
  <2> QED
    BY <1>7, <2>1, <2>2, <2>3 DEF Disposes
<1>8. ASSUME NEW i \in Instances, DestroyEnds(i) PROVE ModuleOK'
  <2>1. ASSUME NEW ok \in BOOLEAN, DestroySettles(i, ok) PROVE ModuleOK'
    BY <2>1 DEF DestroySettles, UnregisterCleanup, Reregister, ForgetDefault
  <2> QED
    BY <1>8, <2>1 DEF DestroyEnds
<1>9. CASE DisposesDefault
  <2>1. CASE DefaultReady
    BY <2>1 DEF DefaultReady, StartInstanceDispose, MustDrain, prepareEnvCleanup, Cancelled
  <2>2. CASE DefaultRejected
    BY <2>2 DEF DefaultRejected, DefaultSettles
  <2>3. CASE DefaultDisposed
    BY <2>3 DEF DefaultDisposed, DefaultSettles
  <2>4. CASE DefaultFailed
    BY <2>4 DEF DefaultFailed, DefaultSettles
  <2> QED
    BY <1>9, <2>1, <2>2, <2>3, <2>4 DEF DisposesDefault
<1>10. CASE beforeExit
  <3>1. exits < MaxExits /\ exits' = exits + 1
    BY <1>10 DEF beforeExit
  <3>2. exits' \in 0..MaxExits
    BY <3>1
  <3>3. byExit' \in BOOLEAN /\ listener' \in BOOLEAN
    BY <1>10 DEF beforeExit, StartBatch
  <3>4. UNCHANGED <<default, ddispose, started, mdispose>>
    BY <1>10 DEF beforeExit
  <3> QED
    BY <3>2, <3>3, <3>4
<1>11. CASE BatchSettles
  BY <1>11 DEF BatchSettles
<1>12. CASE dispose
  BY <1>12 DEF dispose, disposeDefaultInstance
<1>13. CASE DisposesModule
  <2>1. CASE DrainManaged
    BY <2>1 DEF DrainManaged, StartBatch
  <2>2. CASE ModuleDisposed
    BY <2>2 DEF ModuleDisposed
  <2> QED
    BY <1>13, <2>1, <2>2 DEF DisposesModule
<1> QED
  BY <1>1, <1>2, <1>3, <1>4, <1>5, <1>6, <1>7, <1>8, <1>9, <1>10, <1>11, <1>12, <1>13 DEF Next

\* No path that can yield destroys over a queue, after every step.
LEMMA DrainStep ==
  ASSUME TypeOK, DrainShape, Next
  PROVE  DrainShape'
<1> USE DEF TypeOK, DrainShape, Unsettled, context, create, module, cleanup, Set
<1>1. CASE CallsDestroyers
  <2>1. ASSUME NEW i \in Instances, CallsDestroy(i) PROVE DrainShape'
    BY <2>1 DEF CallsDestroy, destroy, Discards, Cancelled, UnregisterCleanup, Reregister,
        prepareEnvCleanup
  <2>2. ASSUME NEW i \in Instances, CallsDefault(i) PROVE DrainShape'
    BY <2>2 DEF CallsDefault, disposeDefaultInstance
  <2> QED
    BY <1>1, <2>1, <2>2 DEF CallsDestroyers
<1>2. ASSUME NEW i \in Instances, createInstance(i) PROVE DrainShape'
  BY <1>2 DEF createInstance
<1>3. ASSUME NEW i \in Instances, instantiate(i) PROVE DrainShape'
  BY <1>3 DEF instantiate, DestroyDepth
<1>4. ASSUME NEW i \in Instances, disposeInstance(i) PROVE DrainShape'
  BY <1>4 DEF disposeInstance, StartInstanceDispose, MustDrain, prepareEnvCleanup, Cancelled
<1>5. ASSUME NEW i \in Instances, Work(i) PROVE DrainShape'
  <2>1. CASE StartWork(i)
    BY <2>1 DEF StartWork
  <2>2. CASE FinishWork(i)
    BY <2>2 DEF FinishWork
  <2>3. CASE Dispatch(i)
    BY <2>3 DEF Dispatch
  <2> QED
    BY <1>5, <2>1, <2>2, <2>3 DEF Work
<1>6. ASSUME NEW i \in Instances, Creates(i) PROVE DrainShape'
  <2>1. CASE InputRejected(i)
    BY <2>1 DEF InputRejected, ForgetDefault
  <2>2. ASSUME NEW ok \in BOOLEAN, CreateContext(i, ok) PROVE DrainShape'
    BY <2>2 DEF CreateContext, registerManagedEmnapiContext
  <2>3. CASE InstantiateOk(i)
    BY <2>3 DEF InstantiateOk
  <2>4. CASE InstantiateFails(i)
    BY <2>4 DEF InstantiateFails, prepareEnvCleanup, Cancelled
  <2>5. CASE RollbackDrained(i)
    BY <2>5 DEF RollbackDrained, RegisterRollback, registerManagedEmnapiContext
  <2>6. CASE RollbackTimesOut(i)
    BY <2>6 DEF RollbackTimesOut
  <2>7. CASE RollbackRetains(i)
    BY <2>7 DEF RollbackRetains, ForgetDefault, registerManagedEmnapiContext
  <2>8. CASE RollbackDestroys(i)
    BY <2>8 DEF RollbackDestroys, destroy, Discards, Cancelled, UnregisterCleanup, Reregister,
       prepareEnvCleanup, ForgetDefault
  <2> QED
    BY <1>6, <2>1, <2>2, <2>3, <2>4, <2>5, <2>6, <2>7, <2>8 DEF Creates
<1>7. ASSUME NEW i \in Instances, Disposes(i) PROVE DrainShape'
  <2>1. CASE DisposeDrained(i)
    BY <2>1 DEF DisposeDrained
  <2>2. CASE DisposeGivesUp(i)
    BY <2>2 DEF DisposeGivesUp
  <2>3. CASE DisposeDestroys(i)
    BY <2>3 DEF DisposeDestroys, destroy, Discards, Cancelled, UnregisterCleanup,
        Reregister, prepareEnvCleanup
  <2> QED
    BY <1>7, <2>1, <2>2, <2>3 DEF Disposes
<1>8. ASSUME NEW i \in Instances, DestroyEnds(i) PROVE DrainShape'
  <2>1. ASSUME NEW ok \in BOOLEAN, DestroySettles(i, ok) PROVE DrainShape'
    BY <2>1 DEF DestroySettles, UnregisterCleanup, Reregister, ForgetDefault
  <2> QED
    BY <1>8, <2>1 DEF DestroyEnds
<1>9. CASE DisposesDefault
  <2>1. CASE DefaultReady
    BY <2>1 DEF DefaultReady, StartInstanceDispose, MustDrain, prepareEnvCleanup, Cancelled
  <2>2. CASE DefaultRejected
    BY <2>2 DEF DefaultRejected, DefaultSettles
  <2>3. CASE DefaultDisposed
    BY <2>3 DEF DefaultDisposed, DefaultSettles
  <2>4. CASE DefaultFailed
    BY <2>4 DEF DefaultFailed, DefaultSettles
  <2> QED
    BY <1>9, <2>1, <2>2, <2>3, <2>4 DEF DisposesDefault
<1>10. CASE beforeExit
  BY <1>10 DEF beforeExit, StartBatch
<1>11. CASE BatchSettles
  BY <1>11 DEF BatchSettles
<1>12. CASE dispose
  BY <1>12 DEF dispose, disposeDefaultInstance
<1>13. CASE DisposesModule
  <2>1. CASE DrainManaged
    BY <2>1 DEF DrainManaged, StartBatch
  <2>2. CASE ModuleDisposed
    BY <2>2 DEF ModuleDisposed
  <2> QED
    BY <1>13, <2>1, <2>2 DEF DisposesModule
<1> QED
  BY <1>1, <1>2, <1>3, <1>4, <1>5, <1>6, <1>7, <1>8, <1>9, <1>10, <1>11, <1>12, <1>13 DEF Next

\* Every step manages and retries failed instances only.
LEMMA FailedStep ==
  ASSUME TypeOK, FailedShape, Next
  PROVE  FailedShape'
<1> USE DEF TypeOK, FailedShape, context, create, module, cleanup, Set
<1>1. CASE CallsDestroyers
  <2>1. ASSUME NEW i \in Instances, CallsDestroy(i) PROVE FailedShape'
    BY <2>1 DEF CallsDestroy, destroy, Discards, Cancelled, UnregisterCleanup, Reregister,
        prepareEnvCleanup
  <2>2. ASSUME NEW i \in Instances, CallsDefault(i) PROVE FailedShape'
    BY <2>2 DEF CallsDefault, disposeDefaultInstance
  <2> QED
    BY <1>1, <2>1, <2>2 DEF CallsDestroyers
<1>2. ASSUME NEW i \in Instances, createInstance(i) PROVE FailedShape'
  BY <1>2 DEF createInstance
<1>3. ASSUME NEW i \in Instances, instantiate(i) PROVE FailedShape'
  BY <1>3 DEF instantiate, DestroyDepth
<1>4. ASSUME NEW i \in Instances, disposeInstance(i) PROVE FailedShape'
  BY <1>4 DEF disposeInstance, StartInstanceDispose, MustDrain, prepareEnvCleanup, Cancelled
<1>5. ASSUME NEW i \in Instances, Work(i) PROVE FailedShape'
  <2>1. CASE StartWork(i)
    BY <2>1 DEF StartWork
  <2>2. CASE FinishWork(i)
    BY <2>2 DEF FinishWork
  <2>3. CASE Dispatch(i)
    BY <2>3 DEF Dispatch
  <2> QED
    BY <1>5, <2>1, <2>2, <2>3 DEF Work
<1>6. ASSUME NEW i \in Instances, Creates(i) PROVE FailedShape'
  <2>1. CASE InputRejected(i)
    BY <2>1 DEF InputRejected, ForgetDefault
  <2>2. ASSUME NEW ok \in BOOLEAN, CreateContext(i, ok) PROVE FailedShape'
    BY <2>2 DEF CreateContext, registerManagedEmnapiContext
  <2>3. CASE InstantiateOk(i)
    BY <2>3 DEF InstantiateOk
  <2>4. CASE InstantiateFails(i)
    BY <2>4 DEF InstantiateFails, prepareEnvCleanup, Cancelled
  <2>5. CASE RollbackDrained(i)
    BY <2>5 DEF RollbackDrained, RegisterRollback, registerManagedEmnapiContext
  <2>6. CASE RollbackTimesOut(i)
    BY <2>6 DEF RollbackTimesOut
  <2>7. CASE RollbackRetains(i)
    BY <2>7 DEF RollbackRetains, ForgetDefault, registerManagedEmnapiContext
  <2>8. CASE RollbackDestroys(i)
    BY <2>8 DEF RollbackDestroys, destroy, Discards, Cancelled, UnregisterCleanup, Reregister,
       prepareEnvCleanup, ForgetDefault
  <2> QED
    BY <1>6, <2>1, <2>2, <2>3, <2>4, <2>5, <2>6, <2>7, <2>8 DEF Creates
<1>7. ASSUME NEW i \in Instances, Disposes(i) PROVE FailedShape'
  <2>1. CASE DisposeDrained(i)
    BY <2>1 DEF DisposeDrained
  <2>2. CASE DisposeGivesUp(i)
    BY <2>2 DEF DisposeGivesUp
  <2>3. CASE DisposeDestroys(i)
    BY <2>3 DEF DisposeDestroys, destroy, Discards, Cancelled, UnregisterCleanup,
        Reregister, prepareEnvCleanup
  <2> QED
    BY <1>7, <2>1, <2>2, <2>3 DEF Disposes
<1>8. ASSUME NEW i \in Instances, DestroyEnds(i) PROVE FailedShape'
  <2>1. ASSUME NEW ok \in BOOLEAN, DestroySettles(i, ok) PROVE FailedShape'
    BY <2>1 DEF DestroySettles, UnregisterCleanup, Reregister, ForgetDefault
  <2> QED
    BY <1>8, <2>1 DEF DestroyEnds
<1>9. CASE DisposesDefault
  <2>1. CASE DefaultReady
    BY <2>1 DEF DefaultReady, StartInstanceDispose, MustDrain, prepareEnvCleanup, Cancelled
  <2>2. CASE DefaultRejected
    BY <2>2 DEF DefaultRejected, DefaultSettles
  <2>3. CASE DefaultDisposed
    BY <2>3 DEF DefaultDisposed, DefaultSettles
  <2>4. CASE DefaultFailed
    BY <2>4 DEF DefaultFailed, DefaultSettles
  <2> QED
    BY <1>9, <2>1, <2>2, <2>3, <2>4 DEF DisposesDefault
<1>10. CASE beforeExit
  BY <1>10 DEF beforeExit, StartBatch
<1>11. CASE BatchSettles
  BY <1>11 DEF BatchSettles
<1>12. CASE dispose
  BY <1>12 DEF dispose, disposeDefaultInstance
<1>13. CASE DisposesModule
  <2>1. CASE DrainManaged
    BY <2>1 DEF DrainManaged, StartBatch
  <2>2. CASE ModuleDisposed
    BY <2>2 DEF ModuleDisposed
  <2> QED
    BY <1>13, <2>1, <2>2 DEF DisposesModule
<1> QED
  BY <1>1, <1>2, <1>3, <1>4, <1>5, <1>6, <1>7, <1>8, <1>9, <1>10, <1>11, <1>12, <1>13 DEF Next

\* Every step keeps what it did not destroy.
LEMMA ManagedStep ==
  ASSUME TypeOK, ManagedShape, Next
  PROVE  ManagedShape'
<1> USE DEF TypeOK, ManagedShape, context, create, module, cleanup, Set
<1>1. CASE CallsDestroyers
  <2>1. ASSUME NEW i \in Instances, CallsDestroy(i) PROVE ManagedShape'
    BY <2>1 DEF CallsDestroy, destroy, Discards, Cancelled, UnregisterCleanup, Reregister,
        prepareEnvCleanup
  <2>2. ASSUME NEW i \in Instances, CallsDefault(i) PROVE ManagedShape'
    BY <2>2 DEF CallsDefault, disposeDefaultInstance
  <2> QED
    BY <1>1, <2>1, <2>2 DEF CallsDestroyers
<1>2. ASSUME NEW i \in Instances, createInstance(i) PROVE ManagedShape'
  BY <1>2 DEF createInstance
<1>3. ASSUME NEW i \in Instances, instantiate(i) PROVE ManagedShape'
  BY <1>3 DEF instantiate, DestroyDepth
<1>4. ASSUME NEW i \in Instances, disposeInstance(i) PROVE ManagedShape'
  BY <1>4 DEF disposeInstance, StartInstanceDispose, MustDrain, prepareEnvCleanup, Cancelled
<1>5. ASSUME NEW i \in Instances, Work(i) PROVE ManagedShape'
  <2>1. CASE StartWork(i)
    BY <2>1 DEF StartWork
  <2>2. CASE FinishWork(i)
    BY <2>2 DEF FinishWork
  <2>3. CASE Dispatch(i)
    BY <2>3 DEF Dispatch
  <2> QED
    BY <1>5, <2>1, <2>2, <2>3 DEF Work
<1>6. ASSUME NEW i \in Instances, Creates(i) PROVE ManagedShape'
  <2>1. CASE InputRejected(i)
    BY <2>1 DEF InputRejected, ForgetDefault
  <2>2. ASSUME NEW ok \in BOOLEAN, CreateContext(i, ok) PROVE ManagedShape'
    BY <2>2 DEF CreateContext, registerManagedEmnapiContext
  <2>3. CASE InstantiateOk(i)
    BY <2>3 DEF InstantiateOk
  <2>4. CASE InstantiateFails(i)
    BY <2>4 DEF InstantiateFails, prepareEnvCleanup, Cancelled
  <2>5. CASE RollbackDrained(i)
    BY <2>5 DEF RollbackDrained, RegisterRollback, registerManagedEmnapiContext
  <2>6. CASE RollbackTimesOut(i)
    BY <2>6 DEF RollbackTimesOut
  <2>7. CASE RollbackRetains(i)
    BY <2>7 DEF RollbackRetains, ForgetDefault, registerManagedEmnapiContext
  <2>8. CASE RollbackDestroys(i)
    BY <2>8 DEF RollbackDestroys, destroy, Discards, Cancelled, UnregisterCleanup, Reregister,
       prepareEnvCleanup, ForgetDefault
  <2> QED
    BY <1>6, <2>1, <2>2, <2>3, <2>4, <2>5, <2>6, <2>7, <2>8 DEF Creates
<1>7. ASSUME NEW i \in Instances, Disposes(i) PROVE ManagedShape'
  <2>1. CASE DisposeDrained(i)
    BY <2>1 DEF DisposeDrained
  <2>2. CASE DisposeGivesUp(i)
    BY <2>2 DEF DisposeGivesUp
  <2>3. CASE DisposeDestroys(i)
    BY <2>3 DEF DisposeDestroys, destroy, Discards, Cancelled, UnregisterCleanup,
        Reregister, prepareEnvCleanup
  <2> QED
    BY <1>7, <2>1, <2>2, <2>3 DEF Disposes
<1>8. ASSUME NEW i \in Instances, DestroyEnds(i) PROVE ManagedShape'
  <2>1. ASSUME NEW ok \in BOOLEAN, DestroySettles(i, ok) PROVE ManagedShape'
    BY <2>1 DEF DestroySettles, UnregisterCleanup, Reregister, ForgetDefault
  <2> QED
    BY <1>8, <2>1 DEF DestroyEnds
<1>9. CASE DisposesDefault
  <2>1. CASE DefaultReady
    BY <2>1 DEF DefaultReady, StartInstanceDispose, MustDrain, prepareEnvCleanup, Cancelled
  <2>2. CASE DefaultRejected
    BY <2>2 DEF DefaultRejected, DefaultSettles
  <2>3. CASE DefaultDisposed
    BY <2>3 DEF DefaultDisposed, DefaultSettles
  <2>4. CASE DefaultFailed
    BY <2>4 DEF DefaultFailed, DefaultSettles
  <2> QED
    BY <1>9, <2>1, <2>2, <2>3, <2>4 DEF DisposesDefault
<1>10. CASE beforeExit
  BY <1>10 DEF beforeExit, StartBatch
<1>11. CASE BatchSettles
  BY <1>11 DEF BatchSettles
<1>12. CASE dispose
  BY <1>12 DEF dispose, disposeDefaultInstance
<1>13. CASE DisposesModule
  <2>1. CASE DrainManaged
    BY <2>1 DEF DrainManaged, StartBatch
  <2>2. CASE ModuleDisposed
    BY <2>2 DEF ModuleDisposed
  <2> QED
    BY <1>13, <2>1, <2>2 DEF DisposesModule
<1> QED
  BY <1>1, <1>2, <1>3, <1>4, <1>5, <1>6, <1>7, <1>8, <1>9, <1>10, <1>11, <1>12, <1>13 DEF Next

\* Every step knows the singleton.
LEMMA DefaultStep ==
  ASSUME TypeOK, ManagedShape, DefaultShape, Next
  PROVE  DefaultShape'
<1> USE DeferredAssumption DEF TypeOK, DefaultShape, context, create, module, cleanup, Set
<1>1. CASE CallsDestroyers
  <2>1. ASSUME NEW i \in Instances, CallsDestroy(i) PROVE DefaultShape'
    BY <2>1 DEF CallsDestroy, destroy, Discards, Cancelled, UnregisterCleanup, Reregister,
        prepareEnvCleanup
  <2>2. ASSUME NEW i \in Instances, CallsDefault(i) PROVE DefaultShape'
    BY <2>2 DEF CallsDefault, disposeDefaultInstance
  <2> QED
    BY <1>1, <2>1, <2>2 DEF CallsDestroyers
<1>2. ASSUME NEW i \in Instances, createInstance(i) PROVE DefaultShape'
  BY <1>2 DEF createInstance
<1>3. ASSUME NEW i \in Instances, instantiate(i) PROVE DefaultShape'
  BY <1>3 DEF instantiate, DestroyDepth
<1>4. ASSUME NEW i \in Instances, disposeInstance(i) PROVE DefaultShape'
  BY <1>4 DEF disposeInstance, StartInstanceDispose, MustDrain, prepareEnvCleanup, Cancelled
<1>5. ASSUME NEW i \in Instances, Work(i) PROVE DefaultShape'
  <2>1. CASE StartWork(i)
    BY <2>1 DEF StartWork
  <2>2. CASE FinishWork(i)
    BY <2>2 DEF FinishWork
  <2>3. CASE Dispatch(i)
    BY <2>3 DEF Dispatch
  <2> QED
    BY <1>5, <2>1, <2>2, <2>3 DEF Work
<1>6. ASSUME NEW i \in Instances, Creates(i) PROVE DefaultShape'
  <2>1. CASE InputRejected(i)
    BY <2>1 DEF InputRejected, ForgetDefault
  <2>2. ASSUME NEW ok \in BOOLEAN, CreateContext(i, ok) PROVE DefaultShape'
    BY <2>2 DEF CreateContext, registerManagedEmnapiContext, ManagedShape
  <2>3. CASE InstantiateOk(i)
    BY <2>3 DEF InstantiateOk
  <2>4. CASE InstantiateFails(i)
    BY <2>4 DEF InstantiateFails, prepareEnvCleanup, Cancelled
  <2>5. CASE RollbackDrained(i)
    BY <2>5 DEF RollbackDrained, RegisterRollback, registerManagedEmnapiContext
  <2>6. CASE RollbackTimesOut(i)
    BY <2>6 DEF RollbackTimesOut
  <2>7. CASE RollbackRetains(i)
    BY <2>7 DEF RollbackRetains, ForgetDefault, registerManagedEmnapiContext
  <2>8. CASE RollbackDestroys(i)
    BY <2>8 DEF RollbackDestroys, destroy, Discards, Cancelled, UnregisterCleanup, Reregister,
       prepareEnvCleanup, ForgetDefault
  <2> QED
    BY <1>6, <2>1, <2>2, <2>3, <2>4, <2>5, <2>6, <2>7, <2>8 DEF Creates
<1>7. ASSUME NEW i \in Instances, Disposes(i) PROVE DefaultShape'
  <2>1. CASE DisposeDrained(i)
    BY <2>1 DEF DisposeDrained
  <2>2. CASE DisposeGivesUp(i)
    BY <2>2 DEF DisposeGivesUp
  <2>3. CASE DisposeDestroys(i)
    BY <2>3 DEF DisposeDestroys, destroy, Discards, Cancelled, UnregisterCleanup,
        Reregister, prepareEnvCleanup
  <2> QED
    BY <1>7, <2>1, <2>2, <2>3 DEF Disposes
<1>8. ASSUME NEW i \in Instances, DestroyEnds(i) PROVE DefaultShape'
  <2>1. ASSUME NEW ok \in BOOLEAN, DestroySettles(i, ok) PROVE DefaultShape'
    BY <2>1 DEF DestroySettles, UnregisterCleanup, Reregister, ForgetDefault
  <2> QED
    BY <1>8, <2>1 DEF DestroyEnds
<1>9. CASE DisposesDefault
  <2>1. CASE DefaultReady
    BY <2>1 DEF DefaultReady, StartInstanceDispose, MustDrain, prepareEnvCleanup, Cancelled
  <2>2. CASE DefaultRejected
    BY <2>2 DEF DefaultRejected, DefaultSettles
  <2>3. CASE DefaultDisposed
    BY <2>3 DEF DefaultDisposed, DefaultSettles
  <2>4. CASE DefaultFailed
    BY <2>4 DEF DefaultFailed, DefaultSettles
  <2> QED
    BY <1>9, <2>1, <2>2, <2>3, <2>4 DEF DisposesDefault
<1>10. CASE beforeExit
  BY <1>10 DEF beforeExit, StartBatch
<1>11. CASE BatchSettles
  BY <1>11 DEF BatchSettles
<1>12. CASE dispose
  BY <1>12 DEF dispose, disposeDefaultInstance
<1>13. CASE DisposesModule
  <2>1. CASE DrainManaged
    BY <2>1 DEF DrainManaged, StartBatch
  <2>2. CASE ModuleDisposed
    BY <2>2 DEF ModuleDisposed
  <2> QED
    BY <1>13, <2>1, <2>2 DEF DisposesModule
<1> QED
  BY <1>1, <1>2, <1>3, <1>4, <1>5, <1>6, <1>7, <1>8, <1>9, <1>10, <1>11, <1>12, <1>13 DEF Next

\* No path that can yield discards a settlement.
LEMMA StrandStep ==
  ASSUME TypeOK, DrainShape, FailedShape, YieldingPathsStrandNothing, Next
  PROVE  YieldingPathsStrandNothing'
<1> USE DEF TypeOK, DrainShape, FailedShape, YieldingPathsStrandNothing, Unsettled, context, create, module,
       cleanup, Set
<1>1. CASE CallsDestroyers
  <2>1. ASSUME NEW i \in Instances, CallsDestroy(i) PROVE YieldingPathsStrandNothing'
    BY <2>1 DEF CallsDestroy, destroy, Discards, Cancelled, UnregisterCleanup, Reregister,
        prepareEnvCleanup
  <2>2. ASSUME NEW i \in Instances, CallsDefault(i) PROVE YieldingPathsStrandNothing'
    BY <2>2 DEF CallsDefault, disposeDefaultInstance
  <2> QED
    BY <1>1, <2>1, <2>2 DEF CallsDestroyers
<1>2. ASSUME NEW i \in Instances, createInstance(i) PROVE YieldingPathsStrandNothing'
  BY <1>2 DEF createInstance
<1>3. ASSUME NEW i \in Instances, instantiate(i) PROVE YieldingPathsStrandNothing'
  BY <1>3 DEF instantiate, DestroyDepth
<1>4. ASSUME NEW i \in Instances, disposeInstance(i) PROVE YieldingPathsStrandNothing'
  BY <1>4 DEF disposeInstance, StartInstanceDispose, MustDrain, prepareEnvCleanup, Cancelled
<1>5. ASSUME NEW i \in Instances, Work(i) PROVE YieldingPathsStrandNothing'
  <2>1. CASE StartWork(i)
    BY <2>1 DEF StartWork
  <2>2. CASE FinishWork(i)
    BY <2>2 DEF FinishWork
  <2>3. CASE Dispatch(i)
    BY <2>3 DEF Dispatch
  <2> QED
    BY <1>5, <2>1, <2>2, <2>3 DEF Work
<1>6. ASSUME NEW i \in Instances, Creates(i) PROVE YieldingPathsStrandNothing'
  <2>1. CASE InputRejected(i)
    BY <2>1 DEF InputRejected, ForgetDefault
  <2>2. ASSUME NEW ok \in BOOLEAN, CreateContext(i, ok) PROVE YieldingPathsStrandNothing'
    BY <2>2 DEF CreateContext, registerManagedEmnapiContext
  <2>3. CASE InstantiateOk(i)
    BY <2>3 DEF InstantiateOk
  <2>4. CASE InstantiateFails(i)
    BY <2>4 DEF InstantiateFails, prepareEnvCleanup, Cancelled
  <2>5. CASE RollbackDrained(i)
    BY <2>5 DEF RollbackDrained, RegisterRollback, registerManagedEmnapiContext
  <2>6. CASE RollbackTimesOut(i)
    BY <2>6 DEF RollbackTimesOut
  <2>7. CASE RollbackRetains(i)
    BY <2>7 DEF RollbackRetains, ForgetDefault, registerManagedEmnapiContext
  <2>8. CASE RollbackDestroys(i)
    BY <2>8 DEF RollbackDestroys, destroy, Discards, Cancelled, UnregisterCleanup, Reregister,
       prepareEnvCleanup, ForgetDefault
  <2> QED
    BY <1>6, <2>1, <2>2, <2>3, <2>4, <2>5, <2>6, <2>7, <2>8 DEF Creates
<1>7. ASSUME NEW i \in Instances, Disposes(i) PROVE YieldingPathsStrandNothing'
  <2>1. CASE DisposeDrained(i)
    BY <2>1 DEF DisposeDrained
  <2>2. CASE DisposeGivesUp(i)
    BY <2>2 DEF DisposeGivesUp
  <2>3. CASE DisposeDestroys(i)
    BY <2>3 DEF DisposeDestroys, destroy, Discards, Cancelled, UnregisterCleanup,
        Reregister, prepareEnvCleanup
  <2> QED
    BY <1>7, <2>1, <2>2, <2>3 DEF Disposes
<1>8. ASSUME NEW i \in Instances, DestroyEnds(i) PROVE YieldingPathsStrandNothing'
  <2>1. ASSUME NEW ok \in BOOLEAN, DestroySettles(i, ok) PROVE YieldingPathsStrandNothing'
    BY <2>1 DEF DestroySettles, UnregisterCleanup, Reregister, ForgetDefault
  <2> QED
    BY <1>8, <2>1 DEF DestroyEnds
<1>9. CASE DisposesDefault
  <2>1. CASE DefaultReady
    BY <2>1 DEF DefaultReady, StartInstanceDispose, MustDrain, prepareEnvCleanup, Cancelled
  <2>2. CASE DefaultRejected
    BY <2>2 DEF DefaultRejected, DefaultSettles
  <2>3. CASE DefaultDisposed
    BY <2>3 DEF DefaultDisposed, DefaultSettles
  <2>4. CASE DefaultFailed
    BY <2>4 DEF DefaultFailed, DefaultSettles
  <2> QED
    BY <1>9, <2>1, <2>2, <2>3, <2>4 DEF DisposesDefault
<1>10. CASE beforeExit
  BY <1>10 DEF beforeExit, StartBatch
<1>11. CASE BatchSettles
  BY <1>11 DEF BatchSettles
<1>12. CASE dispose
  BY <1>12 DEF dispose, disposeDefaultInstance
<1>13. CASE DisposesModule
  <2>1. CASE DrainManaged
    BY <2>1 DEF DrainManaged, StartBatch
  <2>2. CASE ModuleDisposed
    BY <2>2 DEF ModuleDisposed
  <2> QED
    BY <1>13, <2>1, <2>2 DEF DisposesModule
<1> QED
  BY <1>1, <1>2, <1>3, <1>4, <1>5, <1>6, <1>7, <1>8, <1>9, <1>10, <1>11, <1>12, <1>13 DEF Next

\* What a failed creation kept stays managed.
LEMMA RetainedStep ==
  ASSUME TypeOK, ManagedShape, RetainedIsManaged, Next
  PROVE  RetainedIsManaged'
<1> USE DEF TypeOK, ManagedShape, RetainedIsManaged, context, create, module, cleanup, Set
<1>1. CASE CallsDestroyers
  <2>1. ASSUME NEW i \in Instances, CallsDestroy(i) PROVE RetainedIsManaged'
    BY <2>1 DEF CallsDestroy, destroy, Discards, Cancelled, UnregisterCleanup, Reregister,
        prepareEnvCleanup
  <2>2. ASSUME NEW i \in Instances, CallsDefault(i) PROVE RetainedIsManaged'
    BY <2>2 DEF CallsDefault, disposeDefaultInstance
  <2> QED
    BY <1>1, <2>1, <2>2 DEF CallsDestroyers
<1>2. ASSUME NEW i \in Instances, createInstance(i) PROVE RetainedIsManaged'
  BY <1>2 DEF createInstance
<1>3. ASSUME NEW i \in Instances, instantiate(i) PROVE RetainedIsManaged'
  BY <1>3 DEF instantiate, DestroyDepth
<1>4. ASSUME NEW i \in Instances, disposeInstance(i) PROVE RetainedIsManaged'
  BY <1>4 DEF disposeInstance, StartInstanceDispose, MustDrain, prepareEnvCleanup, Cancelled
<1>5. ASSUME NEW i \in Instances, Work(i) PROVE RetainedIsManaged'
  <2>1. CASE StartWork(i)
    BY <2>1 DEF StartWork
  <2>2. CASE FinishWork(i)
    BY <2>2 DEF FinishWork
  <2>3. CASE Dispatch(i)
    BY <2>3 DEF Dispatch
  <2> QED
    BY <1>5, <2>1, <2>2, <2>3 DEF Work
<1>6. ASSUME NEW i \in Instances, Creates(i) PROVE RetainedIsManaged'
  <2>1. CASE InputRejected(i)
    BY <2>1 DEF InputRejected, ForgetDefault
  <2>2. ASSUME NEW ok \in BOOLEAN, CreateContext(i, ok) PROVE RetainedIsManaged'
    BY <2>2 DEF CreateContext, registerManagedEmnapiContext
  <2>3. CASE InstantiateOk(i)
    BY <2>3 DEF InstantiateOk
  <2>4. CASE InstantiateFails(i)
    BY <2>4 DEF InstantiateFails, prepareEnvCleanup, Cancelled
  <2>5. CASE RollbackDrained(i)
    BY <2>5 DEF RollbackDrained, RegisterRollback, registerManagedEmnapiContext
  <2>6. CASE RollbackTimesOut(i)
    BY <2>6 DEF RollbackTimesOut
  <2>7. CASE RollbackRetains(i)
    BY <2>7 DEF RollbackRetains, ForgetDefault, registerManagedEmnapiContext
  <2>8. CASE RollbackDestroys(i)
    BY <2>8 DEF RollbackDestroys, destroy, Discards, Cancelled, UnregisterCleanup, Reregister,
       prepareEnvCleanup, ForgetDefault
  <2> QED
    BY <1>6, <2>1, <2>2, <2>3, <2>4, <2>5, <2>6, <2>7, <2>8 DEF Creates
<1>7. ASSUME NEW i \in Instances, Disposes(i) PROVE RetainedIsManaged'
  <2>1. CASE DisposeDrained(i)
    BY <2>1 DEF DisposeDrained
  <2>2. CASE DisposeGivesUp(i)
    BY <2>2 DEF DisposeGivesUp
  <2>3. CASE DisposeDestroys(i)
    BY <2>3 DEF DisposeDestroys, destroy, Discards, Cancelled, UnregisterCleanup,
        Reregister, prepareEnvCleanup
  <2> QED
    BY <1>7, <2>1, <2>2, <2>3 DEF Disposes
<1>8. ASSUME NEW i \in Instances, DestroyEnds(i) PROVE RetainedIsManaged'
  <2>1. ASSUME NEW ok \in BOOLEAN, DestroySettles(i, ok) PROVE RetainedIsManaged'
    BY <2>1 DEF DestroySettles, UnregisterCleanup, Reregister, ForgetDefault
  <2> QED
    BY <1>8, <2>1 DEF DestroyEnds
<1>9. CASE DisposesDefault
  <2>1. CASE DefaultReady
    BY <2>1 DEF DefaultReady, StartInstanceDispose, MustDrain, prepareEnvCleanup, Cancelled
  <2>2. CASE DefaultRejected
    BY <2>2 DEF DefaultRejected, DefaultSettles
  <2>3. CASE DefaultDisposed
    BY <2>3 DEF DefaultDisposed, DefaultSettles
  <2>4. CASE DefaultFailed
    BY <2>4 DEF DefaultFailed, DefaultSettles
  <2> QED
    BY <1>9, <2>1, <2>2, <2>3, <2>4 DEF DisposesDefault
<1>10. CASE beforeExit
  BY <1>10 DEF beforeExit, StartBatch
<1>11. CASE BatchSettles
  BY <1>11 DEF BatchSettles
<1>12. CASE dispose
  BY <1>12 DEF dispose, disposeDefaultInstance
<1>13. CASE DisposesModule
  <2>1. CASE DrainManaged
    BY <2>1 DEF DrainManaged, StartBatch
  <2>2. CASE ModuleDisposed
    BY <2>2 DEF ModuleDisposed
  <2> QED
    BY <1>13, <2>1, <2>2 DEF DisposesModule
<1> QED
  BY <1>1, <1>2, <1>3, <1>4, <1>5, <1>6, <1>7, <1>8, <1>9, <1>10, <1>11, <1>12, <1>13 DEF Next

\* The module starts in a state that satisfies the invariant.
LEMMA InitHolds ==
  ASSUME Init
  PROVE  IInv
<1> USE DeferredAssumption DEF Init
<1>1. CreationOK /\ ContextOK /\ BlockingOK
  BY DEF CreationOK, ContextOK, BlockingOK
<1>2. SetsOK
  BY DEF SetsOK
<1>3. ModuleOK
  <2>1. exits \in 0..MaxExits
    OBVIOUS
  <2>2. default = None /\ ddispose = None /\ mdispose = "none"
    OBVIOUS
  <2>3. listener \in BOOLEAN /\ started \in BOOLEAN /\ byExit \in BOOLEAN
    OBVIOUS
  <2> QED
    BY <2>1, <2>2, <2>3 DEF ModuleOK
<1>4. TypeOK
  BY <1>1, <1>2, <1>3 DEF TypeOK, CreationOK, ContextOK, BlockingOK, SetsOK, ModuleOK
<1>5. DrainShape /\ FailedShape /\ ManagedShape
  BY DEF DrainShape, Unsettled, FailedShape, ManagedShape
<1>6. DefaultShape
  BY DEF DefaultShape
<1>7. YieldingPathsStrandNothing /\ RetainedIsManaged
  BY DEF YieldingPathsStrandNothing, RetainedIsManaged
<1> QED
  BY <1>4, <1>5, <1>6, <1>7 DEF IInv

\* The parts of the type invariant are the type invariant.
LEMMA TypeParts == TypeOK <=> CreationOK /\ ContextOK /\ BlockingOK /\ SetsOK /\ ModuleOK
BY DEF TypeOK, CreationOK, ContextOK, BlockingOK, SetsOK, ModuleOK

\* The invariant is inductive.
LEMMA IInvStep ==
  ASSUME IInv, [Next]_vars
  PROVE  IInv'
<1>1. CASE Next
  <2>1. CreationOK /\ ContextOK /\ BlockingOK /\ SetsOK /\ ModuleOK
    BY TypeParts DEF IInv
  <2>2. CreationOK' /\ ContextOK' /\ BlockingOK' /\ SetsOK' /\ ModuleOK'
    BY <1>1, <2>1, CreationStep, ContextStep, BlockingStep, SetsStep, ModuleStep DEF IInv
  <2>3. TypeOK'
    BY <2>2 DEF TypeOK, CreationOK, ContextOK, BlockingOK, SetsOK, ModuleOK
  <2>4. DrainShape' /\ FailedShape' /\ ManagedShape' /\ DefaultShape'
    BY <1>1, DrainStep, FailedStep, ManagedStep, DefaultStep DEF IInv
  <2>5. YieldingPathsStrandNothing' /\ RetainedIsManaged'
    BY <1>1, StrandStep, RetainedStep DEF IInv
  <2> QED
    BY <2>3, <2>4, <2>5 DEF IInv
<1>2. CASE UNCHANGED vars
  <2> USE <1>2 DEF vars, IInv
  <2>1. TypeOK'
    BY DEF TypeOK
  <2>2. DrainShape' /\ FailedShape' /\ ManagedShape'
    BY DEF DrainShape, Unsettled, FailedShape, ManagedShape
  <2>3. DefaultShape'
    BY DEF DefaultShape
  <2>4. YieldingPathsStrandNothing' /\ RetainedIsManaged'
    BY DEF YieldingPathsStrandNothing, RetainedIsManaged
  <2> QED
    BY <2>1, <2>2, <2>3, <2>4
<1> QED
  BY <1>1, <1>2

\* The invariant holds in every reachable state.
THEOREM Inductive == Spec => []IInv
<1>1. Init => IInv
  BY InitHolds
<1>2. IInv /\ [Next]_vars => IInv'
  BY IInvStep
<1> QED
  BY <1>1, <1>2, PTL DEF Spec

\* Every variable of the loader keeps its type, and only a Context.destroy()
\* under way counts in __moduleLifecycleDestroyDepth.
THEOREM TypeCorrect == Spec => []TypeOK
<1>1. IInv => TypeOK
  BY DEF IInv
<1> QED
  BY <1>1, Inductive, PTL

\* Neither dispose() of an instance nor the rollback of its creation destroys a
\* context over a queued settlement, however many instances there are.
THEOREM NothingDiscarded == Spec => []YieldingPathsStrandNothing
<1>1. IInv => YieldingPathsStrandNothing
  BY DEF IInv
<1> QED
  BY <1>1, Inductive, PTL

\* A context whose creation failed is destroyed or managed, and the managed set
\* has a beforeExit listener or a batch that will run it.
THEOREM FailedIsKept == Spec => []RetainedIsManaged
<1>1. IInv => RetainedIsManaged
  BY DEF IInv
<1> QED
  BY <1>1, Inductive, PTL

\* instantiate() never leaves two usable singletons, whatever disposals failed.
THEOREM SingletonIsOne == Spec => []OneSingleton
<1>1. IInv => OneSingleton
  BY DEF IInv, DefaultShape, OneSingleton
<1> QED
  BY <1>1, Inductive, PTL

\* Whoever waits waits for something that is under way, and never in a circle: the
\* module disposal for the default instance's or for a batch, a destroyer of the
\* batch for the default instance's disposal or for its own destroy(), and that
\* disposal, like a rollback, for a destroy() that it started itself.
WaitsAreServed ==
  /\ mdispose = "default" => ddispose # None
  /\ mdispose = "await" => batch # {}
  /\ default # None => pc[default] # "unused"
  /\ ddispose # None => pc[ddispose] # "unused"
  /\ \A i \in Instances :
       /\ i \in batch <=> bp[i] # "idle"
       /\ bp[i] = "default" => ddispose # None
       /\ bp[i] = "wait" <=> waiter[i] = "batch"
       /\ dp[i] = "wait" <=> waiter[i] = "dispose"
       /\ pc[i] = "rwait" <=> waiter[i] = "rollback"
       /\ ctx[i] = "destroying" <=> waiter[i] # "none"

\* Every step keeps the waits served.
LEMMA WaitStep ==
  ASSUME TypeOK, ManagedShape, WaitsAreServed, Next
  PROVE  WaitsAreServed'
<1> USE DeferredAssumption DEF TypeOK, WaitsAreServed, context, create, module, cleanup, Set
<1>1. CASE CallsDestroyers
  <2>1. ASSUME NEW i \in Instances, CallsDestroy(i) PROVE WaitsAreServed'
    BY <2>1 DEF CallsDestroy, destroy, Discards, Cancelled, UnregisterCleanup, Reregister,
        prepareEnvCleanup
  <2>2. ASSUME NEW i \in Instances, CallsDefault(i) PROVE WaitsAreServed'
    BY <2>2 DEF CallsDefault, disposeDefaultInstance
  <2> QED
    BY <1>1, <2>1, <2>2 DEF CallsDestroyers
<1>2. ASSUME NEW i \in Instances, createInstance(i) PROVE WaitsAreServed'
  BY <1>2 DEF createInstance
<1>3. ASSUME NEW i \in Instances, instantiate(i) PROVE WaitsAreServed'
  BY <1>3 DEF instantiate, DestroyDepth
<1>4. ASSUME NEW i \in Instances, disposeInstance(i) PROVE WaitsAreServed'
  BY <1>4 DEF disposeInstance, StartInstanceDispose, MustDrain, prepareEnvCleanup, Cancelled
<1>5. ASSUME NEW i \in Instances, Work(i) PROVE WaitsAreServed'
  <2>1. CASE StartWork(i)
    BY <2>1 DEF StartWork
  <2>2. CASE FinishWork(i)
    BY <2>2 DEF FinishWork
  <2>3. CASE Dispatch(i)
    BY <2>3 DEF Dispatch
  <2> QED
    BY <1>5, <2>1, <2>2, <2>3 DEF Work
<1>6. ASSUME NEW i \in Instances, Creates(i) PROVE WaitsAreServed'
  <2>1. CASE InputRejected(i)
    BY <2>1 DEF InputRejected, ForgetDefault
  <2>2. ASSUME NEW ok \in BOOLEAN, CreateContext(i, ok) PROVE WaitsAreServed'
    BY <2>2 DEF CreateContext, registerManagedEmnapiContext, ManagedShape
  <2>3. CASE InstantiateOk(i)
    BY <2>3 DEF InstantiateOk
  <2>4. CASE InstantiateFails(i)
    BY <2>4 DEF InstantiateFails, prepareEnvCleanup, Cancelled
  <2>5. CASE RollbackDrained(i)
    BY <2>5 DEF RollbackDrained, RegisterRollback, registerManagedEmnapiContext
  <2>6. CASE RollbackTimesOut(i)
    BY <2>6 DEF RollbackTimesOut
  <2>7. CASE RollbackRetains(i)
    BY <2>7 DEF RollbackRetains, ForgetDefault, registerManagedEmnapiContext
  <2>8. CASE RollbackDestroys(i)
    BY <2>8 DEF RollbackDestroys, destroy, Discards, Cancelled, UnregisterCleanup, Reregister,
       prepareEnvCleanup, ForgetDefault
  <2> QED
    BY <1>6, <2>1, <2>2, <2>3, <2>4, <2>5, <2>6, <2>7, <2>8 DEF Creates
<1>7. ASSUME NEW i \in Instances, Disposes(i) PROVE WaitsAreServed'
  <2>1. CASE DisposeDrained(i)
    BY <2>1 DEF DisposeDrained
  <2>2. CASE DisposeGivesUp(i)
    BY <2>2 DEF DisposeGivesUp
  <2>3. CASE DisposeDestroys(i)
    BY <2>3 DEF DisposeDestroys, destroy, Discards, Cancelled, UnregisterCleanup,
        Reregister, prepareEnvCleanup
  <2> QED
    BY <1>7, <2>1, <2>2, <2>3 DEF Disposes
<1>8. ASSUME NEW i \in Instances, DestroyEnds(i) PROVE WaitsAreServed'
  <2>1. ASSUME NEW ok \in BOOLEAN, DestroySettles(i, ok) PROVE WaitsAreServed'
    BY <2>1 DEF DestroySettles, UnregisterCleanup, Reregister, ForgetDefault
  <2> QED
    BY <1>8, <2>1 DEF DestroyEnds
<1>9. CASE DisposesDefault
  <2>1. CASE DefaultReady
    BY <2>1 DEF DefaultReady, StartInstanceDispose, MustDrain, prepareEnvCleanup, Cancelled
  <2>2. CASE DefaultRejected
    BY <2>2 DEF DefaultRejected, DefaultSettles
  <2>3. CASE DefaultDisposed
    BY <2>3 DEF DefaultDisposed, DefaultSettles
  <2>4. CASE DefaultFailed
    BY <2>4 DEF DefaultFailed, DefaultSettles
  <2> QED
    BY <1>9, <2>1, <2>2, <2>3, <2>4 DEF DisposesDefault
<1>10. CASE beforeExit
  BY <1>10 DEF beforeExit, StartBatch
<1>11. CASE BatchSettles
  BY <1>11 DEF BatchSettles, BatchDone
<1>12. CASE dispose
  BY <1>12 DEF dispose, disposeDefaultInstance
<1>13. CASE DisposesModule
  <2>1. CASE DrainManaged
    BY <2>1 DEF DrainManaged, StartBatch
  <2>2. CASE ModuleDisposed
    BY <2>2 DEF ModuleDisposed
  <2> QED
    BY <1>13, <2>1, <2>2 DEF DisposesModule
<1> QED
  BY <1>1, <1>2, <1>3, <1>4, <1>5, <1>6, <1>7, <1>8, <1>9, <1>10, <1>11, <1>12, <1>13 DEF Next

\* Nobody waits for what is not under way: the safety half of DisposeSettles.
THEOREM NobodyWaitsInVain == Spec => []WaitsAreServed
<1>1. Init => WaitsAreServed
  BY DEF Init, WaitsAreServed
<1>2. IInv /\ WaitsAreServed /\ [Next]_vars => WaitsAreServed'
  <2>1. TypeOK /\ WaitsAreServed /\ UNCHANGED vars => WaitsAreServed'
    BY DEF WaitsAreServed, vars
  <2> QED
    BY <2>1, WaitStep DEF IInv
<1> QED
  BY <1>1, <1>2, Inductive, PTL DEF Spec

=============================================================================
