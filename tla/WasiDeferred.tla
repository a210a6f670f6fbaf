---------------------------- MODULE WasiDeferred ----------------------------
(* The deferred, workerd-safe WASI loader: the singleton of instantiate(),   *)
(* independent instances of createInstance(), instance and module disposal,  *)
(* the set of managed context destroyers that beforeExit and dispose() run,  *)
(* and the rollback of a failed initialization.                              *)
(*                                                                           *)
(* One JavaScript thread; an action is the code between two awaits.  The     *)
(* module exports the cleanup barrier and its counter; the bounded drain is  *)
(* one await that ends when the queue is empty or gives up (WasiBinding      *)
(* counts its turns).  Code outside src/: emnapi's Context, its dispatch of  *)
(* settlements, and the promises an addon creates.                           *)
EXTENDS Naturals, FiniteSets

CONSTANTS Instances,   \* calls of __createInstance
          MaxExits,    \* times the beforeExit listener runs (bound)
          None

ASSUME DeferredAssumption == None \notin Instances /\ MaxExits \in Nat

VARIABLES
  kind,     \* "single" (instantiate) or "indep" (createInstance)
  pc,       \* the creation: "unused", "module", "instantiate", "ready",
            \* "rdrain", "unreached", "rdestroy", "rwait" (rollback), "rejected"
  failed,   \* __lifecycleState = "failed"
  ctx,      \* "none", "alive", "destroying" (destroy() is async), "disposed"
  blocking, \* destroys under way that count in __moduleLifecycleDestroyDepth
  waiter,   \* who awaits an async destroy: "rollback", "dispose", "batch"
  promise,  \* the settlement of the instance's work
  prepared, \* __wasmEnvCleanupPrepared
  dp,       \* instance.dispose(): "idle", "drain", "destroy", "wait", "ok", "error"
  managed,  \* __managedEmnapiContextDestroyers
  listener, \* the beforeExit listener is registered
  default,  \* the instance of __defaultInstancePromise
  started,  \* __defaultDisposalStarted
  ddispose, \* the instance __defaultDisposePromise disposes
  batch,    \* __managedDestroyersInFlight
  bp,       \* one destroyer of the batch: "idle", "call", "default", "retry",
            \* "wait", "done"
  exits,    \* times the listener ran
  byExit,   \* the batch was started by the beforeExit listener
  mdispose, \* __moduleDisposePromise: "none", "default", "managed", "await"
  attempted,\* __attemptedDestroyers of the module disposal
  strander  \* who ran the Context.destroy() that discarded a settlement

create  == <<kind, pc, failed>>
context == <<ctx, blocking, waiter, promise, prepared, strander>>
module  == <<default, started, ddispose, mdispose, attempted>>
cleanup == <<managed, listener, batch, bp, byExit, exits>>
vars == <<kind, pc, failed, ctx, blocking, waiter, promise, prepared, strander, dp,
          managed, listener, batch, bp, byExit, exits, default, started, ddispose,
          mdispose, attempted>>

TypeOK ==
  /\ kind \in [Instances -> {"single", "indep"}]
  /\ pc \in [Instances -> {"unused", "module", "instantiate", "ready", "rdrain",
                           "unreached", "rdestroy", "rwait", "rejected"}]
  /\ failed \subseteq Instances
  /\ ctx \in [Instances -> {"none", "alive", "destroying", "disposed"}]
  /\ blocking \subseteq {i \in Instances : ctx[i] = "destroying"}
  /\ waiter \in [Instances -> {"none", "rollback", "dispose", "batch"}]
  /\ promise \in [Instances -> {"none", "running", "queued", "settled", "stranded"}]
  /\ prepared \subseteq Instances
  /\ dp \in [Instances -> {"idle", "drain", "destroy", "wait", "ok", "error"}]
  /\ managed \subseteq Instances /\ batch \subseteq Instances
  /\ listener \in BOOLEAN
  /\ bp \in [Instances -> {"idle", "call", "default", "retry", "wait", "done"}]
  /\ default \in Instances \cup {None} /\ ddispose \in Instances \cup {None}
  /\ started \in BOOLEAN /\ byExit \in BOOLEAN /\ exits \in 0..MaxExits
  /\ mdispose \in {"none", "default", "managed", "await"}
  /\ attempted \subseteq Instances
  /\ strander \in [Instances -> {"none", "rollback", "dispose", "exit", "retry"}]

Init ==
  /\ kind \in [Instances -> {"single", "indep"}]
  /\ pc = [i \in Instances |-> "unused"] /\ failed = {}
  /\ ctx = [i \in Instances |-> "none"] /\ blocking = {}
  /\ waiter = [i \in Instances |-> "none"]
  /\ promise = [i \in Instances |-> "none"] /\ prepared = {}
  /\ strander = [i \in Instances |-> "none"]
  /\ dp = [i \in Instances |-> "idle"]
  /\ managed = {} /\ listener = FALSE /\ batch = {}
  /\ bp = [i \in Instances |-> "idle"]
  /\ default = None /\ started = FALSE /\ ddispose = None
  /\ mdispose = "none" /\ attempted = {} /\ byExit = FALSE /\ exits = 0

DestroyDepth == blocking # {}     \* __moduleLifecycleDestroyDepth # 0
Set(f, i, v) == [f EXCEPT ![i] = v]

-----------------------------------------------------------------------------
(* The addon and emnapi.                                                     *)

StartWork(i) ==
  /\ pc[i] \in {"instantiate", "ready"} /\ ctx[i] = "alive"
  /\ i \notin prepared /\ promise[i] = "none"
  /\ promise' = Set(promise, i, "running")
  /\ UNCHANGED <<create, ctx, blocking, waiter, prepared, strander, dp, cleanup, module>>

FinishWork(i) ==
  /\ promise[i] = "running" /\ promise' = Set(promise, i, "queued")
  /\ UNCHANGED <<create, ctx, blocking, waiter, prepared, strander, dp, cleanup, module>>

Dispatch(i) ==
  /\ promise[i] = "queued" /\ ctx[i] = "alive" /\ promise' = Set(promise, i, "settled")
  /\ UNCHANGED <<create, ctx, blocking, waiter, prepared, strander, dp, cleanup, module>>

-----------------------------------------------------------------------------
(* The barrier and the destroyer of one context.                             *)

\* __prepareEnvCleanup, once: unfinished work is cancelled and its settlement
\* queued.
Cancelled(i) == IF i \notin prepared /\ promise[i] = "running" THEN "queued" ELSE promise[i]

prepareEnvCleanup(i) ==
  prepared' = prepared \cup {i} /\ promise' = Set(promise, i, Cancelled(i))

\* __prepareForDisposal has something to wait for once the barrier ran.
MustDrain(i) == Cancelled(i) = "queued"

\* Context.destroy() runs the cleanup hooks: what is still queued is discarded.
Discards(i, who) ==
  /\ prepared' = prepared \cup {i}
  /\ promise' = Set(promise, i, IF Cancelled(i) = "queued" THEN "stranded" ELSE promise[i])
  /\ strander' = IF Cancelled(i) = "queued" THEN Set(strander, i, who) ELSE strander

UnregisterCleanup(i) ==
  /\ managed' = managed \ {i}
  /\ listener' = (listener /\ managed' # {})

\* A failed rollback registers the listener again.
Reregister(isRollback) ==
  /\ managed' = managed
  /\ listener' = (listener \/ (isRollback /\ managed # {}))

\* __destroy called by `who`, on behalf of `w` of the waiters.
destroy(i, w, who, blocks, outcome) ==
  \/ /\ ctx[i] = "disposed" /\ outcome = "ok"
     /\ UNCHANGED <<context, managed, listener>>
  \/ \* ERR_NAPI_WASI_LIFECYCLE_REENTRY
     /\ ctx[i] = "destroying" /\ outcome = "error"
     /\ UNCHANGED context /\ Reregister(w = "rollback")
  \/ /\ ctx[i] = "alive" /\ outcome = "ok"
     /\ Discards(i, who) /\ ctx' = Set(ctx, i, "disposed")
     /\ UnregisterCleanup(i)
     /\ UNCHANGED <<blocking, waiter>>
  \/ /\ ctx[i] = "alive" /\ outcome = "wait"
     /\ Discards(i, who) /\ ctx' = Set(ctx, i, "destroying")
     /\ waiter' = Set(waiter, i, w)
     /\ blocking' = IF blocks THEN blocking \cup {i} ELSE blocking
     /\ UNCHANGED <<managed, listener>>
  \/ \* the barrier throws before it did anything
     /\ ctx[i] = "alive" /\ outcome = "error" /\ i \notin prepared
     /\ UNCHANGED context /\ Reregister(w = "rollback")
  \/ \* Context.destroy() throws
     /\ ctx[i] = "alive" /\ outcome = "error"
     /\ prepareEnvCleanup(i)
     /\ UNCHANGED <<ctx, blocking, waiter, strander>> /\ Reregister(w = "rollback")

\* instantiate() forgets the singleton whose promise rejected.
ForgetDefault(i) == default' = IF default = i THEN None ELSE default

\* The promise of an async Context.destroy() settles.
DestroySettles(i, ok) ==
  /\ ctx[i] = "destroying"
  /\ blocking' = blocking \ {i} /\ waiter' = Set(waiter, i, "none")
  /\ ctx' = Set(ctx, i, IF ok THEN "disposed" ELSE "alive")
  /\ IF ok THEN UnregisterCleanup(i) ELSE Reregister(waiter[i] = "rollback")
  /\ pc' = IF waiter[i] = "rollback" THEN Set(pc, i, "rejected") ELSE pc
  /\ IF waiter[i] = "rollback" THEN ForgetDefault(i) ELSE UNCHANGED default
  /\ dp' = IF waiter[i] = "dispose" THEN Set(dp, i, IF ok THEN "ok" ELSE "error") ELSE dp
  /\ bp' = IF waiter[i] = "batch" THEN Set(bp, i, "done") ELSE bp
  /\ UNCHANGED <<kind, failed, promise, prepared, strander, batch, byExit, exits, started,
                 ddispose, mdispose, attempted>>

-----------------------------------------------------------------------------
(* instantiate(), createInstance() and the rollback.                         *)

createInstance(i) ==
  /\ pc[i] = "unused" /\ kind[i] = "indep"
  /\ pc' = Set(pc, i, "module")
  /\ UNCHANGED <<kind, failed, context, dp, cleanup, module>>

\* A call while a singleton exists shares it; one during a disposal is repeated
\* when the disposal succeeded (one more call of this action); one while a
\* Context.destroy() is active is rejected.
instantiate(i) ==
  /\ pc[i] = "unused" /\ kind[i] = "single"
  /\ ~DestroyDepth /\ mdispose = "none" /\ ~started /\ default = None
  /\ pc' = Set(pc, i, "module") /\ default' = i
  /\ UNCHANGED <<kind, failed, context, dp, cleanup, started, ddispose, mdispose, attempted>>

\* The input is no module, cannot be normalized, or the memory is refused.
InputRejected(i) ==
  /\ pc[i] = "module"
  /\ pc' = Set(pc, i, "rejected") /\ ForgetDefault(i)
  /\ UNCHANGED <<kind, failed, context, dp, cleanup, started, ddispose, mdispose, attempted>>

registerManagedEmnapiContext(i) == managed' = managed \cup {i} /\ listener' = TRUE

\* __createManagedEmnapiContext.  A singleton is registered before it is
\* instantiated; a context that cannot be set up is registered, without the
\* singleton's destroyer that a module disposal would exclude, and destroyed.
CreateContext(i, ok) ==
  /\ pc[i] = "module"
  /\ ctx' = Set(ctx, i, "alive")
  /\ pc' = Set(pc, i, IF ok THEN "instantiate" ELSE "rdestroy")
  /\ IF kind[i] = "single" \/ ~ok
     THEN registerManagedEmnapiContext(i) ELSE UNCHANGED <<managed, listener>>
  /\ failed' = IF ok THEN failed ELSE failed \cup {i}
  /\ attempted' = IF ok THEN attempted ELSE attempted \ {i}
  /\ UNCHANGED <<kind, blocking, waiter, promise, prepared, strander, dp, batch, bp,
                 byExit, exits, default, started, ddispose, mdispose>>

InstantiateOk(i) ==
  /\ pc[i] = "instantiate" /\ pc' = Set(pc, i, "ready")
  /\ UNCHANGED <<kind, failed, context, dp, cleanup, module>>

\* Initialization failed with a live environment: the barrier runs, or throws.
InstantiateFails(i) ==
  /\ pc[i] = "instantiate"
  /\ failed' = failed \cup {i}
  /\ \/ prepareEnvCleanup(i) /\ pc' = Set(pc, i, "rdrain")
     \/ UNCHANGED <<prepared, promise>> /\ pc' = Set(pc, i, "unreached")
  /\ UNCHANGED <<kind, ctx, blocking, waiter, strander, dp, cleanup, module>>

\* Mutant: a failed rollback is not kept.
RegisterNothing(i) == UNCHANGED <<managed, listener>>

\* Only a failed rollback registers an independent instance.
RegisterRollback(i) ==
  IF kind[i] = "indep" THEN registerManagedEmnapiContext(i)
  ELSE UNCHANGED <<managed, listener>>

\* Mutant: the context is destroyed over its queue.
RollbackDrainedBlindly(i) ==
  /\ pc[i] = "rdrain"
  /\ pc' = Set(pc, i, "rdestroy") /\ RegisterRollback(i)
  /\ UNCHANGED <<kind, failed, context, dp, batch, bp, byExit, exits, module>>

RollbackDrained(i) ==
  /\ pc[i] = "rdrain" /\ promise[i] # "queued"
  /\ pc' = Set(pc, i, "rdestroy") /\ RegisterRollback(i)
  /\ UNCHANGED <<kind, failed, context, dp, batch, bp, byExit, exits, module>>

\* The bounded wait ran out.
RollbackTimesOut(i) ==
  /\ pc[i] = "rdrain" /\ promise[i] = "queued"
  /\ pc' = Set(pc, i, "unreached")
  /\ UNCHANGED <<kind, failed, context, dp, cleanup, module>>

\* __settlementsUnreached: the context is not destroyed over its queue, but kept
\* in the managed set.
RollbackRetains(i) ==
  /\ pc[i] = "unreached"
  /\ pc' = Set(pc, i, "rejected") /\ ForgetDefault(i)
  /\ registerManagedEmnapiContext(i)
  /\ UNCHANGED <<kind, failed, context, dp, batch, bp, byExit, exits, started, ddispose,
                 mdispose, attempted>>

RollbackDestroys(i) ==
  /\ pc[i] = "rdestroy"
  /\ \E outcome \in {"ok", "wait", "error"} :
       /\ destroy(i, "rollback", "rollback", TRUE, outcome)
       /\ pc' = Set(pc, i, IF outcome = "wait" THEN "rwait" ELSE "rejected")
       /\ IF outcome = "wait" THEN UNCHANGED default ELSE ForgetDefault(i)
  /\ UNCHANGED <<kind, failed, dp, batch, bp, byExit, exits, started, ddispose, mdispose, attempted>>

-----------------------------------------------------------------------------
(* instance.dispose()                                                        *)

\* The barrier runs, or throws; a call that finds one under way joins its drain
\* or is refused by the destroyer, and changes nothing.
StartInstanceDispose(i) ==
  /\ pc[i] = "ready" /\ dp[i] \in {"idle", "error"}
  /\ \/ prepareEnvCleanup(i) /\ dp' = Set(dp, i, IF MustDrain(i) THEN "drain" ELSE "destroy")
     \/ /\ i \notin prepared /\ dp' = Set(dp, i, "error")
        /\ UNCHANGED <<prepared, promise>>
  /\ UNCHANGED <<create, ctx, blocking, waiter, strander, cleanup, module>>

disposeInstance(i) == kind[i] = "indep" /\ StartInstanceDispose(i)

DisposeDrained(i) ==
  /\ dp[i] = "drain" /\ promise[i] # "queued"
  /\ dp' = Set(dp, i, "destroy")
  /\ UNCHANGED <<create, context, cleanup, module>>

\* ERR_NAPI_WASI_CLEANUP_PENDING: the context is kept, a later call waits again.
DisposeGivesUp(i) ==
  /\ dp[i] = "drain" /\ promise[i] = "queued"
  /\ dp' = Set(dp, i, "error")
  /\ UNCHANGED <<create, context, cleanup, module>>

DisposeDestroys(i) ==
  /\ dp[i] = "destroy"
  /\ \E outcome \in {"ok", "wait", "error"} :
       /\ destroy(i, "dispose", "dispose", kind[i] = "single", outcome)
       /\ dp' = Set(dp, i, outcome)
  /\ UNCHANGED <<create, batch, bp, byExit, exits, module>>

-----------------------------------------------------------------------------
(* __disposeDefaultInstance                                                  *)

\* Start or join the disposal of the singleton.
disposeDefaultInstance ==
  IF ddispose # None THEN UNCHANGED <<started, ddispose>>
  ELSE started' = (default # None) /\ ddispose' = default

DefaultReady ==
  /\ ddispose # None /\ dp[ddispose] = "idle"
  /\ StartInstanceDispose(ddispose)

\* The disposal promise settles: module disposal and the batch's destroyer of
\* the singleton go on.  A failure keeps __defaultDisposalStarted, and the
\* instance if there is one.
DefaultSettles(ok) ==
  /\ ddispose' = None
  /\ mdispose' = IF mdispose = "default" THEN "managed" ELSE mdispose
  /\ bp' = [i \in Instances |->
              IF bp[i] # "default" THEN bp[i]
              ELSE IF ok \/ i \notin failed THEN "done" ELSE "retry"]
  /\ UNCHANGED <<create, context, managed, listener, batch, byExit, exits, attempted>>

DefaultRejected ==
  /\ ddispose # None /\ pc[ddispose] = "rejected" /\ DefaultSettles(FALSE)
  /\ UNCHANGED <<dp, default, started>>

DefaultDisposed ==
  /\ ddispose # None /\ dp[ddispose] = "ok" /\ DefaultSettles(TRUE)
  /\ default' = None /\ started' = FALSE
  /\ UNCHANGED dp

\* Mutant: the instance is dropped.
DefaultFailedForgets ==
  /\ ddispose # None /\ dp[ddispose] = "error" /\ DefaultSettles(FALSE)
  /\ dp' = Set(dp, ddispose, "idle")
  /\ default' = None /\ started' = FALSE

DefaultFailed ==
  /\ ddispose # None /\ dp[ddispose] = "error" /\ DefaultSettles(FALSE)
  /\ dp' = Set(dp, ddispose, "idle")
  /\ UNCHANGED <<default, started>>

-----------------------------------------------------------------------------
(* The batch of managed destroyers.                                          *)

StartBatch(destroyers, exit) ==
  /\ batch' = destroyers /\ byExit' = exit
  /\ bp' = [i \in Instances |-> IF i \in destroyers THEN "call" ELSE "idle"]

\* The loop is empty: no drain's turns are pending, no continuation is ready.
\* The once listener is consumed even when a batch is in flight.
Idle ==
  /\ \A i \in Instances : /\ pc[i] \notin {"rdrain", "unreached", "rdestroy"}
                          /\ dp[i] \notin {"drain", "destroy"}
  /\ mdispose # "managed"

beforeExit ==
  /\ Idle /\ listener /\ listener' = FALSE
  /\ exits < MaxExits /\ exits' = exits + 1
  /\ IF batch # {} THEN UNCHANGED <<batch, bp, byExit>> ELSE StartBatch(managed, TRUE)
  /\ UNCHANGED <<create, context, dp, managed, module>>

Calling == \E i \in Instances : bp[i] = "call"

\* A failed instance, and an independent one, is destroyed at once.
CallsDestroy(i) ==
  /\ bp[i] = "retry" \/ (bp[i] = "call" /\ (kind[i] = "indep" \/ i \in failed))
  /\ \E outcome \in {"ok", "wait", "error"} :
       /\ destroy(i, "batch", IF byExit THEN "exit" ELSE "retry", TRUE, outcome)
       /\ bp' = Set(bp, i, IF outcome = "wait" THEN "wait" ELSE "done")
  /\ UNCHANGED <<create, dp, batch, byExit, exits, module>>

\* The singleton's destroyer disposes of the default instance.
CallsDefault(i) ==
  /\ bp[i] = "call" /\ kind[i] = "single" /\ i \notin failed
  /\ disposeDefaultInstance
  /\ bp' = Set(bp, i, IF ddispose' = None THEN "done" ELSE "default")
  /\ UNCHANGED <<create, context, dp, managed, listener, batch, byExit, exits, default,
                 mdispose, attempted>>

\* Every destroyer has settled, whatever became of it.
BatchDone == batch # {} /\ \A i \in batch : bp[i] = "done"

\* __settleManagedEmnapiContextDestroy
BatchSettles ==
  /\ BatchDone
  /\ batch' = {} /\ bp' = [i \in Instances |-> "idle"] /\ byExit' = FALSE
  /\ listener' = (managed # {})
  /\ mdispose' = IF mdispose = "await" THEN "managed" ELSE mdispose
  /\ UNCHANGED <<create, context, dp, managed, exits, default, started, ddispose, attempted>>

-----------------------------------------------------------------------------
(* dispose(): the default instance, then every managed context once.         *)

dispose ==
  /\ ~DestroyDepth /\ mdispose = "none"
  /\ disposeDefaultInstance
  /\ mdispose' = IF ddispose' = None THEN "managed" ELSE "default"
  /\ attempted' = IF ddispose = None THEN {default} \ {None} ELSE {}
  /\ UNCHANGED <<create, context, dp, cleanup, default>>

\* Mutant: attempted destroyers run again.
DrainManagedForgetful ==
  /\ mdispose = "managed"
  /\ \/ batch # {} /\ UNCHANGED <<batch, bp, byExit>>
     \/ /\ batch = {} /\ managed \ attempted # {}
        /\ StartBatch(managed \ attempted, FALSE)
  /\ mdispose' = "await"
  /\ UNCHANGED <<create, context, dp, managed, listener, exits, default, started, ddispose,
                 attempted>>

\* __drainManagedEmnapiContexts: join the batch in flight, or start one of the
\* destroyers not attempted yet.
DrainManaged ==
  /\ mdispose = "managed"
  /\ \/ /\ batch # {} /\ attempted' = attempted \cup batch
        /\ UNCHANGED <<batch, bp, byExit>>
     \/ /\ batch = {} /\ managed \ attempted # {}
        /\ StartBatch(managed \ attempted, FALSE)
        /\ attempted' = attempted \cup managed
  /\ mdispose' = "await"
  /\ UNCHANGED <<create, context, dp, managed, listener, exits, default, started, ddispose>>

ModuleDisposed ==
  /\ mdispose = "managed" /\ batch = {} /\ managed \subseteq attempted
  /\ mdispose' = "none" /\ attempted' = {}
  /\ UNCHANGED <<create, context, dp, cleanup, default, started, ddispose>>

-----------------------------------------------------------------------------
\* A batch calls its destroyers in one go.
CallsDestroyers == \E i \in Instances : CallsDestroy(i) \/ CallsDefault(i)

Work(i) == StartWork(i) \/ FinishWork(i) \/ Dispatch(i)

Creates(i) ==
  \/ InputRejected(i) \/ \E ok \in BOOLEAN : CreateContext(i, ok)
  \/ InstantiateOk(i) \/ InstantiateFails(i)
  \/ RollbackDrained(i) \/ RollbackTimesOut(i) \/ RollbackRetains(i) \/ RollbackDestroys(i)

Disposes(i) == DisposeDrained(i) \/ DisposeGivesUp(i) \/ DisposeDestroys(i)

DestroyEnds(i) == \E ok \in BOOLEAN : DestroySettles(i, ok)

DisposesDefault == DefaultReady \/ DefaultRejected \/ DefaultDisposed \/ DefaultFailed

DisposesModule == DrainManaged \/ ModuleDisposed

Next ==
  \/ CallsDestroyers
  \/ /\ ~Calling
     /\ \/ \E i \in Instances :
             \/ createInstance(i) \/ instantiate(i) \/ disposeInstance(i)
             \/ Work(i) \/ Creates(i) \/ Disposes(i) \/ DestroyEnds(i)
        \/ DisposesDefault \/ beforeExit \/ BatchSettles \/ dispose \/ DisposesModule

Spec == Init /\ [][Next]_vars

\* The event loop comes round to every continuation and to every promise that
\* settles.
Fairness ==
  /\ WF_vars(CallsDestroyers)
  /\ \A i \in Instances : WF_vars(~Calling /\ (Creates(i) \/ Disposes(i) \/ DestroyEnds(i)))
  /\ WF_vars(~Calling /\ (DisposesDefault \/ BatchSettles \/ DisposesModule))

FairSpec == Spec /\ Fairness

-----------------------------------------------------------------------------
(* Properties                                                                *)

\* No path that can yield destroys a context over a queued settlement: neither
\* dispose() of an instance nor the rollback discards one; only the managed
\* destroyer of a failed initialization may (lines 2479-2483, 2614-2650).
YieldingPathsStrandNothing ==
  \A i \in Instances : promise[i] = "stranded" => i \in failed /\ strander[i] \in {"exit", "retry"}

\* The code's comment (2479-2483) goes further: only the beforeExit cleanup of a
\* failed rollback cannot yield.  dispose() retries a retained rollback through
\* the same destroyer, without a drain.
OnlyExitStrands == \A i \in Instances : strander[i] \in {"none", "exit"}

\* A context whose creation failed is destroyed or stays in the managed set, and
\* while that set has a member something will run it: the beforeExit listener is
\* registered or a batch is in flight.
RetainedIsManaged ==
  /\ \A i \in Instances : pc[i] = "rejected" /\ ctx[i] = "alive" => i \in managed
  /\ managed # {} => listener \/ batch # {}

\* instantiate() owns one instance at a time: two singletons are never both live
\* and usable, whatever disposals failed in between.
OneSingleton ==
  \A i, j \in Instances :
    /\ kind[i] = "single" /\ kind[j] = "single" /\ pc[i] \in {"instantiate", "ready"}
    /\ pc[j] \in {"instantiate", "ready"} /\ ctx[i] # "disposed" /\ ctx[j] # "disposed"
    => i = j

\* dispose() of the module settles: it never waits for itself through the batch
\* and the singleton's disposal, and retries nothing it already attempted.
DisposeSettles == mdispose # "none" ~> mdispose = "none"
=============================================================================
