-------------------------- MODULE RuntimeRegistry --------------------------
(***************************************************************************)
(* The process-wide threaded runtime of src/src/napi/async.zig and the     *)
(* registry of the environments that use it.  Operations lease the runtime *)
(* through the entry of their environment.  The runtime is retired when    *)
(* the last entry is gone, and destroyed (its pool workers joined) by the  *)
(* runtime reaper, or inline by a later acquire when no reaper could be    *)
(* started.                                                                *)
(*                                                                         *)
(* An environment is an incarnation: two incarnations may have the same    *)
(* napi_env address, one after the other.  An entry is named after the     *)
(* incarnation that created it, while the code looks entries up by         *)
(* address.  Each critical section under runtime_mutex is one step.        *)
(***************************************************************************)
EXTENDS Integers, FiniteSets

CONSTANTS Envs,          \* incarnations of environments
          Addrs,         \* napi_env addresses
          Ops,           \* operations; each acquires the runtime at most once
          Runtimes,      \* RuntimeStorage allocations
          None,          \* a null pointer
          SpawnMayFail   \* whether std.Thread.spawn can report an error

ASSUME RegistryAssumption ==
  /\ IsFiniteSet(Ops)
  /\ None \notin Envs \cup Addrs \cup Ops \cup Runtimes
  /\ SpawnMayFail \in BOOLEAN

VARIABLES
  envState,           \* [Envs -> unborn | alive | gone]
  addr,               \* [Envs -> address of the incarnation, None if unborn]
  hooked,             \* environments with a cleanup hook (hook_registered)
  head,               \* entries on runtime_env_head
  closing,            \* entries on runtime_env_closing_head
  active_operations,  \* [Envs -> the count in the entry]
  runtime_active,     \* the live runtime, or None
  runtime_retiring,   \* retired runtimes (a stack in the code; the order is immaterial)
  reaper,             \* runtimeReaper: off, scan or destroy
  reaperHolds,        \* the runtime the reaper took off the list
  js,                 \* [Envs -> where the JavaScript thread is in acquire]
  jsOp,               \* [Envs -> the operation it acquires for]
  jsHolds,            \* [Envs -> the runtime it took to destroy inline]
  lease,              \* [Ops -> new | acquiring | held | released | refused]
  entry,              \* [Ops -> entry the lease was granted on]
  owner,              \* [Ops -> environment that submitted the operation]
  runtime,            \* [Ops -> runtime the operation was given]
  working,            \* operations whose pool worker has not returned
  destroyed           \* runtimes that were deinitialised and freed

envVars == <<envState, addr, hooked>>
lists == <<head, closing, active_operations>>
retirement == <<runtime_active, runtime_retiring, reaper>>
jsVars == <<js, jsOp, jsHolds>>
opVars == <<lease, entry, owner, runtime>>
vars == <<envVars, lists, retirement, reaperHolds, jsVars, opVars, working, destroyed>>

Init ==
  /\ envState = [e \in Envs |-> "unborn"]
  /\ addr = [e \in Envs |-> None]
  /\ hooked = {}
  /\ head = {}
  /\ closing = {}
  /\ active_operations = [e \in Envs |-> 0]
  /\ runtime_active = None
  /\ runtime_retiring = {}
  /\ reaper = "off"
  /\ reaperHolds = None
  /\ js = [e \in Envs |-> "idle"]
  /\ jsOp = [e \in Envs |-> None]
  /\ jsHolds = [e \in Envs |-> None]
  /\ lease = [o \in Ops |-> "new"]
  /\ entry = [o \in Ops |-> None]
  /\ owner = [o \in Ops |-> None]
  /\ runtime = [o \in Ops |-> None]
  /\ working = {}
  /\ destroyed = {}

-----------------------------------------------------------------------------
runtime_reaper_running == reaper # "off"

\* The live entries at an address (closed entries are never matched).
findRuntimeEnv(a) == {e \in head : addr[e] = a}

\* Mutation of maybeRetireRuntime: closing environments are forgotten.
maybeRetireIgnoresClosing(h, c) ==
  \/ /\ runtime_active = None \/ h # {}
     /\ UNCHANGED retirement
  \/ /\ runtime_active # None /\ h = {}
     /\ runtime_retiring' = runtime_retiring \cup {runtime_active}
     /\ runtime_active' = None
     /\ reaper' = IF runtime_reaper_running THEN reaper ELSE "scan"

\* Mutation of maybeRetireRuntime: the live pointer is not cleared.
maybeRetireKeepsActive(h, c) ==
  \/ /\ runtime_active = None \/ h # {} \/ c # {}
     /\ UNCHANGED retirement
  \/ /\ runtime_active # None /\ h = {} /\ c = {}
     /\ runtime_retiring' = runtime_retiring \cup {runtime_active}
     /\ reaper' = IF runtime_reaper_running THEN reaper ELSE "scan"
     /\ UNCHANGED runtime_active

\* maybeRetireRuntimeLocked, with h and c the lists as the caller leaves them.
maybeRetireRuntime(h, c) ==
  \/ /\ runtime_active = None \/ h # {} \/ c # {}
     /\ UNCHANGED retirement
  \/ /\ runtime_active # None /\ h = {} /\ c = {}
     /\ runtime_retiring' = runtime_retiring \cup {runtime_active}
     /\ runtime_active' = None
     /\ \/ runtime_reaper_running /\ UNCHANGED reaper
        \/ ~runtime_reaper_running /\ reaper' = "scan"
        \/ ~runtime_reaper_running /\ SpawnMayFail /\ UNCHANGED reaper

\* storage.runtime.deinit joins the pool workers of the runtime.
Joined(r) == \A o \in working : runtime[o] # r

\* A runtime that was never allocated.
Unused(r) ==
  /\ r # runtime_active
  /\ r \notin runtime_retiring \cup destroyed
  /\ r # reaperHolds
  /\ \A e \in Envs : r # jsHolds[e]

-----------------------------------------------------------------------------
(* The engine creates and destroys environments.                           *)

\* A new environment may live at the address of one that is gone.
EnvCreated(e, a) ==
  /\ envState[e] = "unborn"
  /\ \A f \in Envs : envState[f] = "alive" => addr[f] # a
  /\ envState' = [envState EXCEPT ![e] = "alive"]
  /\ addr' = [addr EXCEPT ![e] = a]
  /\ UNCHANGED <<hooked, lists, retirement, reaperHolds, jsVars, opVars, working, destroyed>>

\* The environment is torn down before any hook was registered for it.
EnvGoneUnhooked(e) ==
  /\ envState[e] = "alive" /\ js[e] = "idle"
  /\ e \notin hooked
  /\ envState' = [envState EXCEPT ![e] = "gone"]
  /\ UNCHANGED <<addr, hooked, lists, retirement, reaperHolds, jsVars, opVars, working, destroyed>>

\* Mutation of closeRuntimeEnv: the closed entry stays acquirable.
closeRuntimeEnvLinked(e) ==
  /\ closing' = closing \cup {e}
  /\ UNCHANGED head

\* closeRuntimeEnvLocked: the entry leaves the acquirable list.
closeRuntimeEnv(e) ==
  /\ head' = head \ {e}
  /\ closing' = closing \cup {e}

\* Mutation of destroyRuntimeEnv: the closing list is not searched.
destroyRuntimeEnvHeadOnly(e) ==
  /\ head' = head \ {e}
  /\ UNCHANGED closing

\* destroyRuntimeEnvLocked: unlink from whichever list holds the entry.
destroyRuntimeEnv(e) ==
  /\ head' = head \ {e}
  /\ closing' = closing \ {e}

\* runtimeEnvCleanupHook.
CleanupHook(e) ==
  /\ envState[e] = "alive" /\ js[e] = "idle"
  /\ e \in hooked
  /\ envState' = [envState EXCEPT ![e] = "gone"]
  /\ \/ /\ findRuntimeEnv(addr[e]) = {}
        /\ UNCHANGED <<head, closing>>
     \/ \E f \in findRuntimeEnv(addr[e]) :
          \/ active_operations[f] # 0 /\ closeRuntimeEnv(f)
          \/ active_operations[f] = 0 /\ destroyRuntimeEnv(f)
  /\ maybeRetireRuntime(head', closing')
  /\ UNCHANGED <<addr, hooked, active_operations, reaperHolds, jsVars, opVars, working, destroyed>>

-----------------------------------------------------------------------------
(* acquireThreadedRuntime, on the JavaScript thread of environment e.      *)

\* retireRuntimeInline up to its unlock.
AcquireBegin(e, o) ==
  /\ envState[e] = "alive" /\ js[e] = "idle"
  /\ lease[o] = "new"
  /\ lease' = [lease EXCEPT ![o] = "acquiring"]
  /\ owner' = [owner EXCEPT ![o] = e]
  /\ jsOp' = [jsOp EXCEPT ![e] = o]
  /\ \/ /\ runtime_reaper_running \/ runtime_retiring = {}
        /\ js' = [js EXCEPT ![e] = "acquire"]
        /\ UNCHANGED <<runtime_retiring, jsHolds>>
     \/ /\ ~runtime_reaper_running
        /\ \E r \in runtime_retiring :
             /\ runtime_retiring' = runtime_retiring \ {r}
             /\ jsHolds' = [jsHolds EXCEPT ![e] = r]
        /\ js' = [js EXCEPT ![e] = "destroy"]
  /\ UNCHANGED <<envVars, lists, runtime_active, reaper, reaperHolds, entry, runtime, working, destroyed>>

\* destroyRuntime, called by retireRuntimeInline.
AcquireDestroys(e) ==
  /\ js[e] = "destroy"
  /\ Joined(jsHolds[e])
  /\ destroyed' = destroyed \cup {jsHolds[e]}
  /\ jsHolds' = [jsHolds EXCEPT ![e] = None]
  /\ js' = [js EXCEPT ![e] = "acquire"]
  /\ UNCHANGED <<envVars, lists, retirement, reaperHolds, jsOp, opVars, working>>

\* The entry cannot be allocated, or its hook cannot be registered and the
\* entry is rolled back.
AcquireRefused(e) ==
  /\ js[e] = "acquire"
  /\ findRuntimeEnv(addr[e]) = {}
  /\ lease' = [lease EXCEPT ![jsOp[e]] = "refused"]
  /\ js' = [js EXCEPT ![e] = "idle"]
  /\ jsOp' = [jsOp EXCEPT ![e] = None]
  /\ UNCHANGED <<envVars, lists, retirement, reaperHolds, jsHolds, entry, owner, runtime, working, destroyed>>

\* The entry is found, or created together with its hook, but the runtime has
\* to be allocated and is not.  The entry stays.
AcquireNoStorage(e) ==
  /\ js[e] = "acquire"
  /\ runtime_active = None
  /\ \/ findRuntimeEnv(addr[e]) # {} /\ UNCHANGED <<head, hooked, active_operations>>
     \/ /\ findRuntimeEnv(addr[e]) = {}
        /\ head' = head \cup {e}
        /\ hooked' = hooked \cup {e}
        /\ active_operations' = [active_operations EXCEPT ![e] = 0]
  /\ lease' = [lease EXCEPT ![jsOp[e]] = "refused"]
  /\ js' = [js EXCEPT ![e] = "idle"]
  /\ jsOp' = [jsOp EXCEPT ![e] = None]
  /\ UNCHANGED <<envState, addr, closing, retirement, reaperHolds, jsHolds, entry, owner, runtime,
                 working, destroyed>>

\* The lease is granted; the operation starts its pool worker.
AcquireGranted(e) ==
  /\ js[e] = "acquire"
  /\ \E r \in Runtimes :
       /\ IF runtime_active = None THEN Unused(r) ELSE r = runtime_active
       /\ runtime_active' = r
       /\ runtime' = [runtime EXCEPT ![jsOp[e]] = r]
  /\ \/ \E f \in findRuntimeEnv(addr[e]) :
          /\ active_operations' = [active_operations EXCEPT ![f] = @ + 1]
          /\ entry' = [entry EXCEPT ![jsOp[e]] = f]
          /\ UNCHANGED <<head, hooked>>
     \/ /\ findRuntimeEnv(addr[e]) = {}
        /\ head' = head \cup {e}
        /\ hooked' = hooked \cup {e}
        /\ active_operations' = [active_operations EXCEPT ![e] = 1]
        /\ entry' = [entry EXCEPT ![jsOp[e]] = e]
  /\ lease' = [lease EXCEPT ![jsOp[e]] = "held"]
  /\ working' = working \cup {jsOp[e]}
  /\ js' = [js EXCEPT ![e] = "idle"]
  /\ jsOp' = [jsOp EXCEPT ![e] = None]
  /\ UNCHANGED <<envState, addr, closing, runtime_retiring, reaper, reaperHolds, jsHolds, owner, destroyed>>

-----------------------------------------------------------------------------
(* The operation's last owner, its pool worker, and the runtime reaper.    *)

\* Mutation of leaseEntry: the entry is looked up again by address.
leaseEntryByAddress(o) ==
  LET found == findRuntimeEnv(addr[owner[o]])
  IN  IF found = {} THEN entry[o] ELSE CHOOSE e \in found : TRUE

\* RuntimeLease.env: the entry itself, not the address, identifies the lease.
leaseEntry(o) == entry[o]

\* releaseThreadedRuntime, by whichever thread dropped the last reference: a
\* pool worker that has not returned yet, or any other thread after it did.
Release(o) ==
  /\ lease[o] = "held"
  /\ lease' = [lease EXCEPT ![o] = "released"]
  /\ LET e == leaseEntry(o)
         left == IF active_operations[e] > 0 THEN active_operations[e] - 1 ELSE 0
     IN  /\ active_operations' = [active_operations EXCEPT ![e] = left]
         /\ \/ /\ left = 0 /\ e \in closing
               /\ destroyRuntimeEnv(e)
            \/ /\ left # 0 \/ e \notin closing
               /\ UNCHANGED <<head, closing>>
  /\ maybeRetireRuntime(head', closing')
  /\ UNCHANGED <<envVars, reaperHolds, jsVars, entry, owner, runtime, working, destroyed>>

WorkerReturns(o) ==
  /\ o \in working
  /\ working' = working \ {o}
  /\ UNCHANGED <<envVars, lists, retirement, reaperHolds, jsVars, opVars, destroyed>>

\* Mutation of ReaperScan: an empty list is not noticed.
ReaperScanUnchecked ==
  /\ reaper = "scan"
  /\ reaper' = "destroy"
  /\ reaperHolds' = IF runtime_retiring = {} THEN None ELSE CHOOSE r \in runtime_retiring : TRUE
  /\ runtime_retiring' = runtime_retiring \ {reaperHolds'}
  /\ UNCHANGED <<envVars, lists, runtime_active, jsVars, opVars, working, destroyed>>

\* runtimeReaper takes one runtime off the list, or exits.
ReaperScan ==
  /\ reaper = "scan"
  /\ \/ /\ runtime_retiring = {}
        /\ reaper' = "off"
        /\ UNCHANGED <<runtime_retiring, reaperHolds>>
     \/ /\ reaper' = "destroy"
        /\ \E r \in runtime_retiring :
             /\ reaperHolds' = r
             /\ runtime_retiring' = runtime_retiring \ {r}
  /\ UNCHANGED <<envVars, lists, runtime_active, jsVars, opVars, working, destroyed>>

\* Mutation of ReaperDestroys: the reaper exits after one runtime.
ReaperDestroysOnce ==
  /\ reaper = "destroy"
  /\ Joined(reaperHolds)
  /\ destroyed' = destroyed \cup {reaperHolds}
  /\ reaperHolds' = None
  /\ reaper' = "off"
  /\ UNCHANGED <<envVars, lists, runtime_active, runtime_retiring, jsVars, opVars, working>>

ReaperDestroys ==
  /\ reaper = "destroy"
  /\ Joined(reaperHolds)
  /\ destroyed' = destroyed \cup {reaperHolds}
  /\ reaperHolds' = None
  /\ reaper' = "scan"
  /\ UNCHANGED <<envVars, lists, runtime_active, runtime_retiring, jsVars, opVars, working>>

Acquire(e) ==
  \/ AcquireDestroys(e)
  \/ AcquireRefused(e)
  \/ AcquireNoStorage(e)
  \/ AcquireGranted(e)

Next ==
  \/ \E e \in Envs : \/ \E a \in Addrs : EnvCreated(e, a)
                     \/ EnvGoneUnhooked(e)
                     \/ CleanupHook(e)
                     \/ \E o \in Ops : AcquireBegin(e, o)
                     \/ Acquire(e)
  \/ \E o \in Ops : Release(o) \/ WorkerReturns(o)
  \/ ReaperScan
  \/ ReaperDestroys

Spec == Init /\ [][Next]_vars

\* An acquire that began returns, tasks end and their operations are released,
\* and the reaper thread runs.  Environments need not be created or destroyed.
Fairness ==
  /\ \A e \in Envs : WF_vars(Acquire(e))
  /\ \A o \in Ops : WF_vars(Release(o)) /\ WF_vars(WorkerReturns(o))
  /\ WF_vars(ReaperScan) /\ WF_vars(ReaperDestroys)

FairSpec == Spec /\ Fairness

-----------------------------------------------------------------------------
Held(o) == lease[o] = "held"
Entries == head \cup closing
LeasesOn(e) == {o \in Ops : Held(o) /\ entry[o] = e}

TypeOK ==
  /\ envState \in [Envs -> {"unborn", "alive", "gone"}]
  /\ addr \in [Envs -> Addrs \cup {None}]
  /\ hooked \subseteq Envs
  /\ head \subseteq Envs
  /\ closing \subseteq Envs
  /\ active_operations \in [Envs -> Nat]
  /\ runtime_active \in Runtimes \cup {None}
  /\ runtime_retiring \subseteq Runtimes
  /\ reaper \in {"off", "scan", "destroy"}
  /\ reaperHolds \in Runtimes \cup {None}
  /\ js \in [Envs -> {"idle", "destroy", "acquire"}]
  /\ jsOp \in [Envs -> Ops \cup {None}]
  /\ jsHolds \in [Envs -> Runtimes \cup {None}]
  /\ lease \in [Ops -> {"new", "acquiring", "held", "released", "refused"}]
  /\ entry \in [Ops -> Envs \cup {None}]
  /\ owner \in [Ops -> Envs \cup {None}]
  /\ runtime \in [Ops -> Runtimes \cup {None}]
  /\ working \subseteq Ops
  /\ destroyed \subseteq Runtimes

\* "An active operation always observes an initialized runtime": as long as an
\* operation holds its lease, the runtime it was given is still the live one -
\* not retired, let alone destroyed - and its entry is still allocated, also
\* after the cleanup hook of its environment ran.
LeaseKeepsRuntime ==
  \A o \in Ops : Held(o) => /\ runtime_active # None
                           /\ runtime[o] = runtime_active
                           /\ entry[o] \in Entries

\* The count in an entry is the number of leases on it, so an entry that is
\* freed because its count is zero has no lease left.
EntryCountsLeases ==
  \A e \in Envs :
    IF e \in Entries THEN active_operations[e] = Cardinality(LeasesOn(e))
                     ELSE LeasesOn(e) = {}

\* napi_env addresses are recycled: an operation is always leased on the entry
\* of its own environment, never on one that a dead environment left at the
\* same address.
LeaseOnOwnEntry == \A o \in Ops : Held(o) => entry[o] = owner[o]

\* At most one live entry per address, and it belongs to a live environment:
\* a new environment is never matched with (and refused because of) a dead one.
LiveEntriesAreLive ==
  \A e \in head : /\ envState[e] = "alive"
                  /\ findRuntimeEnv(addr[e]) = {e}

\* "The runtime is released once the last owner is gone": the live runtime
\* belongs to a live environment or to an operation that still holds a lease;
\* entries of dead environments do not keep it once they are drained.
ActiveRuntimeHasOwner ==
  runtime_active # None => head # {} \/ \E o \in Ops : Held(o)

\* A runtime is destroyed by one thread only: the live pointer, the retired
\* list, the reaper and the threads that retire inline never share one.
RuntimeHasOneHolder ==
  /\ runtime_active \notin runtime_retiring \cup destroyed
  /\ runtime_retiring \cap destroyed = {}
  /\ reaperHolds # None =>
       reaperHolds \notin runtime_retiring \cup destroyed \cup {runtime_active}
  /\ \A e \in Envs : jsHolds[e] # None =>
       /\ jsHolds[e] \notin runtime_retiring \cup destroyed \cup {runtime_active, reaperHolds}
       /\ \A f \in Envs \ {e} : jsHolds[f] # jsHolds[e]

\* A runtime that is retired while a reaper thread is running is destroyed,
\* whichever thread takes it, also when that reaper is about to exit.
RetiredIsDestroyed ==
  \A r \in Runtimes : (r \in runtime_retiring /\ reaper # "off") ~> (r \in destroyed)

\* The lists hold what their owners need: leases stay on the entry of their own
\* environment, lookups find live environments only, and the live runtime has
\* an owner.
EntriesExact == LeaseOnOwnEntry /\ LiveEntriesAreLive /\ ActiveRuntimeHasOwner

\* The comment in maybeRetireRuntimeLocked: with no helper thread available
\* "the runtime stays retired until the next acquire".  Whenever an acquire
\* finds no reaper running, it takes the last retired runtime off the list.
NextAcquireReleasesRetired ==
  [][\A e \in Envs, o \in Ops :
       AcquireBegin(e, o) /\ ~runtime_reaper_running => runtime_retiring' = {}]_vars

=============================================================================
