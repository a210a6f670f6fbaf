----------------------- MODULE RuntimeRegistry_proofs -----------------------
(***************************************************************************)
(* Proofs about RuntimeRegistry: for any set of environments, addresses,   *)
(* operations and runtimes, a lease keeps its runtime live and its entry   *)
(* allocated, and is always held on the entry of its own environment; a    *)
(* runtime is destroyed once, by whoever took it last, after its workers.  *)
(***************************************************************************)
EXTENDS RuntimeRegistry, FiniteSetTheorems, TLAPS

\* Two live environments never share an address.
AliveApart ==
  \A e, f \in Envs :
    envState[e] = "alive" /\ envState[f] = "alive" /\ addr[e] = addr[f] => e = f

\* Acquirable entries belong to live environments, closed ones to dead ones.
HeadAlive == \A e \in head : envState[e] = "alive" /\ e \in hooked
ClosingGone == \A e \in closing : envState[e] = "gone"

\* A thread inside acquire runs in a live environment for an operation that is
\* its own and not leased yet.
AcquireShape ==
  \A e \in Envs : js[e] # "idle" =>
    /\ envState[e] = "alive"
    /\ jsOp[e] \in Ops
    /\ lease[jsOp[e]] = "acquiring"
    /\ owner[jsOp[e]] = e

\* A thread holds a retired runtime exactly while it destroys it.
HoldShape ==
  /\ \A e \in Envs : js[e] = "destroy" <=> jsHolds[e] # None
  /\ reaper = "destroy" <=> reaperHolds # None

\* The inductive invariant.  LeaseKeepsRuntime is not inductive alone: that the
\* last entry can go only with the last lease needs the exact counts, and the
\* counts need to know that a created entry is new (AliveApart, HeadAlive,
\* ClosingGone) and that each operation is granted once (AcquireShape).
IInv ==
  /\ TypeOK
  /\ AliveApart
  /\ HeadAlive
  /\ ClosingGone
  /\ AcquireShape
  /\ EntryCountsLeases
  /\ LeaseOnOwnEntry
  /\ LeaseKeepsRuntime
  /\ HoldShape
  /\ RuntimeHasOneHolder

LEMMA LeasesFinite ==
  ASSUME NEW e
  PROVE  IsFiniteSet(LeasesOn(e)) /\ Cardinality(LeasesOn(e)) \in Nat
<1>1. LeasesOn(e) \subseteq Ops
  BY DEF LeasesOn
<1> QED
  BY <1>1, RegistryAssumption, FS_Subset, FS_CardinalityType

LEMMA InitInvariant == Init => IInv
<1> SUFFICES ASSUME Init PROVE IInv
  OBVIOUS
<1>1. TypeOK
  BY DEF Init, TypeOK
<1>2. \A e \in Envs : LeasesOn(e) = {}
  BY DEF Init, LeasesOn, Held
<1>3. AliveApart /\ HeadAlive /\ ClosingGone /\ AcquireShape
  BY DEF Init, AliveApart, HeadAlive, ClosingGone, AcquireShape
<1>4. EntryCountsLeases /\ LeaseOnOwnEntry /\ LeaseKeepsRuntime
  BY <1>2 DEF Init, EntryCountsLeases, LeaseOnOwnEntry, LeaseKeepsRuntime, Entries, Held
<1>5. HoldShape /\ RuntimeHasOneHolder
  BY DEF Init, HoldShape, RuntimeHasOneHolder
<1> QED
  BY <1>1, <1>3, <1>4, <1>5 DEF IInv

-----------------------------------------------------------------------------
(* Two facts about operators the actions share.                            *)

\* The entry found at a live environment's address is its own.
LEMMA FoundIsOwn ==
  ASSUME IInv, NEW e \in Envs, envState[e] = "alive", NEW f \in findRuntimeEnv(addr[e])
  PROVE  f = e
BY DEF IInv, TypeOK, AliveApart, HeadAlive, findRuntimeEnv

\* Retiring never takes the runtime from a lease whose entry is still listed.
LEMMA RetireKeepsLeased ==
  ASSUME IInv, NEW h, NEW c, maybeRetireRuntime(h, c), h # {} \/ c # {}
  PROVE  runtime_active' = runtime_active
BY DEF maybeRetireRuntime, retirement

\* Retiring hands the live runtime over to the retired list.
LEMMA RetireKeepsHolders ==
  ASSUME IInv, NEW h, NEW c, maybeRetireRuntime(h, c),
         UNCHANGED <<reaperHolds, js, jsHolds, destroyed>>
  PROVE  HoldShape' /\ RuntimeHasOneHolder'
BY RegistryAssumption
DEF maybeRetireRuntime, retirement, IInv, TypeOK, HoldShape, RuntimeHasOneHolder,
    runtime_reaper_running

LEMMA RetireTypes ==
  ASSUME IInv, NEW h, NEW c, maybeRetireRuntime(h, c)
  PROVE  /\ runtime_active' \in Runtimes \cup {None}
         /\ runtime_retiring' \subseteq Runtimes
         /\ reaper' \in {"off", "scan", "destroy"}
BY DEF maybeRetireRuntime, retirement, IInv, TypeOK

-----------------------------------------------------------------------------
LEMMA EnvCreatedInvariant ==
  ASSUME IInv, NEW e \in Envs, NEW a \in Addrs, EnvCreated(e, a)
  PROVE  IInv'
<1> USE DEF IInv
<1>1. TypeOK'
  BY DEF TypeOK, EnvCreated, lists, retirement, jsVars, opVars
<1>2. AliveApart'
  BY DEF TypeOK, EnvCreated, AliveApart
<1>3. HeadAlive' /\ ClosingGone'
  BY DEF TypeOK, EnvCreated, HeadAlive, ClosingGone, lists
<1>4. AcquireShape'
  BY DEF TypeOK, EnvCreated, AcquireShape, jsVars, opVars
<1>5. EntryCountsLeases' /\ LeaseOnOwnEntry' /\ LeaseKeepsRuntime'
  BY DEF EnvCreated, EntryCountsLeases, LeaseOnOwnEntry, LeaseKeepsRuntime, LeasesOn,
         Entries, Held, lists, retirement, opVars
<1>6. HoldShape' /\ RuntimeHasOneHolder'
  BY DEF EnvCreated, HoldShape, RuntimeHasOneHolder, retirement, jsVars
<1> QED
  BY <1>1, <1>2, <1>3, <1>4, <1>5, <1>6

LEMMA EnvGoneUnhookedInvariant ==
  ASSUME IInv, NEW e \in Envs, EnvGoneUnhooked(e)
  PROVE  IInv'
<1> USE DEF IInv
<1>1. TypeOK'
  BY DEF TypeOK, EnvGoneUnhooked, lists, retirement, jsVars, opVars
<1>2. AliveApart'
  BY DEF TypeOK, EnvGoneUnhooked, AliveApart
<1>3. HeadAlive' /\ ClosingGone'
  BY DEF TypeOK, EnvGoneUnhooked, HeadAlive, ClosingGone, lists
<1>4. AcquireShape'
  BY DEF TypeOK, EnvGoneUnhooked, AcquireShape, jsVars, opVars
<1>5. EntryCountsLeases' /\ LeaseOnOwnEntry' /\ LeaseKeepsRuntime'
  BY DEF EnvGoneUnhooked, EntryCountsLeases, LeaseOnOwnEntry, LeaseKeepsRuntime, LeasesOn,
         Entries, Held, lists, retirement, opVars
<1>6. HoldShape' /\ RuntimeHasOneHolder'
  BY DEF EnvGoneUnhooked, HoldShape, RuntimeHasOneHolder, retirement, jsVars
<1> QED
  BY <1>1, <1>2, <1>3, <1>4, <1>5, <1>6

LEMMA CleanupHookInvariant ==
  ASSUME IInv, NEW e \in Envs, CleanupHook(e)
  PROVE  IInv'
<1> USE DEF IInv
<1>1. /\ envState' = [envState EXCEPT ![e] = "gone"]
      /\ UNCHANGED <<addr, hooked, active_operations, reaperHolds, jsVars, opVars, working, destroyed>>
  BY DEF CleanupHook
<1>2. \/ head' = head /\ closing' = closing /\ e \notin head
      \/ head' = head \ {e} /\ closing' = closing \cup {e} /\ e \in head
      \/ /\ head' = head \ {e} /\ closing' = closing \ {e} /\ e \in head
         /\ active_operations[e] = 0
  <2>1. envState[e] = "alive"
    BY DEF CleanupHook
  <2>2. CASE findRuntimeEnv(addr[e]) = {}
    BY <2>2 DEF CleanupHook, findRuntimeEnv
  <2>3. CASE \E f \in findRuntimeEnv(addr[e]) :
               \/ active_operations[f] # 0 /\ closeRuntimeEnv(f)
               \/ active_operations[f] = 0 /\ destroyRuntimeEnv(f)
    BY <2>1, <2>3, FoundIsOwn DEF closeRuntimeEnv, destroyRuntimeEnv, findRuntimeEnv
  <2> QED
    BY <2>2, <2>3 DEF CleanupHook
<1>3. TypeOK'
  <2>1. maybeRetireRuntime(head', closing')
    BY DEF CleanupHook
  <2>2. head' \subseteq Envs /\ closing' \subseteq Envs
    BY <1>2 DEF TypeOK
  <2> QED
    BY <1>1, <2>1, <2>2, RetireTypes DEF TypeOK, jsVars, opVars
<1>4. AliveApart'
  BY <1>1 DEF TypeOK, AliveApart
<1>5. HeadAlive' /\ ClosingGone'
  BY <1>1, <1>2 DEF TypeOK, HeadAlive, ClosingGone
<1>6. AcquireShape'
  BY <1>1 DEF CleanupHook, TypeOK, AcquireShape, jsVars, opVars
<1>7. \A f : LeasesOn(f)' = LeasesOn(f)
  BY <1>1 DEF LeasesOn, Held, opVars
<1>8. e \in head /\ active_operations[e] = 0 => LeasesOn(e) = {}
  BY LeasesFinite, FS_EmptySet DEF EntryCountsLeases, Entries
<1>9. EntryCountsLeases'
  BY <1>1, <1>2, <1>7, <1>8 DEF EntryCountsLeases, Entries
<1>10. LeaseOnOwnEntry'
  BY <1>1 DEF LeaseOnOwnEntry, Held, opVars
<1>11. LeaseKeepsRuntime'
  <2> SUFFICES ASSUME NEW o \in Ops, Held(o)'
               PROVE  /\ runtime_active' # None
                      /\ runtime'[o] = runtime_active'
                      /\ entry'[o] \in Entries'
    BY DEF LeaseKeepsRuntime
  <2>1. Held(o) /\ entry'[o] = entry[o] /\ runtime'[o] = runtime[o]
    BY <1>1 DEF Held, opVars
  <2>2. o \in LeasesOn(entry[o])
    BY <2>1 DEF LeasesOn
  <2>3. entry[o] \in Entries'
    BY <2>1, <2>2, <1>2, <1>8 DEF LeaseKeepsRuntime, Entries
  <2>4. runtime_active' = runtime_active
    BY <2>3, RetireKeepsLeased DEF CleanupHook, Entries
  <2> QED
    BY <2>1, <2>3, <2>4 DEF LeaseKeepsRuntime
<1>12. HoldShape' /\ RuntimeHasOneHolder'
  BY <1>1, RetireKeepsHolders DEF CleanupHook, jsVars
<1> QED
  BY <1>3, <1>4, <1>5, <1>6, <1>9, <1>10, <1>11, <1>12

LEMMA AcquireBeginInvariant ==
  ASSUME IInv, NEW e \in Envs, NEW o \in Ops, AcquireBegin(e, o)
  PROVE  IInv'
<1> USE DEF IInv
<1>1. TypeOK'
  BY DEF TypeOK, AcquireBegin, envVars, lists
<1>2. AliveApart' /\ HeadAlive' /\ ClosingGone'
  BY DEF AcquireBegin, AliveApart, HeadAlive, ClosingGone, envVars, lists
<1>3. AcquireShape'
  BY DEF AcquireBegin, AcquireShape, TypeOK, envVars
<1>4. \A p \in Ops : Held(p)' <=> Held(p)
  BY DEF AcquireBegin, Held, TypeOK
<1>5. \A f : LeasesOn(f)' = LeasesOn(f)
  BY <1>4 DEF AcquireBegin, LeasesOn
<1>6. EntryCountsLeases'
  BY <1>5 DEF AcquireBegin, EntryCountsLeases, Entries, lists
<1>7. LeaseOnOwnEntry' /\ LeaseKeepsRuntime'
  BY <1>4 DEF AcquireBegin, LeaseOnOwnEntry, LeaseKeepsRuntime, Entries, lists, Held, TypeOK
<1>8. HoldShape' /\ RuntimeHasOneHolder'
  BY RegistryAssumption
  DEF AcquireBegin, HoldShape, RuntimeHasOneHolder, TypeOK, runtime_reaper_running
<1> QED
  BY <1>1, <1>2, <1>3, <1>6, <1>7, <1>8

LEMMA AcquireDestroysInvariant ==
  ASSUME IInv, NEW e \in Envs, AcquireDestroys(e)
  PROVE  IInv'
<1> USE DEF IInv
<1>1. TypeOK'
  BY DEF TypeOK, HoldShape, AcquireDestroys, envVars, lists, retirement, opVars
<1>2. AliveApart' /\ HeadAlive' /\ ClosingGone'
  BY DEF AcquireDestroys, AliveApart, HeadAlive, ClosingGone, envVars, lists
<1>3. AcquireShape'
  BY DEF AcquireDestroys, AcquireShape, TypeOK, envVars, opVars
<1>4. EntryCountsLeases' /\ LeaseOnOwnEntry' /\ LeaseKeepsRuntime'
  BY DEF AcquireDestroys, EntryCountsLeases, LeaseOnOwnEntry, LeaseKeepsRuntime, LeasesOn,
         Entries, Held, lists, retirement, opVars
<1>5. HoldShape' /\ RuntimeHasOneHolder'
  BY DEF AcquireDestroys, HoldShape, RuntimeHasOneHolder, TypeOK, retirement
<1> QED
  BY <1>1, <1>2, <1>3, <1>4, <1>5

LEMMA AcquireRefusedInvariant ==
  ASSUME IInv, NEW e \in Envs, AcquireRefused(e)
  PROVE  IInv'
<1> USE DEF IInv
<1>1. TypeOK'
  BY DEF TypeOK, AcquireShape, AcquireRefused, envVars, lists, retirement
<1>2. AliveApart' /\ HeadAlive' /\ ClosingGone'
  BY DEF AcquireRefused, AliveApart, HeadAlive, ClosingGone, envVars, lists
<1>3. AcquireShape'
  BY DEF AcquireRefused, AcquireShape, TypeOK, envVars
<1>4. \A p \in Ops : Held(p)' <=> Held(p)
  BY DEF AcquireRefused, AcquireShape, Held, TypeOK
<1>5. \A f : LeasesOn(f)' = LeasesOn(f)
  BY <1>4 DEF AcquireRefused, LeasesOn
<1>6. EntryCountsLeases' /\ LeaseOnOwnEntry' /\ LeaseKeepsRuntime'
  BY <1>4, <1>5
  DEF AcquireRefused, EntryCountsLeases, LeaseOnOwnEntry, LeaseKeepsRuntime, Entries, lists,
      retirement
<1>7. HoldShape' /\ RuntimeHasOneHolder'
  BY DEF AcquireRefused, HoldShape, RuntimeHasOneHolder, TypeOK, retirement
<1> QED
  BY <1>1, <1>2, <1>3, <1>6, <1>7

\* An entry created for a live environment that has none is new.
LEMMA CreatedIsNew ==
  ASSUME IInv, NEW e \in Envs, envState[e] = "alive", findRuntimeEnv(addr[e]) = {}
  PROVE  e \notin Entries /\ LeasesOn(e) = {}
<1>1. e \notin head /\ e \notin closing
  BY DEF IInv, ClosingGone, findRuntimeEnv
<1> QED
  BY <1>1 DEF IInv, EntryCountsLeases, Entries

LEMMA AcquireNoStorageInvariant ==
  ASSUME IInv, NEW e \in Envs, AcquireNoStorage(e)
  PROVE  IInv'
<1> USE DEF IInv
<1>1. TypeOK'
  BY DEF TypeOK, AcquireShape, AcquireNoStorage, retirement
<1>2. envState[e] = "alive"
  BY DEF AcquireNoStorage, AcquireShape
<1>3. AliveApart' /\ HeadAlive' /\ ClosingGone'
  BY <1>2 DEF AcquireNoStorage, AliveApart, HeadAlive, ClosingGone
<1>4. AcquireShape'
  BY DEF AcquireNoStorage, AcquireShape, TypeOK
<1>5. \A p \in Ops : Held(p)' <=> Held(p)
  BY DEF AcquireNoStorage, AcquireShape, Held, TypeOK
<1>6. \A f : LeasesOn(f)' = LeasesOn(f)
  BY <1>5 DEF AcquireNoStorage, LeasesOn
<1>7. EntryCountsLeases'
  <2>1. CASE UNCHANGED <<head, hooked, active_operations>>
    BY <1>6, <2>1 DEF AcquireNoStorage, EntryCountsLeases, Entries
  <2>2. CASE findRuntimeEnv(addr[e]) = {} /\ head' = head \cup {e}
             /\ active_operations' = [active_operations EXCEPT ![e] = 0]
    <3>1. e \notin Entries /\ LeasesOn(e)' = {}
      BY <1>2, <1>6, <2>2, CreatedIsNew
    <3>2. Cardinality(LeasesOn(e)') = 0
      BY <3>1, FS_EmptySet
    <3> QED
      BY <1>6, <2>2, <3>1, <3>2 DEF AcquireNoStorage, EntryCountsLeases, Entries, TypeOK
  <2> QED
    BY <2>1, <2>2 DEF AcquireNoStorage
<1>8. LeaseOnOwnEntry' /\ LeaseKeepsRuntime'
  BY <1>5 DEF AcquireNoStorage, LeaseOnOwnEntry, LeaseKeepsRuntime, Entries, retirement
<1>9. HoldShape' /\ RuntimeHasOneHolder'
  BY DEF AcquireNoStorage, HoldShape, RuntimeHasOneHolder, TypeOK, retirement
<1> QED
  BY <1>1, <1>3, <1>4, <1>7, <1>8, <1>9

\* A granted lease is counted once, on the entry of its own environment, and
\* its runtime is the live one: leases held before it had the same runtime.
LEMMA AcquireGrantedInvariant ==
  ASSUME IInv, NEW e \in Envs, AcquireGranted(e)
  PROVE  IInv'
<1> USE DEF IInv
<1> DEFINE o == jsOp[e]
<1>1. envState[e] = "alive" /\ o \in Ops /\ lease[o] = "acquiring" /\ owner[o] = e /\ js[e] = "acquire"
  BY DEF AcquireGranted, AcquireShape
<1>2. PICK r \in Runtimes :
        /\ IF runtime_active = None THEN Unused(r) ELSE r = runtime_active
        /\ runtime_active' = r
        /\ runtime' = [runtime EXCEPT ![o] = r]
  BY DEF AcquireGranted
<1>3. /\ lease' = [lease EXCEPT ![o] = "held"]
      /\ working' = working \cup {o}
      /\ js' = [js EXCEPT ![e] = "idle"]
      /\ jsOp' = [jsOp EXCEPT ![e] = None]
      /\ UNCHANGED <<envState, addr, closing, runtime_retiring, reaper, reaperHolds, jsHolds, owner, destroyed>>
  BY DEF AcquireGranted
<1>4. \/ /\ e \in head
         /\ active_operations' = [active_operations EXCEPT ![e] = @ + 1]
         /\ entry' = [entry EXCEPT ![o] = e]
         /\ UNCHANGED <<head, hooked>>
      \/ /\ e \notin Entries /\ LeasesOn(e) = {}
         /\ head' = head \cup {e}
         /\ hooked' = hooked \cup {e}
         /\ active_operations' = [active_operations EXCEPT ![e] = 1]
         /\ entry' = [entry EXCEPT ![o] = e]
  <2>1. CASE \E f \in findRuntimeEnv(addr[e]) :
               /\ active_operations' = [active_operations EXCEPT ![f] = @ + 1]
               /\ entry' = [entry EXCEPT ![o] = f]
               /\ UNCHANGED <<head, hooked>>
    BY <1>1, <2>1, FoundIsOwn DEF findRuntimeEnv
  <2>2. CASE /\ findRuntimeEnv(addr[e]) = {}
             /\ head' = head \cup {e}
             /\ hooked' = hooked \cup {e}
             /\ active_operations' = [active_operations EXCEPT ![e] = 1]
             /\ entry' = [entry EXCEPT ![o] = e]
    BY <1>1, <2>2, CreatedIsNew
  <2> QED
    BY <2>1, <2>2 DEF AcquireGranted
<1>5. TypeOK'
  BY <1>1, <1>2, <1>3, <1>4 DEF TypeOK
<1>6. AliveApart' /\ HeadAlive' /\ ClosingGone'
  BY <1>1, <1>3, <1>4 DEF AliveApart, HeadAlive, ClosingGone
<1>7. AcquireShape'
  BY <1>1, <1>3 DEF AcquireShape, TypeOK
<1>8. \A p \in Ops : Held(p)' <=> Held(p) \/ p = o
  BY <1>1, <1>3 DEF Held, TypeOK
<1>9. o \notin LeasesOn(e) /\ LeasesOn(e)' = LeasesOn(e) \cup {o}
  BY <1>1, <1>4, <1>8 DEF LeasesOn, Held, TypeOK
<1>10. Cardinality(LeasesOn(e)') = Cardinality(LeasesOn(e)) + 1
  BY <1>9, LeasesFinite, FS_AddElement
<1>11. \A f \in Envs \ {e} : LeasesOn(f)' = LeasesOn(f)
  <2> SUFFICES ASSUME NEW f \in Envs \ {e} PROVE LeasesOn(f)' = LeasesOn(f)
    OBVIOUS
  <2>1. \A p \in Ops : Held(p)' /\ entry'[p] = f <=> Held(p) /\ entry[p] = f
    BY <1>1, <1>4, <1>8 DEF TypeOK, Held
  <2> QED
    BY <2>1 DEF LeasesOn
<1>12. EntryCountsLeases'
  <2>1. e \in Entries' /\ active_operations'[e] = Cardinality(LeasesOn(e)')
    <3>1. CASE e \in head /\ active_operations' = [active_operations EXCEPT ![e] = @ + 1]
      BY <1>3, <1>4, <1>10, <3>1 DEF EntryCountsLeases, Entries, TypeOK
    <3>2. CASE LeasesOn(e) = {} /\ head' = head \cup {e}
               /\ active_operations' = [active_operations EXCEPT ![e] = 1]
      <4>1. Cardinality(LeasesOn(e)') = 1
        BY <1>10, <3>2, FS_EmptySet
      <4> QED
        BY <4>1, <3>2 DEF Entries, TypeOK
    <3> QED
      BY <1>4, <3>1, <3>2
  <2>2. ASSUME NEW f \in Envs \ {e}
        PROVE  IF f \in Entries' THEN active_operations'[f] = Cardinality(LeasesOn(f)')
                                  ELSE LeasesOn(f)' = {}
    BY <1>3, <1>4, <1>11, <2>2 DEF EntryCountsLeases, Entries, TypeOK
  <2> QED
    BY <2>1, <2>2 DEF EntryCountsLeases
<1>13. LeaseOnOwnEntry'
  BY <1>1, <1>3, <1>4, <1>8 DEF LeaseOnOwnEntry, TypeOK
<1>14. LeaseKeepsRuntime'
  <2> SUFFICES ASSUME NEW p \in Ops, Held(p)'
               PROVE  /\ runtime_active' # None
                      /\ runtime'[p] = runtime_active'
                      /\ entry'[p] \in Entries'
    BY DEF LeaseKeepsRuntime
  <2>1. runtime_active' # None
    BY <1>2, RegistryAssumption
  <2>2. CASE p = o
    BY <1>1, <1>2, <1>4, <2>1, <2>2 DEF Entries, TypeOK
  <2>3. CASE p # o
    BY <1>2, <1>3, <1>4, <1>8, <2>1, <2>3 DEF LeaseKeepsRuntime, Entries, TypeOK
  <2> QED
    BY <2>2, <2>3
<1>15. HoldShape' /\ RuntimeHasOneHolder'
  BY <1>1, <1>2, <1>3 DEF HoldShape, RuntimeHasOneHolder, TypeOK, Unused
<1> QED
  BY <1>5, <1>6, <1>7, <1>12, <1>13, <1>14, <1>15

\* A release that frees the entry is the last one on it.
LEMMA ReleaseInvariant ==
  ASSUME IInv, NEW o \in Ops, Release(o)
  PROVE  IInv'
<1> USE DEF IInv
<1> DEFINE e == entry[o]
<1>1. Held(o) /\ e \in Entries /\ e \in Envs /\ o \in LeasesOn(e)
  BY DEF Release, LeaseKeepsRuntime, Held, LeasesOn, Entries, TypeOK
<1>2. active_operations[e] = Cardinality(LeasesOn(e)) /\ active_operations[e] \in Nat
  BY <1>1 DEF EntryCountsLeases, TypeOK
<1>3. active_operations[e] > 0
  BY <1>1, <1>2, LeasesFinite, FS_EmptySet
<1>4. /\ lease' = [lease EXCEPT ![o] = "released"]
      /\ UNCHANGED <<envVars, reaperHolds, jsVars, entry, owner, runtime, working, destroyed>>
      /\ active_operations' = [active_operations EXCEPT ![e] = active_operations[e] - 1]
  BY <1>3 DEF Release, leaseEntry
<1>5. \/ /\ head' = head \ {e} /\ closing' = closing \ {e}
         /\ active_operations[e] - 1 = 0 /\ e \in closing
      \/ UNCHANGED <<head, closing>>
  BY <1>3 DEF Release, leaseEntry, destroyRuntimeEnv
<1>6. maybeRetireRuntime(head', closing')
  BY DEF Release
<1>7. \A p \in Ops : Held(p)' <=> Held(p) /\ p # o
  BY <1>4 DEF Held, TypeOK
<1>8. LeasesOn(e)' = LeasesOn(e) \ {o} /\ \A f : f # e => LeasesOn(f)' = LeasesOn(f)
  BY <1>4, <1>7 DEF LeasesOn
<1>9. Cardinality(LeasesOn(e)') = Cardinality(LeasesOn(e)) - 1
  BY <1>1, <1>8, LeasesFinite, FS_RemoveElement
<1>10. IsFiniteSet(LeasesOn(e)')
  BY <1>8, LeasesFinite, FS_Subset
<1>11. active_operations[e] - 1 = 0 => LeasesOn(e)' = {}
  BY <1>2, <1>9, <1>10, FS_EmptySet
<1>12. TypeOK'
  <2>1. /\ runtime_active' \in Runtimes \cup {None}
        /\ runtime_retiring' \subseteq Runtimes
        /\ reaper' \in {"off", "scan", "destroy"}
    BY <1>6, RetireTypes
  <2>2. active_operations' \in [Envs -> Nat]
    <3>1. active_operations[e] - 1 \in Nat
      BY <1>2, <1>3
    <3> QED
      BY <1>4, <3>1 DEF TypeOK
  <2>4. lease' \in [Ops -> {"new", "acquiring", "held", "released", "refused"}]
    BY <1>4 DEF TypeOK
  <2>3. head' \subseteq Envs /\ closing' \subseteq Envs
    BY <1>5 DEF TypeOK
  <2> QED
    BY <1>4, <2>1, <2>2, <2>3, <2>4 DEF TypeOK, envVars, jsVars
<1>13. AliveApart' /\ HeadAlive' /\ ClosingGone'
  BY <1>4, <1>5 DEF AliveApart, HeadAlive, ClosingGone, envVars
<1>14. AcquireShape'
  BY <1>1, <1>4 DEF AcquireShape, Held, TypeOK, envVars, jsVars
<1>15. EntryCountsLeases'
  <2> SUFFICES ASSUME NEW f \in Envs
               PROVE  IF f \in Entries' THEN active_operations'[f] = Cardinality(LeasesOn(f)')
                                         ELSE LeasesOn(f)' = {}
    BY DEF EntryCountsLeases
  <2>1. CASE f = e
    <3>1. active_operations'[e] = Cardinality(LeasesOn(e)')
      BY <1>1, <1>2, <1>4, <1>9 DEF TypeOK
    <3>2. e \notin Entries' => LeasesOn(e)' = {}
      BY <1>1, <1>5, <1>11 DEF Entries
    <3>3. LeasesOn(f)' = LeasesOn(e)'
      BY <1>4, <2>1 DEF LeasesOn
    <3> QED
      BY <2>1, <3>1, <3>2, <3>3
  <2>2. CASE f # e
    <3>1. active_operations'[f] = active_operations[f]
      BY <1>4, <2>2 DEF TypeOK
    <3>2. f \in Entries' <=> f \in Entries
      BY <1>5, <2>2 DEF Entries
    <3> QED
      <4>1. LeasesOn(f)' = LeasesOn(f)
        BY <1>8, <2>2
      <4>2. IF f \in Entries THEN active_operations[f] = Cardinality(LeasesOn(f)) ELSE LeasesOn(f) = {}
        BY DEF EntryCountsLeases
      <4> HIDE DEF IInv, e
      <4> QED
        BY <3>1, <3>2, <4>1, <4>2
  <2> QED
    BY <2>1, <2>2
<1>16. LeaseOnOwnEntry'
  BY <1>4, <1>7 DEF LeaseOnOwnEntry
<1>17. LeaseKeepsRuntime'
  <2> SUFFICES ASSUME NEW p \in Ops, Held(p)'
               PROVE  /\ runtime_active' # None
                      /\ runtime'[p] = runtime_active'
                      /\ entry'[p] \in Entries'
    BY DEF LeaseKeepsRuntime
  <2>1. Held(p) /\ entry'[p] = entry[p] /\ runtime'[p] = runtime[p]
    BY <1>4, <1>7
  <2>2. p \in LeasesOn(entry[p])'
    BY <2>1 DEF LeasesOn
  <2>3. entry[p] \in Entries'
    <3>1. CASE entry[p] = e /\ active_operations[e] - 1 = 0
      BY <1>4, <1>11, <2>1, <2>2, <3>1
    <3>2. CASE entry[p] # e \/ active_operations[e] - 1 # 0
      BY <1>5, <2>1, <3>2 DEF LeaseKeepsRuntime, Entries
    <3> QED
      BY <3>1, <3>2
  <2>4. runtime_active' = runtime_active
    BY <1>6, <2>3, RetireKeepsLeased DEF Entries
  <2> QED
    BY <2>1, <2>3, <2>4 DEF LeaseKeepsRuntime
<1>18. HoldShape' /\ RuntimeHasOneHolder'
  BY <1>4, <1>6, RetireKeepsHolders DEF jsVars
<1> QED
  BY <1>12, <1>13, <1>14, <1>15, <1>16, <1>17, <1>18

\* Steps of the pool workers and of the reaper leave the registry alone.
LEMMA WorkerAndReaperInvariant ==
  ASSUME IInv, (\E o \in Ops : WorkerReturns(o)) \/ ReaperScan \/ ReaperDestroys
  PROVE  IInv'
<1> USE DEF IInv
<1>1. UNCHANGED <<envVars, lists, runtime_active, jsVars, opVars>>
  BY DEF WorkerReturns, ReaperScan, ReaperDestroys, retirement
<1>2. TypeOK'
  BY DEF TypeOK, HoldShape, WorkerReturns, ReaperScan, ReaperDestroys, retirement, envVars,
         lists, jsVars, opVars
<1>3. AliveApart' /\ HeadAlive' /\ ClosingGone' /\ AcquireShape'
  BY <1>1 DEF AliveApart, HeadAlive, ClosingGone, AcquireShape, envVars, lists, jsVars, opVars
<1>4. EntryCountsLeases' /\ LeaseOnOwnEntry' /\ LeaseKeepsRuntime'
  BY <1>1 DEF EntryCountsLeases, LeaseOnOwnEntry, LeaseKeepsRuntime, LeasesOn, Entries, Held,
              lists, opVars
<1>5. HoldShape' /\ RuntimeHasOneHolder'
  BY RegistryAssumption DEF TypeOK, HoldShape, RuntimeHasOneHolder, WorkerReturns, ReaperScan,
     ReaperDestroys, retirement, jsVars
<1> QED
  BY <1>2, <1>3, <1>4, <1>5

LEMMA NextInvariant == IInv /\ [Next]_vars => IInv'
<1> SUFFICES ASSUME IInv, [Next]_vars PROVE IInv'
  OBVIOUS
<1>1. CASE UNCHANGED vars
  BY <1>1 DEF IInv, TypeOK, AliveApart, HeadAlive, ClosingGone, AcquireShape, EntryCountsLeases,
              LeaseOnOwnEntry, LeaseKeepsRuntime, HoldShape, RuntimeHasOneHolder, LeasesOn,
              Entries, Held, findRuntimeEnv, vars, envVars, lists, retirement, jsVars, opVars
<1>2. ASSUME NEW e \in Envs, \/ \E a \in Addrs : EnvCreated(e, a)
                             \/ EnvGoneUnhooked(e) \/ CleanupHook(e)
                             \/ \E o \in Ops : AcquireBegin(e, o)
      PROVE  IInv'
  BY <1>2, EnvCreatedInvariant, EnvGoneUnhookedInvariant, CleanupHookInvariant,
      AcquireBeginInvariant
<1>3. ASSUME NEW e \in Envs, Acquire(e) PROVE IInv'
  BY <1>3, AcquireDestroysInvariant, AcquireRefusedInvariant, AcquireNoStorageInvariant,
     AcquireGrantedInvariant DEF Acquire
<1>4. ASSUME NEW o \in Ops, Release(o) PROVE IInv'
  BY <1>4, ReleaseInvariant
<1>5. CASE (\E o \in Ops : WorkerReturns(o)) \/ ReaperScan \/ ReaperDestroys
  BY <1>5, WorkerAndReaperInvariant
<1> QED
  BY <1>1, <1>2, <1>3, <1>4, <1>5 DEF Next

-----------------------------------------------------------------------------
LEMMA InvariantHolds == Spec => []IInv
BY InitInvariant, NextInvariant, PTL DEF Spec

THEOREM TypeCorrect == Spec => []TypeOK
<1>1. IInv => TypeOK
  BY DEF IInv
<1> QED
  BY <1>1, InvariantHolds, PTL

\* The runtime an operation was given stays live, and its entry allocated,
\* until the operation releases its lease - whatever environments are torn
\* down, whatever addresses are reused, whoever retires a runtime meanwhile.
THEOREM LeaseSafe == Spec => [](LeaseKeepsRuntime /\ LeaseOnOwnEntry)
<1>1. IInv => LeaseKeepsRuntime /\ LeaseOnOwnEntry
  BY DEF IInv
<1> QED
  BY <1>1, InvariantHolds, PTL

\* Entries count their leases exactly and live entries are never mistaken for
\* those of dead environments.
THEOREM RegistryExact == Spec => [](EntryCountsLeases /\ LiveEntriesAreLive)
<1>1. IInv => EntryCountsLeases /\ LiveEntriesAreLive
  BY DEF IInv, TypeOK, LiveEntriesAreLive, findRuntimeEnv, HeadAlive, AliveApart
<1> QED
  BY <1>1, InvariantHolds, PTL

\* No two threads ever destroy the same runtime.
THEOREM RuntimeDestroyedOnce == Spec => []RuntimeHasOneHolder
<1>1. IInv => RuntimeHasOneHolder
  BY DEF IInv
<1> QED
  BY <1>1, InvariantHolds, PTL

-----------------------------------------------------------------------------
(* The live runtime has an owner.                                          *)

\* A closed entry is kept only while leases are left on it.
ClosingDrains == \A e \in closing : active_operations[e] # 0

\* A list that is not empty names an owner: an entry of a live environment, or
\* one that is drained by an operation which still holds its lease.
LEMMA ListsHaveOwner ==
  ASSUME IInv, ClosingDrains, head # {} \/ closing # {}
  PROVE  head # {} \/ \E o \in Ops : Held(o)
<1> SUFFICES ASSUME closing # {} PROVE \E o \in Ops : Held(o)
  OBVIOUS
<1>1. PICK e \in closing : active_operations[e] # 0
  BY DEF ClosingDrains
<1>2. Cardinality(LeasesOn(e)) # 0
  BY <1>1 DEF IInv, TypeOK, EntryCountsLeases, Entries
<1>3. LeasesOn(e) # {}
  BY <1>2, FS_EmptySet
<1> QED
  BY <1>3 DEF LeasesOn

\* Closing, draining and freeing an entry.
LEMMA ClosingStep ==
  ASSUME IInv, ClosingDrains, [Next]_vars
  PROVE  ClosingDrains'
<1> USE DEF IInv, ClosingDrains
<1>1. CASE UNCHANGED <<closing, active_operations>>
  BY <1>1
<1>2. ASSUME NEW e \in Envs, CleanupHook(e) PROVE ClosingDrains'
  BY <1>2 DEF CleanupHook, closeRuntimeEnv, destroyRuntimeEnv
<1>3. ASSUME NEW e \in Envs, AcquireNoStorage(e) PROVE ClosingDrains'
  <2>1. e \notin closing /\ closing' = closing
    BY <1>3 DEF AcquireNoStorage, AcquireShape, ClosingGone
  <2> QED
    BY <1>3, <2>1 DEF AcquireNoStorage, TypeOK
<1>4. ASSUME NEW e \in Envs, AcquireGranted(e) PROVE ClosingDrains'
  <2>1. envState[e] = "alive" /\ closing' = closing
    BY <1>4 DEF AcquireGranted, AcquireShape
  <2>2. e \notin closing
    BY <2>1 DEF ClosingGone
  <2>3. \/ active_operations' = [active_operations EXCEPT ![e] = @ + 1]
        \/ active_operations' = [active_operations EXCEPT ![e] = 1]
    BY <1>4, <2>1, FoundIsOwn DEF AcquireGranted
  <2> QED
    BY <2>1, <2>2, <2>3 DEF TypeOK
<1>5. ASSUME NEW o \in Ops, Release(o) PROVE ClosingDrains'
  <2> DEFINE e == entry[o]
             left == IF active_operations[e] > 0 THEN active_operations[e] - 1 ELSE 0
  <2>1. /\ active_operations' = [active_operations EXCEPT ![e] = left]
        /\ \/ left = 0 /\ closing' = closing \ {e}
           \/ (left # 0 \/ e \notin closing) /\ closing' = closing
    BY <1>5 DEF Release, leaseEntry, destroyRuntimeEnv
  <2> HIDE DEF left, e
  <2> QED
    BY <2>1 DEF TypeOK
<1>6. CASE UNCHANGED vars
  BY <1>1, <1>6 DEF vars, lists
<1>7. ASSUME NEW e \in Envs, \/ \E a \in Addrs : EnvCreated(e, a)
                             \/ EnvGoneUnhooked(e)
                             \/ \E o \in Ops : AcquireBegin(e, o)
                             \/ AcquireDestroys(e) \/ AcquireRefused(e)
      PROVE  UNCHANGED <<closing, active_operations>>
  BY <1>7 DEF EnvCreated, EnvGoneUnhooked, AcquireBegin, AcquireDestroys, AcquireRefused, lists
<1>8. ASSUME (\E o \in Ops : WorkerReturns(o)) \/ ReaperScan \/ ReaperDestroys
      PROVE  UNCHANGED <<closing, active_operations>>
  BY <1>8 DEF WorkerReturns, ReaperScan, ReaperDestroys, lists
<1> HIDE DEF IInv, ClosingDrains
<1> QED
  BY <1>1, <1>2, <1>3, <1>4, <1>5, <1>6, <1>7, <1>8 DEF Next, Acquire

\* Whoever empties the lists retires the runtime in the same critical section.
LEMMA OwnerStep ==
  ASSUME IInv, IInv', ClosingDrains', ActiveRuntimeHasOwner, [Next]_vars
  PROVE  ActiveRuntimeHasOwner'
<1> USE DEF IInv
<1>1. ASSUME maybeRetireRuntime(head', closing') PROVE ActiveRuntimeHasOwner'
  <2>1. runtime_active' # None => head' # {} \/ closing' # {}
    BY <1>1 DEF maybeRetireRuntime, retirement
  <2>2. (head # {} \/ closing # {} => head # {} \/ \E o \in Ops : Held(o))'
    BY ListsHaveOwner, PTL
  <2> QED
    BY <2>1, <2>2 DEF ActiveRuntimeHasOwner
<1>2. ASSUME NEW e \in Envs, AcquireGranted(e) PROVE ActiveRuntimeHasOwner'
  <2>1. jsOp[e] \in Ops /\ lease'[jsOp[e]] = "held"
    BY <1>2 DEF AcquireGranted, AcquireShape, TypeOK
  <2> QED
    BY <2>1 DEF ActiveRuntimeHasOwner, Held
<1>3. ASSUME runtime_active' = runtime_active, head \subseteq head',
             \A o \in Ops : Held(o) => Held(o)'
      PROVE  ActiveRuntimeHasOwner'
  BY <1>3 DEF ActiveRuntimeHasOwner
<1>4. ASSUME NEW e \in Envs, \/ \E a \in Addrs : EnvCreated(e, a)
                             \/ EnvGoneUnhooked(e)
                             \/ AcquireDestroys(e)
      PROVE  ActiveRuntimeHasOwner'
  BY <1>3, <1>4 DEF EnvCreated, EnvGoneUnhooked, AcquireDestroys, lists, retirement, opVars, Held
<1>5. ASSUME NEW e \in Envs, NEW o \in Ops, AcquireBegin(e, o) PROVE ActiveRuntimeHasOwner'
  BY <1>3, <1>5 DEF AcquireBegin, lists, Held, TypeOK
<1>6. ASSUME NEW e \in Envs, AcquireRefused(e) \/ AcquireNoStorage(e)
      PROVE  ActiveRuntimeHasOwner'
  <2>1. lease[jsOp[e]] = "acquiring" /\ lease' = [lease EXCEPT ![jsOp[e]] = "refused"]
    BY <1>6 DEF AcquireRefused, AcquireNoStorage, AcquireShape
  <2>2. \A o \in Ops : Held(o) => Held(o)'
    BY <2>1 DEF Held, TypeOK
  <2>3. runtime_active' = runtime_active /\ head \subseteq head'
    BY <1>6 DEF AcquireRefused, AcquireNoStorage, lists, retirement
  <2> QED
    BY <1>3, <2>2, <2>3
<1>7. CASE (\E o \in Ops : WorkerReturns(o)) \/ ReaperScan \/ ReaperDestroys
  BY <1>3, <1>7 DEF WorkerReturns, ReaperScan, ReaperDestroys, lists, retirement, opVars, Held
<1>8. CASE UNCHANGED vars
  BY <1>3, <1>8 DEF vars, lists, retirement, opVars, Held
<1> HIDE DEF IInv
<1> QED
  BY <1>1, <1>2, <1>4, <1>5, <1>6, <1>7, <1>8 DEF Next, Acquire, CleanupHook, Release

\* The lists hold what their owners need, and the live runtime has an owner: it
\* is retired with the last entry, not kept for environments that are gone.
THEOREM EntriesAreExact == Spec => []EntriesExact
<1> DEFINE Inv == IInv /\ ClosingDrains /\ ActiveRuntimeHasOwner
<1>1. Init => Inv
  BY InitInvariant DEF Init, ClosingDrains, ActiveRuntimeHasOwner
<1>2. Inv /\ [Next]_vars => Inv'
  BY NextInvariant, ClosingStep, OwnerStep
<1>3. Inv => EntriesExact
  BY DEF IInv, TypeOK, EntriesExact, LiveEntriesAreLive, findRuntimeEnv, HeadAlive, AliveApart
<1> QED
  BY <1>1, <1>2, <1>3, PTL DEF Spec

-----------------------------------------------------------------------------
(* No runtime is lost, and none is freed under a worker.                   *)

\* A pool worker that has not returned still has its runtime.
WorkersHaveRuntime == \A o \in working : runtime[o] \in Runtimes \ destroyed

\* A runtime that operations were given is live, retired, in the hands of the
\* thread that destroys it, or destroyed.
RuntimesAreKept ==
  \A o \in Ops : runtime[o] # None =>
    \/ runtime[o] \in {runtime_active, reaperHolds} \cup runtime_retiring \cup destroyed
    \/ \E e \in Envs : jsHolds[e] = runtime[o]

\* Every step that takes a runtime away from a holder gives it to another one.
LEMMA KeptStep ==
  ASSUME IInv, RuntimesAreKept, [Next]_vars
  PROVE  RuntimesAreKept'
<1> USE DEF IInv, TypeOK, RuntimesAreKept
<1>1. ASSUME UNCHANGED <<runtime, destroyed, reaperHolds, jsHolds>>, maybeRetireRuntime(head', closing')
      PROVE  RuntimesAreKept'
  BY <1>1 DEF maybeRetireRuntime, retirement
<1>2. ASSUME UNCHANGED <<runtime, retirement, destroyed, reaperHolds, jsHolds>> PROVE RuntimesAreKept'
  BY <1>2 DEF retirement
<1>3. ASSUME NEW e \in Envs, CleanupHook(e) PROVE RuntimesAreKept'
  BY <1>1, <1>3 DEF CleanupHook, jsVars, opVars
<1>4. ASSUME NEW e \in Envs, NEW o \in Ops, AcquireBegin(e, o) PROVE RuntimesAreKept'
  <2>1. CASE UNCHANGED <<runtime_retiring, jsHolds>>
    BY <1>4, <2>1 DEF AcquireBegin
  <2>2. CASE js' = [js EXCEPT ![e] = "destroy"]
    <3>1. PICK r \in runtime_retiring :
            /\ runtime_retiring' = runtime_retiring \ {r}
            /\ jsHolds' = [jsHolds EXCEPT ![e] = r]
      BY <1>4, <2>2 DEF AcquireBegin
    <3>2. jsHolds[e] = None /\ UNCHANGED <<runtime, runtime_active, reaperHolds, destroyed>>
      BY <1>4 DEF AcquireBegin, HoldShape
    <3> QED
      BY <3>1, <3>2
  <2> QED
    BY <1>4, <2>1, <2>2 DEF AcquireBegin
<1>5. ASSUME NEW e \in Envs, AcquireDestroys(e) PROVE RuntimesAreKept'
  BY <1>5 DEF AcquireDestroys, retirement, opVars
<1>6. ASSUME NEW e \in Envs, AcquireGranted(e) PROVE RuntimesAreKept'
  <2>1. PICK r \in Runtimes : /\ runtime_active = None \/ r = runtime_active
                             /\ runtime_active' = r
                             /\ runtime' = [runtime EXCEPT ![jsOp[e]] = r]
    BY <1>6 DEF AcquireGranted
  <2>2. UNCHANGED <<runtime_retiring, reaperHolds, jsHolds, destroyed>>
    BY <1>6 DEF AcquireGranted
  <2> QED
    BY <2>1, <2>2
<1>7. ASSUME NEW o \in Ops, Release(o) PROVE RuntimesAreKept'
  BY <1>1, <1>7 DEF Release, jsVars
<1>8. CASE ReaperScan
  BY <1>8 DEF ReaperScan, HoldShape, jsVars, opVars
<1>9. CASE ReaperDestroys
  BY <1>9 DEF ReaperDestroys, jsVars, opVars
<1>10. CASE \E e \in Envs : \/ \E a \in Addrs : EnvCreated(e, a)
                            \/ EnvGoneUnhooked(e) \/ AcquireRefused(e) \/ AcquireNoStorage(e)
  BY <1>2, <1>10 DEF EnvCreated, EnvGoneUnhooked, AcquireRefused, AcquireNoStorage, jsVars, opVars
<1>11. CASE UNCHANGED vars \/ \E o \in Ops : WorkerReturns(o)
  BY <1>2, <1>11 DEF vars, WorkerReturns, jsVars, opVars
<1> HIDE DEF IInv, TypeOK, RuntimesAreKept
<1> QED
  BY <1>3, <1>4, <1>5, <1>6, <1>7, <1>8, <1>9, <1>10, <1>11 DEF Next, Acquire

\* A runtime is destroyed after its workers were joined, and starts no worker then.
LEMMA WorkersStep ==
  ASSUME IInv, WorkersHaveRuntime, [Next]_vars
  PROVE  WorkersHaveRuntime'
<1> USE DEF IInv, TypeOK, WorkersHaveRuntime
<1>1. ASSUME UNCHANGED <<runtime, destroyed>>, working' \subseteq working PROVE WorkersHaveRuntime'
  BY <1>1
<1>2. ASSUME NEW e \in Envs, AcquireDestroys(e) PROVE WorkersHaveRuntime'
  BY <1>2 DEF AcquireDestroys, Joined, opVars
<1>3. CASE ReaperDestroys
  BY <1>3 DEF ReaperDestroys, Joined, opVars
<1>4. ASSUME NEW e \in Envs, AcquireGranted(e) PROVE WorkersHaveRuntime'
  <2>1. PICK r \in Runtimes : /\ IF runtime_active = None THEN Unused(r) ELSE r = runtime_active
                             /\ runtime' = [runtime EXCEPT ![jsOp[e]] = r]
    BY <1>4 DEF AcquireGranted
  <2>2. r \notin destroyed
    BY <2>1 DEF Unused, RuntimeHasOneHolder
  <2>3. jsOp[e] \in Ops /\ working' = working \cup {jsOp[e]} /\ destroyed' = destroyed
    BY <1>4 DEF AcquireGranted, AcquireShape
  <2> QED
    BY <2>1, <2>2, <2>3
<1>5. CASE \E e \in Envs : \/ \E a \in Addrs : EnvCreated(e, a)
                           \/ EnvGoneUnhooked(e) \/ CleanupHook(e) \/ AcquireRefused(e) \/ AcquireNoStorage(e)
                           \/ \E o \in Ops : AcquireBegin(e, o)
  BY <1>1, <1>5 DEF EnvCreated, EnvGoneUnhooked, CleanupHook, AcquireRefused, AcquireNoStorage, AcquireBegin, opVars
<1>6. CASE UNCHANGED vars \/ ReaperScan \/ \E o \in Ops : WorkerReturns(o) \/ Release(o)
  BY <1>1, <1>6 DEF vars, ReaperScan, WorkerReturns, Release, opVars
<1> HIDE DEF IInv, TypeOK, WorkersHaveRuntime
<1> QED
  BY <1>2, <1>3, <1>4, <1>5, <1>6 DEF Next, Acquire

\* No runtime is lost - the safety half of RetiredIsDestroyed - and none is freed
\* under one of its pool workers, which may be the one that retired it.
THEOREM NoRuntimeLost == Spec => [](RuntimesAreKept /\ WorkersHaveRuntime)
<1> DEFINE Inv == IInv /\ RuntimesAreKept /\ WorkersHaveRuntime
<1>1. Init => Inv
  BY InitInvariant DEF Init, RuntimesAreKept, WorkersHaveRuntime
<1>2. Inv /\ [Next]_vars => Inv'
  BY NextInvariant, KeptStep, WorkersStep
<1> QED
  BY <1>1, <1>2, PTL DEF Spec

=============================================================================
