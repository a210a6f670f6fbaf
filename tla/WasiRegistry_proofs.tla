------------------------ MODULE WasiRegistry_proofs ------------------------
(***************************************************************************)
(* Proofs about WasiRegistry: for any number of module instances of one    *)
(* loader file, and however often a rollback is replayed, at most one      *)
(* context is alive, the "exit" listener is the one of its owner, and the  *)
(* error require() throws leads to every failure.                          *)
(***************************************************************************)
EXTENDS WasiRegistry, FiniteSetTheorems, TLAPS

\* A context that is alive belongs to the cached instance or to the record, and
\* there is never both.
AliveIsAccounted ==
  /\ \A i \in Instances : context[i] = "alive" => cached = i \/ record.owner = i
  /\ cached # None => record = NoRecord /\ module[cached] = "live"

\* The record is of a load that failed; while its rollback runs it has a runner.
RecordShape ==
  /\ record.owner = None => ~record.active
  /\ record.owner # None => module[record.owner] = "failed"
  /\ record.active <=> runner # None
  /\ \A i \in retained : record.owner = i
  /\ record = NoRecord => failures = 0

\* The inductive invariant.
IInv == TypeOK /\ AliveIsAccounted /\ RecordShape /\ ListenerIsOwners /\ NoFailureLost

HookListeners == {hooks[k] : k \in DOMAIN hooks}

LEMMA HookListenersType ==
  ASSUME TypeOK
  PROVE  HookListeners \subseteq {"program"}
<1>1. CASE hooks = <<>>
  BY <1>1 DEF HookListeners
<1>2. CASE hooks = <<"program">>
  BY <1>2 DEF HookListeners
<1> QED
  BY <1>1, <1>2 DEF TypeOK

LEMMA InitInvariant == Init => IInv
<1> SUFFICES ASSUME Init PROVE IInv
  OBVIOUS
<1>1. TypeOK
  <2>1. error = [own |-> FALSE, open |-> FALSE, cause |-> {}, cleanupErrors |-> {}, errors |-> {}]
    BY DEF Init, NoError, Thrown
  <2>2. error \in [own : BOOLEAN, open : BOOLEAN, cause : SUBSET (0..failures),
                   cleanupErrors : SUBSET (1..failures), errors : SUBSET (1..failures)]
    BY <2>1
  <2>3. record \in [owner : Instances \cup {None}, active : BOOLEAN]
    BY DEF Init, NoRecord
  <2> QED
    BY <2>2, <2>3 DEF Init, TypeOK
<1>2. AliveIsAccounted /\ RecordShape /\ NoFailureLost
  BY DEF Init, AliveIsAccounted, RecordShape, NoFailureLost, NoRecord
<1>3. ListenerIsOwners
  BY DEF Init, ListenerIsOwners
<1> QED
  BY <1>1, <1>2, <1>3 DEF IInv

-----------------------------------------------------------------------------
(* What an instance finds when its file is evaluated again.                *)

\* Without a record there is nothing to reclaim and no listener.
LEMMA NothingLeft ==
  ASSUME IInv, ~exited, cached = None, record = NoRecord
  PROVE  /\ \A i \in Instances : context[i] # "alive"
         /\ retained = {}
         /\ listener = None
<1>1. record.owner = None
  BY DEF NoRecord
<1>2. \A i \in Instances : context[i] # "alive"
  BY <1>1, RegistryAssumption DEF IInv, AliveIsAccounted
<1>3. retained = {}
  BY <1>1, RegistryAssumption DEF IInv, TypeOK, RecordShape
<1>4. listener = None
  BY <1>1, <1>2, RegistryAssumption DEF IInv, TypeOK, ListenerIsOwners
<1> QED
  BY <1>2, <1>3, <1>4

\* While there is a record, only its owner's context can be alive, and only the
\* owner can have the listener.
LEMMA OnlyTheOwner ==
  ASSUME IInv, record # NoRecord
  PROVE  /\ record.owner \in Instances
         /\ cached = None
         /\ \A i \in Instances : context[i] = "alive" => i = record.owner
         /\ ~exited /\ listener # None => listener = record.owner
<1>1. record.owner \in Instances
  BY DEF IInv, TypeOK, RecordShape, NoRecord
<1>2. cached = None
  BY DEF IInv, AliveIsAccounted
<1>3. \A i \in Instances : context[i] = "alive" => i = record.owner
  BY <1>2, RegistryAssumption DEF IInv, AliveIsAccounted
<1>4. ~exited /\ listener # None => listener = record.owner
  BY <1>3, RegistryAssumption DEF IInv, TypeOK, ListenerIsOwners
<1> QED
  BY <1>1, <1>2, <1>3, <1>4

\* emnapi's listener is taken off, also when a hook of the program registers
\* one of its own in between.
LEMMA ContextListener ==
  ASSUME IInv, ~exited, CreateContext
  PROVE  beforeExit' = HookListeners
<1>1. Captured = "emnapi"
  <2>1. Head(captureListener) = "capture"
    <3>1. hooks = <<>> \/ hooks = <<"program">>
      BY DEF IInv, TypeOK
    <3>2. CASE hooks = <<>>
      BY <3>2 DEF captureListener
    <3>3. CASE hooks = <<"program">>
      BY <3>3 DEF captureListener
    <3> QED
      BY <3>1, <3>2, <3>3
  <2> QED
    BY <2>1 DEF Captured
<1>2. beforeExit \in {{}, HookListeners}
  BY DEF IInv, ListenerIsOwners, HookListeners
<1>3. HookListeners \subseteq {"program"}
  BY HookListenersType DEF IInv
<1> QED
  BY <1>1, <1>2, <1>3 DEF CreateContext, HookListeners

-----------------------------------------------------------------------------
(* The error of the record.                                                *)

\* Whatever the error takes, the new failure can be found from it, and so can
\* everything it led to before.
LEMMA Attached ==
  ASSUME TypeOK, NoFailureLost, record # NoRecord,
         NEW n, n = createCleanupError
  PROVE  LET e == attachCleanupErrors(error, n)
         IN  /\ e \in [own : BOOLEAN, open : BOOLEAN, cause : SUBSET (0..n),
                       cleanupErrors : SUBSET (1..n), errors : SUBSET (1..n)]
             /\ Reported(e) = 1..n
             /\ e.own => 0 \in e.cause
<1> DEFINE e == attachCleanupErrors(error, n)
<1>1. n = failures + 1 /\ n \in Nat /\ failures \in Nat /\ n # 0
  BY DEF createCleanupError, TypeOK
<1>2. /\ 0..n = (0..failures) \cup {n}
      /\ 1..n = (1..failures) \cup {n}
  BY <1>1
<1>3. /\ error.own \in BOOLEAN /\ error.open \in BOOLEAN
      /\ error.cause \subseteq 0..failures
      /\ error.cleanupErrors \subseteq 1..failures /\ error.errors \subseteq 1..failures
  BY DEF TypeOK
<1>4. /\ (error.cause \cup error.cleanupErrors \cup error.errors) \ {0} = 1..failures
      /\ error.own => 0 \in error.cause
  BY DEF NoFailureLost, Reported
<1>5. SUFFICES /\ e.own \in BOOLEAN /\ e.open \in BOOLEAN
               /\ e.cause \subseteq 0..n /\ e.cleanupErrors \subseteq 1..n /\ e.errors \subseteq 1..n
               /\ e = [own |-> e.own, open |-> e.open, cause |-> e.cause,
                       cleanupErrors |-> e.cleanupErrors, errors |-> e.errors]
               /\ (e.cause \cup e.cleanupErrors \cup e.errors) \ {0} = 1..n
               /\ e.own => 0 \in e.cause
  <2> HIDE DEF e
  <2>1. e \in [own : BOOLEAN, open : BOOLEAN, cause : SUBSET (0..n),
               cleanupErrors : SUBSET (1..n), errors : SUBSET (1..n)]
    BY <1>5
  <2>2. Reported(e) = 1..n
    BY <1>5 DEF Reported
  <2> QED
    BY <1>5, <2>1, <2>2 DEF e
<1>6. CASE error.open /\ error.cause = {}
  <2>1. e = [own |-> error.own, open |-> error.open, cause |-> {n},
             cleanupErrors |-> error.cleanupErrors, errors |-> error.errors]
    BY <1>6 DEF attachCleanupErrors, TypeOK
  <2> HIDE DEF e
  <2>2. e.cause \subseteq 0..n /\ e.cleanupErrors \subseteq 1..n /\ e.errors \subseteq 1..n
    BY <1>1, <1>2, <1>3, <2>1
  <2>3. (e.cause \cup e.cleanupErrors \cup e.errors) \ {0} = 1..n
    BY <1>1, <1>2, <1>4, <1>6, <2>1
  <2> QED
    BY <1>3, <1>4, <1>6, <2>1, <2>2, <2>3
<1>7. CASE error.open /\ error.cause # {}
  <2>1. e = [own |-> error.own, open |-> error.open, cause |-> error.cause,
             cleanupErrors |-> error.cleanupErrors \cup {n}, errors |-> error.errors]
    BY <1>7 DEF attachCleanupErrors, TypeOK
  <2> HIDE DEF e
  <2>2. e.cause \subseteq 0..n /\ e.cleanupErrors \subseteq 1..n /\ e.errors \subseteq 1..n
    BY <1>1, <1>2, <1>3, <2>1
  <2>3. (e.cause \cup e.cleanupErrors \cup e.errors) \ {0} = 1..n
    BY <1>1, <1>2, <1>4, <2>1
  <2> QED
    BY <1>3, <1>4, <2>1, <2>2, <2>3
<1>8. CASE ~error.open
  <2>1. e = [own |-> TRUE, open |-> TRUE, cause |-> {0},
             cleanupErrors |-> {}, errors |-> (1..failures) \cup {n}]
    BY <1>4, <1>8 DEF attachCleanupErrors, Thrown, Reported
  <2> HIDE DEF e
  <2>2. e.cause \subseteq 0..n /\ e.cleanupErrors \subseteq 1..n /\ e.errors \subseteq 1..n
    BY <1>1, <1>2, <2>1
  <2>3. (e.cause \cup e.cleanupErrors \cup e.errors) \ {0} = 1..n
    BY <1>1, <1>2, <2>1
  <2> QED
    BY <2>1, <2>2, <2>3
<1> QED
  BY <1>3, <1>6, <1>7, <1>8

LEMMA RecordKept ==
  ASSUME IInv, record # NoRecord, NEW i \in Instances, KeepRecord(i)
  PROVE  /\ record'.owner = i /\ ~record'.active /\ record' # NoRecord
         /\ record' \in [owner : Instances \cup {None}, active : BOOLEAN]
         /\ failures' \in Nat
         /\ error' \in [own : BOOLEAN, open : BOOLEAN, cause : SUBSET (0..failures'),
                        cleanupErrors : SUBSET (1..failures'), errors : SUBSET (1..failures')]
         /\ NoFailureLost'
<1>1. failures' = createCleanupError /\ failures' \in Nat
  BY DEF KeepRecord, createCleanupError, IInv, TypeOK
<1>2. /\ error' \in [own : BOOLEAN, open : BOOLEAN, cause : SUBSET (0..failures'),
                     cleanupErrors : SUBSET (1..failures'), errors : SUBSET (1..failures')]
      /\ Reported(error') = 1..failures'
      /\ error'.own => 0 \in error'.cause
  BY <1>1, Attached DEF KeepRecord, IInv
<1>3. record' = [owner |-> i, active |-> FALSE]
  BY DEF KeepRecord
<1> QED
  BY <1>1, <1>2, <1>3, RegistryAssumption DEF NoFailureLost, Reported, NoRecord

LEMMA RecordForgotten ==
  ASSUME ForgetRecord
  PROVE  /\ record' = NoRecord /\ record'.owner = None /\ ~record'.active
         /\ record' \in [owner : Instances \cup {None}, active : BOOLEAN]
         /\ failures' = 0
         /\ error' \in [own : BOOLEAN, open : BOOLEAN, cause : SUBSET (0..failures'),
                        cleanupErrors : SUBSET (1..failures'), errors : SUBSET (1..failures')]
         /\ NoFailureLost'
<1>1. error' = [own |-> FALSE, open |-> FALSE, cause |-> {}, cleanupErrors |-> {}, errors |-> {}]
  BY DEF ForgetRecord, NoError, Thrown
<1> QED
  BY <1>1 DEF ForgetRecord, NoRecord, NoFailureLost

-----------------------------------------------------------------------------
(* The outcomes of a rollback.                                             *)

\* What every outcome leaves alone.
SettleFrame == UNCHANGED <<module, cached, exited, hooks, beforeExit>> /\ runner' = None

LEMMA CleanStep ==
  ASSUME IInv, ~exited, record # NoRecord, NEW i \in Instances, i = record.owner,
         RollbackClean(i), SettleFrame
  PROVE  IInv'
<1>1. /\ record' = NoRecord /\ record'.owner = None /\ ~record'.active
      /\ record' \in [owner : Instances \cup {None}, active : BOOLEAN]
      /\ failures' = 0
      /\ error' \in [own : BOOLEAN, open : BOOLEAN, cause : SUBSET (0..failures'),
                     cleanupErrors : SUBSET (1..failures'), errors : SUBSET (1..failures')]
      /\ NoFailureLost'
  BY RecordForgotten DEF RollbackClean
<1>2. \A j \in Instances : context'[j] # "alive" /\ (context'[j] = "none" <=> context[j] = "none")
  \* Nobody else's context was alive.
  BY OnlyTheOwner DEF RollbackClean, IInv, TypeOK
<1>3. TypeOK'
  BY <1>1 DEF RollbackClean, SettleFrame, IInv, TypeOK
<1>4. AliveIsAccounted'
  BY <1>2, OnlyTheOwner DEF SettleFrame, AliveIsAccounted
<1>5. retained' = {}
  BY DEF RollbackClean, IInv, TypeOK, RecordShape
<1>6. RecordShape'
  BY <1>1, <1>5 DEF SettleFrame, RecordShape
<1>7. ListenerIsOwners'
  BY <1>2 DEF RollbackClean, SettleFrame, IInv, ListenerIsOwners
<1> QED
  BY <1>1, <1>3, <1>4, <1>6, <1>7 DEF IInv

LEMMA KeepStep ==
  ASSUME IInv, ~exited, record # NoRecord, NEW i \in Instances, i = record.owner,
         RollbackRetained(i) \/ RollbackFailed(i), SettleFrame
  PROVE  IInv'
<1>1. /\ record'.owner = i /\ ~record'.active /\ record' # NoRecord
      /\ record' \in [owner : Instances \cup {None}, active : BOOLEAN]
      /\ failures' \in Nat
      /\ error' \in [own : BOOLEAN, open : BOOLEAN, cause : SUBSET (0..failures'),
                     cleanupErrors : SUBSET (1..failures'), errors : SUBSET (1..failures')]
      /\ NoFailureLost'
  BY RecordKept DEF RollbackRetained, RollbackFailed
<1>2. /\ context' \in [Instances -> {"none", "alive", "destroyed"}]
      /\ \A j \in Instances : /\ context'[j] = "alive" => j = i
                              /\ context'[j] = "none" <=> context[j] = "none"
  BY OnlyTheOwner DEF RollbackRetained, RollbackFailed, IInv, TypeOK
<1>3. /\ retained' \subseteq {i}
      /\ listener' \in {None, i}
      /\ i \in retained' => listener' = i
  <2>1. retained \subseteq {i} /\ listener \in {None, i}
    BY OnlyTheOwner DEF IInv, TypeOK, RecordShape
  <2> QED
    BY <2>1, RegistryAssumption
    DEF RollbackRetained, RollbackFailed, registerWasiExitListener
<1>4. module[i] = "failed"
  BY RegistryAssumption DEF IInv, RecordShape
<1>5. TypeOK'
  BY <1>1, <1>2, <1>3 DEF SettleFrame, IInv, TypeOK
<1>6. AliveIsAccounted'
  <2>1. cached' = None
    BY OnlyTheOwner DEF SettleFrame
  <2> QED
    <3>1. \A j \in Instances : context'[j] = "alive" => record'.owner = j
      BY <1>1, <1>2
    <3> QED
      BY <2>1, <3>1 DEF AliveIsAccounted
<1>7. RecordShape'
  BY <1>1, <1>3, <1>4, RegistryAssumption DEF SettleFrame, RecordShape
<1>8. ListenerIsOwners'
  <2>1. (\E j \in Instances : context'[j] # "none") <=> (\E j \in Instances : context[j] # "none")
    BY <1>2
  <2>2. beforeExit' = IF \E j \in Instances : context'[j] # "none" THEN HookListeners' ELSE {}
    BY <2>1 DEF SettleFrame, IInv, ListenerIsOwners, HookListeners
  <2>3. \A j \in Instances :
          context'[j] = "alive" /\ (module'[j] = "live" \/ j \in retained') => listener' = j
    <3>1. module'[i] # "live"
      BY <1>4 DEF SettleFrame
    <3> QED
      BY <1>2, <1>3, <3>1
  <2>4. listener' # None => record'.owner = listener'
    BY <1>1, <1>3
  <2> QED
    BY <2>2, <2>3, <2>4 DEF ListenerIsOwners, HookListeners
<1> QED
  BY <1>1, <1>5, <1>6, <1>7, <1>8 DEF IInv

LEMMA SettleStep ==
  ASSUME IInv, RollbackSettles
  PROVE  IInv'
<1>1. record # NoRecord /\ ~exited
  BY DEF RollbackSettles, IInv, RecordShape, NoRecord
<1>2. record.owner \in Instances
  BY <1>1, OnlyTheOwner
<1>3. SettleFrame
  BY DEF RollbackSettles, SettleFrame
<1> QED
  BY <1>1, <1>2, <1>3, CleanStep, KeepStep DEF RollbackSettles, RollbackOutcome

-----------------------------------------------------------------------------
(* require(), disposal and exit.                                           *)

LEMMA SucceedsStep ==
  ASSUME IInv, NEW i \in Instances, LoadSucceeds(i)
  PROVE  IInv'
<1>1. /\ \A j \in Instances : context[j] # "alive"
      /\ retained = {} /\ listener = None /\ ~exited
  BY NothingLeft DEF LoadSucceeds, Evaluates
<1>2. listener' = i
  BY <1>1 DEF LoadSucceeds, registerWasiExitListener
<1>3. beforeExit' = HookListeners
  BY <1>1, ContextListener DEF LoadSucceeds
<1>4. TypeOK'
  <2>1. beforeExit' \subseteq {"emnapi", "program"}
    BY <1>3, HookListenersType DEF IInv
  <2> QED
    BY <1>2, <2>1 DEF LoadSucceeds, report, IInv, TypeOK
<1>5. AliveIsAccounted'
  BY <1>1, RegistryAssumption DEF LoadSucceeds, IInv, TypeOK, AliveIsAccounted
<1>6. RecordShape'
  BY <1>1 DEF LoadSucceeds, report, NoRecord, IInv, TypeOK, RecordShape
<1>7. ListenerIsOwners'
  BY <1>1, <1>2, <1>3 DEF LoadSucceeds, IInv, TypeOK, ListenerIsOwners, HookListeners
<1>8. NoFailureLost'
  BY DEF LoadSucceeds, report, NoFailureLost
<1> QED
  BY <1>4, <1>5, <1>6, <1>7, <1>8 DEF IInv

LEMMA FailsStep ==
  ASSUME IInv, NEW i \in Instances, LoadFails(i)
  PROVE  IInv'
<1>1. /\ \A j \in Instances : context[j] # "alive"
      /\ retained = {} /\ listener = None /\ ~exited
      /\ failures = 0 /\ cached = None
  BY NothingLeft DEF LoadFails, Evaluates, IInv, RecordShape
<1>2. record' = [owner |-> i, active |-> TRUE] /\ runner' = i /\ failures' = 0
  BY <1>1 DEF LoadFails, runWasiInitializationRollback
<1>3. /\ error' \in [own : BOOLEAN, open : BOOLEAN, cause : SUBSET (0..failures'),
                     cleanupErrors : SUBSET (1..failures'), errors : SUBSET (1..failures')]
      /\ Reported(error') = {} /\ (error'.own => 0 \in error'.cause)
  <2>1. PICK own \in BOOLEAN, open \in BOOLEAN : error' = Thrown(own, open)
    BY DEF LoadFails
  <2>2. error' = [own |-> own, open |-> open, cause |-> IF own THEN {0} ELSE {},
                  cleanupErrors |-> {}, errors |-> {}]
    BY <2>1 DEF Thrown
  <2> QED
    BY <1>2, <2>2 DEF Reported
<1>4. /\ context' \in [Instances -> {"none", "alive", "destroyed"}]
      /\ \A j \in Instances : context'[j] = "alive" => j = i
  BY <1>1 DEF LoadFails, IInv, TypeOK
<1>5. beforeExit' = IF \E j \in Instances : context'[j] # "none" THEN HookListeners ELSE {}
  <2>1. CASE UNCHANGED <<context, beforeExit>>
    BY <1>1, <2>1 DEF IInv, ListenerIsOwners, HookListeners
  <2>2. CASE context' = [context EXCEPT ![i] = "alive"] /\ CreateContext
    BY <1>1, <2>2, ContextListener DEF IInv, TypeOK
  <2> QED
    BY <2>1, <2>2 DEF LoadFails
<1>6. TypeOK'
  <2>1. beforeExit' \subseteq {"emnapi", "program"}
    BY <1>5, HookListenersType DEF IInv
  <2> QED
    BY <1>2, <1>3, <1>4, <2>1 DEF LoadFails, IInv, TypeOK
<1>7. AliveIsAccounted'
  BY <1>1, <1>2, <1>4 DEF LoadFails, AliveIsAccounted
<1>8. RecordShape'
  BY <1>1, <1>2, RegistryAssumption DEF LoadFails, IInv, TypeOK, RecordShape, NoRecord
<1>9. ListenerIsOwners'
  BY <1>1, <1>4, <1>5 DEF LoadFails, IInv, TypeOK, ListenerIsOwners, HookListeners
<1>10. NoFailureLost'
  BY <1>2, <1>3 DEF NoFailureLost, Reported
<1> QED
  BY <1>6, <1>7, <1>8, <1>9, <1>10 DEF IInv

\* The record stays its owner's, whoever replays its rollback.
LEMMA ReplayStep ==
  ASSUME IInv, NEW i \in Instances, ReplayAndThrow(i)
  PROVE  IInv'
<1>1. record # NoRecord /\ record.owner \in Instances /\ ~exited /\ cached = None
  BY OnlyTheOwner DEF ReplayAndThrow, Evaluates
<1>2. /\ record' \in [owner : Instances \cup {None}, active : BOOLEAN]
      /\ record'.owner = record.owner /\ runner' \in Instances \cup {None}
      /\ record'.active /\ runner' # None
  <2>1. CASE record.active
    BY <1>1, <2>1 DEF ReplayAndThrow, IInv, TypeOK, RecordShape
  <2>2. CASE ~record.active
    <3>1. record' = [owner |-> record.owner, active |-> TRUE] /\ runner' = i
      BY <2>2 DEF ReplayAndThrow, runWasiInitializationRollback
    <3> QED
      BY <1>1, <3>1, RegistryAssumption
  <2> QED
    BY <2>1, <2>2
<1>3. record.owner # i /\ record' # NoRecord
  BY <1>1, <1>2, RegistryAssumption DEF ReplayAndThrow, Evaluates, IInv, RecordShape, NoRecord
<1>4. TypeOK'
  BY <1>2 DEF ReplayAndThrow, report, IInv, TypeOK
<1>5. AliveIsAccounted'
  BY <1>1, <1>2 DEF ReplayAndThrow, IInv, AliveIsAccounted
<1>6. RecordShape'
  BY <1>1, <1>2, <1>3, RegistryAssumption DEF ReplayAndThrow, IInv, TypeOK, RecordShape
<1>7. ListenerIsOwners'
  BY <1>2 DEF ReplayAndThrow, IInv, TypeOK, ListenerIsOwners
<1>8. NoFailureLost'
  BY <1>1 DEF ReplayAndThrow, report, IInv, NoFailureLost, Reported
<1> QED
  BY <1>4, <1>5, <1>6, <1>7, <1>8 DEF IInv

LEMMA DisposeStep ==
  ASSUME IInv, NEW i \in Instances, Dispose(i)
  PROVE  IInv'
<1>1. cached = i /\ record = NoRecord
  \* A record is of an instance whose load failed, and this one is live.
  BY RegistryAssumption DEF Dispose, IInv, AliveIsAccounted, RecordShape
<1>2. \A j \in Instances : /\ context'[j] # "alive"
                           /\ context'[j] = "none" <=> context[j] = "none"
  BY <1>1, RegistryAssumption DEF Dispose, IInv, TypeOK, AliveIsAccounted, NoRecord
<1>3. TypeOK'
  BY DEF Dispose, report, IInv, TypeOK
<1>4. AliveIsAccounted' /\ RecordShape'
  BY <1>2 DEF Dispose, report, IInv, AliveIsAccounted, RecordShape
<1>5. ListenerIsOwners'
  <2>1. (\E j \in Instances : context'[j] # "none") <=> (\E j \in Instances : context[j] # "none")
    BY <1>2
  <2>2. beforeExit' = IF \E j \in Instances : context'[j] # "none" THEN HookListeners' ELSE {}
    BY <2>1 DEF Dispose, IInv, ListenerIsOwners, HookListeners
  <2> QED
    BY <1>2, <2>2 DEF Dispose, ListenerIsOwners, HookListeners
<1>6. NoFailureLost'
  BY DEF Dispose, report, IInv, NoFailureLost
<1> QED
  BY <1>3, <1>4, <1>5, <1>6 DEF IInv

LEMMA ExitStep ==
  ASSUME IInv, Exit
  PROVE  IInv'
<1>1. /\ context' \in [Instances -> {"none", "alive", "destroyed"}]
      /\ \A j \in Instances : context'[j] = "alive" => context[j] = "alive"
  BY DEF Exit, IInv, TypeOK
<1>2. TypeOK'
  BY <1>1 DEF Exit, report, IInv, TypeOK
<1>3. AliveIsAccounted' /\ RecordShape' /\ ListenerIsOwners' /\ NoFailureLost'
  BY <1>1 DEF Exit, report, IInv, AliveIsAccounted, RecordShape, ListenerIsOwners, NoFailureLost
<1> QED
  BY <1>2, <1>3 DEF IInv

LEMMA StutterStep ==
  ASSUME IInv, UNCHANGED vars
  PROVE  IInv'
<1>1. TypeOK'
  BY DEF vars, report, IInv, TypeOK
<1>2. AliveIsAccounted' /\ RecordShape' /\ ListenerIsOwners' /\ NoFailureLost'
  BY DEF vars, report, IInv, AliveIsAccounted, RecordShape, ListenerIsOwners, NoFailureLost
<1> QED
  BY <1>1, <1>2 DEF IInv

LEMMA Invariant == Spec => []IInv
<1>1. IInv /\ [Next]_vars => IInv'
  BY SucceedsStep, FailsStep, ReplayStep, DisposeStep, SettleStep, ExitStep, StutterStep
  DEF Next
<1> QED
  BY InitInvariant, <1>1, PTL DEF Spec

\* Variables keep their types.
THEOREM TypeCorrect == Spec => []TypeOK
BY Invariant, PTL DEF IInv

\* The file's "exit" listener belongs to the context that still has to be torn
\* down, and emnapi's own "beforeExit" listener never stays (wasi-templates.cjs,
\* __registerWasiExitListener and the context creation of the loader).
THEOREM ListenerOwned == Spec => []ListenerIsOwners
BY Invariant, PTL DEF IInv

\* A failed load is not forgotten: there are never two contexts of one file, and
\* the error leads to all failures of its rollback, however often it is replayed.
THEOREM FailureRemembered == Spec => []FailedLoadRemembered
<1>1. IInv => OneContextPerFile
  <2> SUFFICES ASSUME IInv PROVE OneContextPerFile
    OBVIOUS
  <2> DEFINE alive == {i \in Instances : context[i] = "alive"}
  <2>1. \A i, j \in alive : i = j
    BY RegistryAssumption DEF IInv, TypeOK, AliveIsAccounted, NoRecord
  <2>2. CASE alive = {}
    BY <2>2, FS_EmptySet DEF OneContextPerFile
  <2>3. CASE alive # {}
    <3>1. PICK i : alive = {i}
      BY <2>1, <2>3
    <3> QED
      BY <3>1, FS_Singleton DEF OneContextPerFile
  <2> QED
    BY <2>2, <2>3
<1>2. IInv => FailedLoadRemembered
  BY <1>1 DEF IInv, FailedLoadRemembered
<1> QED
  BY <1>2, Invariant, PTL
=============================================================================
