------------------------- MODULE WorkerCrash_proofs -------------------------
(***************************************************************************)
(* Proofs about WorkerCrash: for any set of workers and of options, the    *)
(* error the loader builds from the shared report carries the error and    *)
(* the name of one and the same worker; and a crash that was reported can  *)
(* be found by the loader and, on Node.js, by the addon if there was a way *)
(* to tell it.                                                             *)
(***************************************************************************)
EXTENDS WorkerCrash, TLAPS

\* Only the worker that claimed the report writes to it, and what it has
\* written so far is its own.  The length comes last.
WriterAlone ==
  \A w \in Workers :
    /\ pc[w] \in {"write", "name", "measure", "publish"} =>
         /\ header = 1
         /\ \A v \in Workers : pc[v] \in {"write", "name", "measure", "publish"} => v = w
    /\ pc[w] \in {"write", "name", "measure"} => ~length
    /\ pc[w] = "measure" => tid = w

\* A report that has a length is one worker's.
BodyIsOfThread ==
  /\ header = 0 => ~length
  /\ length => body = tid

\* The error names a thread only after it read a published report, which does
\* not change any more.
ErrorFromReport ==
  error.thread # NoWorker =>
    /\ reportReady
    /\ error.thread = tid
    /\ cause = NoWorker => error.cause = error.thread

\* The inductive invariant.  ReportIsWhole compares two fields that are read
\* from two words of the report: that they agree rests on the election of one
\* writer, and on nobody writing after the report was published.
IInv == TypeOK /\ WriterAlone /\ BodyIsOfThread /\ ErrorFromReport

LEMMA InitInvariant == Init => IInv
<1> SUFFICES ASSUME Init PROVE IInv
  OBVIOUS
<1>1. TypeOK
  <2>1. error \in [made : BOOLEAN, cause : Known, thread : Known]
    BY DEF Init, Known
  <2>2. knows \in [Workers -> BOOLEAN]
    BY DEF Init
  <2>3. length \in BOOLEAN /\ flag \in BOOLEAN /\ captured \in BOOLEAN /\ addonFlag \in BOOLEAN
    BY DEF Init
  <2>4. header \in 0..2 /\ body \in Known /\ tid \in Known /\ cause \in Known
    BY DEF Init, Known
  <2>5. pc \in [Workers -> {"unborn"}] /\ flavor \in {"node", "browser"}
    BY DEF Init
  <2>6. execArgv \subseteq Options /\ handler \subseteq Workers /\ posted \subseteq Workers /\ events \subseteq Workers
    BY DEF Init
  <2>7. exported \in BOOLEAN /\ loaded \subseteq Workers /\ trapped \subseteq Workers
    BY DEF Init
  <2> QED
    BY <2>1, <2>2, <2>3, <2>4, <2>5, <2>6, <2>7 DEF TypeOK
<1>2. WriterAlone
  BY DEF Init, WriterAlone
<1>3. BodyIsOfThread /\ ErrorFromReport
  BY DEF Init, BodyIsOfThread, ErrorFromReport
<1> QED
  BY <1>1, <1>2, <1>3 DEF IInv

-----------------------------------------------------------------------------
(* Every action keeps the types.                                           *)

LEMMA HostTypes ==
  ASSUME TypeOK,
         \/ captureWasiAddonCrashFlag \/ getWasiThreadCrashError
         \/ \E w \in Workers : onCreateWorker(w) \/ onmessage(w) \/ onError(w) \/ onLoad(w)
  PROVE  TypeOK'
<1>1. CASE captureWasiAddonCrashFlag
  BY <1>1 DEF captureWasiAddonCrashFlag, TypeOK, Known, report, module
<1>2. CASE getWasiThreadCrashError
  <2>1. error'.made \in BOOLEAN /\ error'.cause \in Known /\ error'.thread \in Known
    BY <1>2 DEF getWasiThreadCrashError, TypeOK
  <2>2. error' = [made |-> error'.made, cause |-> error'.cause, thread |-> error'.thread]
    BY <1>2 DEF getWasiThreadCrashError
  <2>3. error' \in [made : BOOLEAN, cause : Known, thread : Known]
    BY <2>1, <2>2
  <2> QED
    BY <1>2, <2>3 DEF getWasiThreadCrashError, TypeOK, report, Known, module
<1>3. ASSUME NEW w \in Workers, onCreateWorker(w) PROVE TypeOK'
  BY <1>3 DEF onCreateWorker, Goto, getWasiWorkerExecArgv, TypeOK, Known, report, module
<1>4. ASSUME NEW w \in Workers, onmessage(w) PROVE TypeOK'
  <2>1. knows' \in [Workers -> BOOLEAN]
    <3>1. (knows[w] \/ flavor = "browser") \in BOOLEAN
      OBVIOUS
    <3> QED
      BY <1>4, <3>1 DEF onmessage, TypeOK
  <2> QED
    BY <1>4, <2>1 DEF onmessage, TypeOK, Known, report, module
<1>5. ASSUME NEW w \in Workers, onError(w) PROVE TypeOK'
  BY <1>5 DEF onError, TypeOK, Known, report, module
<1>6. ASSUME NEW w \in Workers, onLoad(w) PROVE TypeOK'
  BY <1>6 DEF onLoad, TypeOK, Known, report
<1> QED
  BY <1>1, <1>2, <1>3, <1>4, <1>5, <1>6

LEMMA WorkerTypes ==
  ASSUME TypeOK, NEW w \in Workers,
         createWasiWorker(w) \/ Starts(w) \/ Crash(w) \/ CrashSteps(w)
  PROVE  TypeOK'
<1>1. CASE createWasiWorker(w)
  BY <1>1 DEF createWasiWorker, TypeOK, Known, report, module
<1>2. CASE Starts(w)
  <2>1. CASE LoadRuntime(w)
    BY <2>1 DEF LoadRuntime, TypeOK, Known, report, module
  <2>2. CASE CreateWorkerContext(w)
    BY <2>2 DEF CreateWorkerContext, TypeOK, Known, report, module
  <2>3. CASE InstallHandler(w)
    BY <2>3 DEF InstallHandler, Goto, TypeOK, Known, report, module
  <2> QED
    BY <1>2, <2>1, <2>2, <2>3 DEF Starts
<1>3. CASE Crash(w)
  BY <1>3 DEF Crash, Goto, TypeOK, Known, report, module
<1>4. CASE Claim(w) \/ WriteBody(w) \/ NameThread(w) \/ StoreLength(w) \/ PublishReport(w)
  <2>1. CASE Claim(w)
    BY <2>1 DEF Claim, TypeOK, Known, module
  <2>2. CASE WriteBody(w)
    BY <2>2 DEF WriteBody, Goto, TypeOK, Known, module
  <2>3. CASE NameThread(w) \/ StoreLength(w)
    BY <2>3 DEF NameThread, StoreLength, Goto, TypeOK, Known, module
  <2>4. CASE PublishReport(w)
    BY <2>4 DEF PublishReport, Goto, TypeOK, Known, module
  <2> QED
    BY <1>4, <2>1, <2>2, <2>3, <2>4
<1>5. CASE RaiseFlag(w) \/ ThreadCrashedExport(w) \/ ReportError(w)
  <2>1. CASE RaiseFlag(w)
    BY <2>1 DEF RaiseFlag, Goto, TypeOK, Known, report, module
  <2>2. CASE ThreadCrashedExport(w)
    <3>1. addonFlag' \in BOOLEAN /\ trapped' \subseteq Workers
      BY <2>2 DEF ThreadCrashedExport, TypeOK
    <3>2. UNCHANGED <<exported, loaded, flavor, execArgv, handler, knows, report, flag, captured, posted, events,
                      cause, error>>
      BY <2>2 DEF ThreadCrashedExport
    <3> QED
      BY <2>2, <3>1, <3>2 DEF ThreadCrashedExport, Goto, TypeOK, Known, report
  <2>3. CASE ReportError(w)
    BY <2>3 DEF ReportError, Goto, TypeOK, Known, report, module
  <2> QED
    BY <1>5, <2>1, <2>2, <2>3
<1>6. CASE RaiseAddonFlag(w)
  <2>1. addonFlag' \in BOOLEAN
    <3>1. (addonFlag \/ knows[w]) \in BOOLEAN
      OBVIOUS
    <3> QED
      BY <1>6, <3>1 DEF RaiseAddonFlag
  <2> QED
    BY <1>6, <2>1 DEF RaiseAddonFlag, TypeOK, Known, report, module
<1> QED
  BY <1>1, <1>2, <1>3, <1>4, <1>5, <1>6 DEF CrashSteps

-----------------------------------------------------------------------------
(* The actions that leave the report alone.                                *)

\* A step that moves no worker into the report, and neither the report nor the
\* error, keeps what is known of them.
LEMMA QuietStep ==
  ASSUME IInv, UNCHANGED <<report, error>>, TypeOK',
         \A w \in Workers :
           pc'[w] \in {"write", "name", "measure", "publish"} => pc'[w] = pc[w],
         cause' # cause => cause' # NoWorker
  PROVE  IInv'
<1>1. WriterAlone'
  BY DEF IInv, WriterAlone, report
<1>2. BodyIsOfThread' /\ ErrorFromReport'
  BY DEF IInv, BodyIsOfThread, ErrorFromReport, reportReady, report
<1> QED
  BY <1>1, <1>2 DEF IInv

LEMMA HostStep ==
  ASSUME IInv,
         \/ captureWasiAddonCrashFlag \/ getWasiThreadCrashError
         \/ \E w \in Workers : onCreateWorker(w) \/ onmessage(w) \/ onError(w) \/ onLoad(w)
  PROVE  IInv'
<1>1. TypeOK'
  BY HostTypes DEF IInv
<1>2. CASE captureWasiAddonCrashFlag
  BY <1>1, <1>2, QuietStep DEF captureWasiAddonCrashFlag
<1>3. CASE getWasiThreadCrashError
  \* Both fields are taken from the report in one step.
  <2>1. WriterAlone' /\ BodyIsOfThread'
    BY <1>3 DEF getWasiThreadCrashError, report, IInv, WriterAlone, BodyIsOfThread
  <2>2. ErrorFromReport'
    BY <1>3 DEF getWasiThreadCrashError, report, IInv, TypeOK, BodyIsOfThread,
                ErrorFromReport, reportReady
  <2> QED
    BY <1>1, <2>1, <2>2 DEF IInv
<1>4. ASSUME NEW w \in Workers, onCreateWorker(w) PROVE IInv'
  <2>1. \A v \in Workers : pc'[v] \in {"write", "name", "measure", "publish"} => pc'[v] = pc[v]
    BY <1>4 DEF onCreateWorker, Goto, IInv, TypeOK
  <2> QED
    BY <1>1, <1>4, <2>1, QuietStep DEF onCreateWorker
<1>5. ASSUME NEW w \in Workers, onmessage(w) PROVE IInv'
  BY <1>1, <1>5, QuietStep DEF onmessage
<1>6. ASSUME NEW w \in Workers, onError(w) PROVE IInv'
  BY <1>1, <1>6, QuietStep, WorkerAssumption DEF onError
<1>7. ASSUME NEW w \in Workers, onLoad(w) PROVE IInv'
  BY <1>1, <1>7, QuietStep DEF onLoad
<1> QED
  BY <1>2, <1>3, <1>4, <1>5, <1>6, <1>7

LEMMA StartStep ==
  ASSUME IInv, NEW w \in Workers, createWasiWorker(w) \/ Starts(w) \/ Crash(w)
  PROVE  IInv'
<1>1. TypeOK'
  BY WorkerTypes DEF IInv
<1>2. \A v \in Workers : pc'[v] \in {"write", "name", "measure", "publish"} => pc'[v] = pc[v]
  BY DEF createWasiWorker, Starts, LoadRuntime, CreateWorkerContext, InstallHandler, Crash,
         Goto, IInv, TypeOK
<1>3. UNCHANGED <<report, error, cause>>
  BY DEF createWasiWorker, Starts, LoadRuntime, CreateWorkerContext, InstallHandler, Crash
<1> QED
  BY <1>1, <1>2, <1>3, QuietStep

-----------------------------------------------------------------------------
(* The crashing worker.                                                    *)

\* One compare-and-swap decides: whoever finds the header at 0 is alone.
LEMMA ClaimStep ==
  ASSUME IInv, NEW w \in Workers, Claim(w)
  PROVE  IInv'
<1>1. TypeOK'
  BY WorkerTypes DEF IInv, CrashSteps
<1>2. CASE header = 0
  BY <1>1, <1>2 DEF Claim, IInv, TypeOK, WriterAlone, BodyIsOfThread, ErrorFromReport,
                    reportReady
<1>3. CASE header # 0
  <2>1. UNCHANGED <<report, error, cause>>
    BY <1>3 DEF Claim, report
  <2>2. \A v \in Workers : pc'[v] \in {"write", "name", "measure", "publish"} => pc'[v] = pc[v]
    BY <1>3 DEF Claim, IInv, TypeOK
  <2> QED
    BY <1>1, <2>1, <2>2, QuietStep
<1> QED
  BY <1>2, <1>3

\* The writer fills the report while nobody else writes and nobody reads it.
LEMMA WriteStep ==
  ASSUME IInv, NEW w \in Workers,
         WriteBody(w) \/ NameThread(w) \/ StoreLength(w) \/ PublishReport(w)
  PROVE  IInv'
<1>1. TypeOK'
  BY WorkerTypes DEF IInv, CrashSteps
<1>2. pc[w] \in {"write", "name", "measure", "publish"} /\ header = 1
  BY DEF WriteBody, NameThread, StoreLength, PublishReport, Goto, IInv, WriterAlone
<1>3. ErrorFromReport'
  \* Nothing was read yet, and nothing is read now.
  BY <1>2 DEF WriteBody, NameThread, StoreLength, PublishReport, IInv, ErrorFromReport,
              reportReady
<1>4. WriterAlone'
  BY <1>2 DEF WriteBody, NameThread, StoreLength, PublishReport, Goto, IInv, TypeOK,
              WriterAlone
<1>5. BodyIsOfThread'
  BY <1>2 DEF WriteBody, NameThread, StoreLength, PublishReport, Goto, IInv, TypeOK,
              WriterAlone, BodyIsOfThread
<1> QED
  BY <1>1, <1>3, <1>4, <1>5 DEF IInv

LEMMA FlagStep ==
  ASSUME IInv, NEW w \in Workers,
         RaiseFlag(w) \/ RaiseAddonFlag(w) \/ ThreadCrashedExport(w) \/ ReportError(w)
  PROVE  IInv'
<1>1. TypeOK'
  BY WorkerTypes DEF IInv, CrashSteps
<1>2. \A v \in Workers : pc'[v] \in {"write", "name", "measure", "publish"} => pc'[v] = pc[v]
  BY DEF RaiseFlag, RaiseAddonFlag, ThreadCrashedExport, ReportError, Goto, IInv, TypeOK
<1>3. UNCHANGED <<report, error, cause>>
  BY DEF RaiseFlag, RaiseAddonFlag, ThreadCrashedExport, ReportError
<1> QED
  BY <1>1, <1>2, <1>3, QuietStep

LEMMA StepInvariant ==
  ASSUME IInv, [Next]_vars
  PROVE  IInv'
<1>1. CASE UNCHANGED vars
  BY <1>1, QuietStep DEF vars, report, module, IInv, TypeOK
<1>2. CASE captureWasiAddonCrashFlag \/ getWasiThreadCrashError
  BY <1>2, HostStep
<1>3. ASSUME NEW w \in Workers, onCreateWorker(w) \/ onmessage(w) \/ onError(w) \/ onLoad(w) PROVE IInv'
  BY <1>3, HostStep
<1>4. ASSUME NEW w \in Workers, createWasiWorker(w) \/ Starts(w) \/ Crash(w) PROVE IInv'
  BY <1>4, StartStep
<1>5. ASSUME NEW w \in Workers, CrashSteps(w) PROVE IInv'
  BY <1>5, ClaimStep, WriteStep, FlagStep DEF CrashSteps
<1> QED
  BY <1>1, <1>2, <1>3, <1>4, <1>5 DEF Next

LEMMA Invariant == Spec => []IInv
BY InitInvariant, StepInvariant, PTL DEF Spec

\* Variables keep their types.
THEOREM TypeCorrect == Spec => []TypeOK
BY Invariant, PTL DEF IInv

\* Until an "error" event replaces the cause, the error the host throws names
\* the thread whose error it carries, however many workers crash at once and
\* whenever the host looks (wasi-templates.cjs, __writeCrashReport and
\* __getWasiThreadCrashError).
THEOREM ReportWhole == Spec => []ReportIsWhole
<1>1. IInv => ReportIsWhole
  BY DEF IInv, ErrorFromReport, ReportIsWhole
<1> QED
  BY <1>1, Invariant, PTL

-----------------------------------------------------------------------------
(* What is known of a worker that is dead.                                 *)

\* A worker that is dead was noticed, or its "error" event is still to come.
\* On Node.js a worker that ran raised the addon's flag if it had its address; if
\* not, but it had an instance that exports the call, it did, or the call trapped.
CrashIsVisible ==
  \A w \in Workers : pc[w] = "dead" =>
    /\ flag \/ w \in events
    /\ flavor = "node" /\ w \in handler /\ knows[w] => addonFlag
    /\ flavor = "node" /\ Marks(w) => addonFlag \/ w \in trapped

\* Inductive: the handler exists once the worker runs, and the instance after it;
\* a worker comes to the export without the address, and one that ran comes to
\* report its error past both flags.
FlagsRaised ==
  \A w \in Workers :
    /\ pc[w] \in {"unborn", "spawning", "threw", "importing", "starting", "installing"} =>
         w \notin handler
    /\ pc[w] = "running" \/ w \in loaded => w \in handler
    /\ flavor = "node" /\ pc[w] = "fallback" => ~knows[w]
    /\ flavor = "node" /\ pc[w] \in {"report", "dead"} =>
         /\ w \in handler /\ knows[w] => addonFlag
         /\ Marks(w) => addonFlag \/ w \in trapped
    /\ pc[w] = "dead" => flag \/ w \in events

LEMMA FlagsHost ==
  ASSUME TypeOK, FlagsRaised,
         \/ captureWasiAddonCrashFlag \/ getWasiThreadCrashError
         \/ \E w \in Workers : onCreateWorker(w) \/ onmessage(w) \/ onError(w) \/ onLoad(w)
  PROVE  FlagsRaised'
<1>1. CASE captureWasiAddonCrashFlag \/ getWasiThreadCrashError
  BY <1>1 DEF captureWasiAddonCrashFlag, getWasiThreadCrashError, TypeOK, FlagsRaised, Marks, module
<1>2. ASSUME NEW w \in Workers, onCreateWorker(w) PROVE FlagsRaised'
  BY <1>2 DEF onCreateWorker, Goto, TypeOK, FlagsRaised, Marks, module
<1>3. ASSUME NEW w \in Workers, onmessage(w) \/ onError(w) \/ onLoad(w) PROVE FlagsRaised'
  BY <1>3 DEF onmessage, onError, onLoad, TypeOK, FlagsRaised, Marks, module
<1> QED
  BY <1>1, <1>2, <1>3

LEMMA FlagsWorker ==
  ASSUME TypeOK, FlagsRaised, NEW w \in Workers,
         createWasiWorker(w) \/ Starts(w) \/ Crash(w) \/ CrashSteps(w)
  PROVE  FlagsRaised'
<1>1. CASE createWasiWorker(w)
  BY <1>1 DEF createWasiWorker, TypeOK, FlagsRaised, Marks, module
<1>2. CASE LoadRuntime(w)
  BY <1>2 DEF LoadRuntime, TypeOK, FlagsRaised, Marks, module
<1>3. CASE CreateWorkerContext(w) \/ InstallHandler(w) \/ Crash(w)
  BY <1>3 DEF CreateWorkerContext, InstallHandler, Crash, Goto, TypeOK, FlagsRaised, Marks, module
<1>4. CASE Claim(w) \/ WriteBody(w) \/ NameThread(w) \/ StoreLength(w) \/ PublishReport(w)
  BY <1>4 DEF Claim, WriteBody, NameThread, StoreLength, PublishReport, Goto, TypeOK,
              FlagsRaised, Marks, module
<1>5. CASE RaiseFlag(w) \/ ThreadCrashedExport(w) \/ ReportError(w)
  BY <1>5 DEF RaiseFlag, ThreadCrashedExport, ReportError, Goto, TypeOK, FlagsRaised, Marks, module
<1>6. CASE RaiseAddonFlag(w)
  BY <1>6 DEF RaiseAddonFlag, TypeOK, FlagsRaised, Marks, module
<1> QED
  BY <1>1, <1>2, <1>3, <1>4, <1>5, <1>6 DEF Starts, CrashSteps

\* The safety half of CrashIsReported, for any number of workers.
THEOREM DeadIsVisible == Spec => []CrashIsVisible
<1>1. Init => FlagsRaised
  BY DEF Init, Marks, FlagsRaised
<1>2. TypeOK /\ FlagsRaised /\ [Next]_vars => FlagsRaised'
  <2>1. ASSUME FlagsRaised, UNCHANGED vars PROVE FlagsRaised'
    BY <2>1 DEF vars, module, Marks, FlagsRaised
  <2> QED
    BY <2>1, FlagsHost, FlagsWorker DEF Next
<1>3. FlagsRaised => CrashIsVisible
  BY DEF FlagsRaised, CrashIsVisible
<1> QED
  BY <1>1, <1>2, <1>3, TypeCorrect, PTL DEF Spec
=============================================================================
