---------------------------- MODULE WorkerCrash ----------------------------
(* How the crash of a WASI worker thread becomes known: the report in shared *)
(* memory (only the first crashing worker writes it), the loader's flag, the *)
(* addon's flag, and the error disposal rejects with.  A worker may also fail *)
(* while its script starts.  Workers and the host run in parallel on shared  *)
(* memory; the host's own steps are atomic.                                  *)
EXTENDS Naturals, FiniteSets

CONSTANTS Workers, NoWorker,
          Options,  \* options the program may have been started with
          Inline,   \* the ones that carry its code (--eval, --print, --input-type)
          Refused   \* the ones Node.js refuses for a worker

ASSUME WorkerAssumption ==
  NoWorker \notin Workers /\ Inline \subseteq Options /\ Refused \subseteq Options

VARIABLES
  flavor,   \* "node" (wasi-worker.mjs) or "browser" (wasi-worker-browser.mjs)
  pc,       \* where each worker stands
  execArgv, \* the options the worker under construction is tried with
  handler,  \* the worker's message handler is installed
  exported, \* the module exports napi_wasm_thread_crashed
  loaded,   \* workers whose message handler has an instance of the module
  trapped,  \* history: workers whose call of that export trapped
  knows,    \* the worker has the address of the addon's flag
  header,   \* report header word 0: 0 free, 1 being written, 2 published
  body,     \* whose error the report body holds
  length,   \* header word 1 is not zero
  tid,      \* header word 2
  flag,     \* __wasiThreadCrashFlag
  captured, \* __wasiAddonCrashFlag is set
  addonFlag,\* the addon's own crash word
  posted,   \* workers with a __zigNapiAddonCrashFlag message on the way
  events,   \* workers whose "error" event the host has not handled yet
  cause,    \* __wasiThreadCrashCause
  error     \* __wasiThreadCrashError: its cause and workerThreadId

report == <<header, body, length, tid>>
module == <<exported, loaded, trapped>>
vars == <<module, flavor, pc, execArgv, handler, knows, header, body, length, tid, flag, captured, addonFlag,
          posted, events, cause, error>>

Known == Workers \cup {NoWorker}

TypeOK ==
  /\ flavor \in {"node", "browser"}
  /\ pc \in [Workers -> {"unborn", "spawning", "threw", "importing", "starting",
                         "installing", "running", "claim", "write", "name", "measure",
                         "publish", "flag", "addon", "fallback", "report", "dead"}]
  /\ execArgv \subseteq Options
  /\ handler \subseteq Workers
  /\ exported \in BOOLEAN /\ loaded \subseteq Workers /\ trapped \subseteq Workers
  /\ knows \in [Workers -> BOOLEAN]
  /\ header \in 0..2 /\ body \in Known /\ length \in BOOLEAN /\ tid \in Known
  /\ flag \in BOOLEAN /\ captured \in BOOLEAN /\ addonFlag \in BOOLEAN
  /\ posted \subseteq Workers /\ events \subseteq Workers
  /\ cause \in Known
  /\ error \in [made : BOOLEAN, cause : Known, thread : Known]

Init ==
  /\ flavor \in {"node", "browser"}
  /\ exported \in BOOLEAN /\ loaded = {} /\ trapped = {}
  /\ pc = [w \in Workers |-> "unborn"]
  /\ execArgv = {} /\ handler = {} /\ knows = [w \in Workers |-> FALSE]
  /\ header = 0 /\ body = NoWorker /\ length = FALSE /\ tid = NoWorker
  /\ flag = FALSE /\ captured = FALSE /\ addonFlag = FALSE
  /\ posted = {} /\ events = {}
  /\ cause = NoWorker
  /\ error = [made |-> FALSE, cause |-> NoWorker, thread |-> NoWorker]

Goto(w, from, to) == pc[w] = from /\ pc' = [pc EXCEPT ![w] = to]

-----------------------------------------------------------------------------
(* The host starts workers and tells them where the addon's flag is.         *)

\* The host constructs a worker in one run; no other step of it comes between.
HostFree == \A w \in Workers : pc[w] # "spawning"

\* process.execArgv without the program's own code.
getWasiWorkerExecArgv(given) == given \ Inline

\* Node passes the address in workerData; a browser worker is sent a message.
onCreateWorker(w) ==
  /\ HostFree /\ Goto(w, "unborn", IF flavor = "node" THEN "spawning" ELSE "importing")
  /\ knows' = [knows EXCEPT ![w] = flavor = "node" /\ captured]
  /\ posted' = IF flavor = "browser" /\ captured THEN posted \cup {w} ELSE posted
  /\ execArgv' \in IF flavor = "node" THEN {getWasiWorkerExecArgv(given) : given \in SUBSET Options}
                   ELSE {{}}
  /\ UNCHANGED <<module, flavor, handler, report, flag, captured, addonFlag, events, cause, error>>

\* new Worker(...): refused with an error that names some of the options, it is
\* tried again without them; an error that names none of them is thrown.
createWasiWorker(w) ==
  /\ pc[w] = "spawning"
  /\ \/ /\ execArgv \cap Refused = {} /\ execArgv' = {}
        /\ pc' = [pc EXCEPT ![w] = "importing"]
     \/ \E named \in SUBSET (execArgv \cap Refused) :
          /\ named # {} /\ execArgv' = execArgv \ named /\ UNCHANGED pc
     \/ /\ execArgv \cap Refused # {} /\ execArgv' = {}
        /\ pc' = [pc EXCEPT ![w] = "threw"]
  /\ UNCHANGED <<module, flavor, handler, knows, report, flag, captured, addonFlag, posted,
                 events, cause, error>>

\* The worker's script loads the runtime.  On Node.js a failure is reported as a
\* crash before it is thrown; in the browser the import fails by itself.
LoadRuntime(w) ==
  /\ pc[w] = "importing"
  /\ \E ok \in BOOLEAN :
       pc' = [pc EXCEPT ![w] = IF ok THEN IF flavor = "node" THEN "starting" ELSE "installing"
                               ELSE IF flavor = "node" THEN "claim" ELSE "report"]
  /\ UNCHANGED <<module, flavor, execArgv, handler, knows, report, flag, captured, addonFlag, posted,
                 events, cause, error>>

\* The Node.js worker creates its context; nothing reports that it throws but
\* the "error" event.
CreateWorkerContext(w) ==
  /\ pc[w] = "starting"
  /\ \E ok \in BOOLEAN : pc' = [pc EXCEPT ![w] = IF ok THEN "installing" ELSE "report"]
  /\ UNCHANGED <<module, flavor, execArgv, handler, knows, report, flag, captured, addonFlag, posted,
                 events, cause, error>>

\* beforeReportError and onmessage are set last; messages wait until then.
InstallHandler(w) ==
  /\ Goto(w, "installing", "running") /\ handler' = handler \cup {w}
  /\ UNCHANGED <<module, flavor, execArgv, knows, report, flag, captured, addonFlag, posted, events,
                 cause, error>>

\* beforeInit: workers created earlier are sent a message.
captureWasiAddonCrashFlag ==
  /\ HostFree /\ ~captured /\ captured' = TRUE
  /\ posted' = {w \in Workers : pc[w] \notin {"unborn", "threw"}}
  /\ UNCHANGED <<module, flavor, pc, execArgv, handler, knows, report, flag, addonFlag, events, cause, error>>

\* The browser worker keeps the address; the Node worker hands the message to
\* emnapi's handler, which ignores it.
onmessage(w) ==
  /\ w \in posted /\ pc[w] = "running"
  /\ posted' = posted \ {w}
  /\ knows' = [knows EXCEPT ![w] = @ \/ flavor = "browser"]
  /\ UNCHANGED <<module, flavor, pc, execArgv, handler, report, flag, captured, addonFlag, events, cause, error>>

\* The "load" message: onLoad gives the handler its instance.  A failure is one
\* of the errors of Crash.
onLoad(w) ==
  /\ pc[w] = "running" /\ w \notin loaded
  /\ loaded' = loaded \cup {w}
  /\ UNCHANGED <<exported, trapped, flavor, pc, execArgv, handler, knows, report, flag, captured, addonFlag,
                 posted, events, cause, error>>

-----------------------------------------------------------------------------
(* A worker stops on an uncaught error: beforeReportError.                   *)

Crash(w) ==
  /\ Goto(w, "running", IF flavor = "node" THEN "claim" ELSE "addon")
  /\ UNCHANGED <<module, flavor, execArgv, handler, knows, report, flag, captured, addonFlag, posted, events,
                 cause, error>>

\* Mutant: every worker takes itself for the elected one.
ClaimByCounting(w) ==
  /\ pc[w] = "claim"
  /\ header' = header + 1 /\ pc' = [pc EXCEPT ![w] = "write"]
  /\ UNCHANGED <<module, flavor, execArgv, handler, knows, body, length, tid, flag, captured, addonFlag, posted,
                 events, cause, error>>
\* __writeCrashReport: one compare-and-swap elects the writer.
Claim(w) ==
  /\ pc[w] = "claim"
  /\ IF header = 0
     THEN header' = 1 /\ pc' = [pc EXCEPT ![w] = "write"]
     ELSE header' = header /\ pc' = [pc EXCEPT ![w] = "flag"]
  /\ UNCHANGED <<module, flavor, execArgv, handler, knows, body, length, tid, flag, captured, addonFlag, posted,
                 events, cause, error>>

\* The body may not fit, also when shortened, and encoding the error may throw,
\* which skips the name of the thread too; either way the length is 0.
WriteBody(w) ==
  /\ \/ Goto(w, "write", "name") /\ body' \in {w, body}
     \/ Goto(w, "write", "publish") /\ body' = body
  /\ UNCHANGED <<module, flavor, execArgv, handler, knows, header, length, tid, flag, captured, addonFlag, posted,
                 events, cause, error>>

NameThread(w) ==
  /\ Goto(w, "name", "measure") /\ tid' = w
  /\ UNCHANGED <<module, flavor, execArgv, handler, knows, header, body, length, flag, captured, addonFlag, posted,
                 events, cause, error>>

StoreLength(w) ==
  /\ Goto(w, "measure", "publish") /\ length' = (body = w)
  /\ UNCHANGED <<module, flavor, execArgv, handler, knows, header, body, tid, flag, captured, addonFlag, posted,
                 events, cause, error>>

PublishReport(w) ==
  /\ Goto(w, "publish", "flag") /\ header' = 2
  /\ UNCHANGED <<module, flavor, execArgv, handler, knows, body, length, tid, flag, captured, addonFlag, posted,
                 events, cause, error>>

RaiseFlag(w) ==
  /\ Goto(w, "flag", "addon") /\ flag' = TRUE
  /\ UNCHANGED <<module, flavor, execArgv, handler, knows, report, captured, addonFlag, posted, events, cause, error>>

\* Mutant: no fallback without the address.
RaiseAddonFlagOrGiveUp(w) ==
  /\ pc[w] = "addon"
  /\ addonFlag' = (addonFlag \/ knows[w])
  /\ pc' = [pc EXCEPT ![w] = "report"]
  /\ UNCHANGED <<module, flavor, execArgv, handler, knows, report, flag, captured, posted, events, cause, error>>
\* Without the address the Node worker calls into the module instead, unless
\* it never got as far as having one.
RaiseAddonFlag(w) ==
  /\ pc[w] = "addon"
  /\ addonFlag' = (addonFlag \/ knows[w])
  /\ pc' = [pc EXCEPT ![w] = IF knows[w] \/ w \notin handler \/ flavor = "browser"
                             THEN "report" ELSE "fallback"]
  /\ UNCHANGED <<module, flavor, execArgv, handler, knows, report, flag, captured, posted, events, cause, error>>

\* this.instance?.exports?.napi_wasm_thread_crashed is there to be called.
Marks(w) == exported /\ w \in loaded

\* napi_wasm_thread_crashed() raises the word itself - if there is an instance
\* by now, if it exports it, and if the call, in a module that just failed, does
\* not trap; nobody hears of any of these.
ThreadCrashedExport(w) ==
  /\ Goto(w, "fallback", "report")
  /\ \/ Marks(w) /\ addonFlag' = TRUE /\ UNCHANGED trapped
     \/ Marks(w) /\ trapped' = trapped \cup {w} /\ UNCHANGED addonFlag
     \/ ~Marks(w) /\ UNCHANGED <<addonFlag, trapped>>
  /\ UNCHANGED <<exported, loaded, flavor, execArgv, handler, knows, report, flag, captured, posted, events,
                 cause, error>>

\* The error leaves the worker as an "error" event.
ReportError(w) ==
  /\ Goto(w, "report", "dead") /\ events' = events \cup {w}
  /\ UNCHANGED <<module, flavor, execArgv, handler, knows, report, flag, captured, addonFlag, posted, cause, error>>

-----------------------------------------------------------------------------
(* The host.                                                                 *)

onError(w) ==
  /\ HostFree /\ w \in events /\ events' = events \ {w}
  /\ cause' = w /\ flag' = TRUE
  /\ UNCHANGED <<module, flavor, pc, execArgv, handler, knows, report, captured, addonFlag, posted, error>>

\* Somebody looks at the flag and builds the error, or completes it.
reportReady == header = 2 /\ length
getWasiThreadCrashError ==
  /\ HostFree /\ (flag \/ cause # NoWorker)
  /\ error' = [made   |-> TRUE,
               cause  |-> IF cause # NoWorker THEN cause
                          ELSE IF reportReady THEN body ELSE error.cause,
               thread |-> IF cause = NoWorker /\ reportReady THEN tid ELSE error.thread]
  /\ UNCHANGED <<module, flavor, pc, execArgv, handler, knows, report, flag, captured, addonFlag, posted, events, cause>>

-----------------------------------------------------------------------------

CrashSteps(w) == \/ Claim(w) \/ WriteBody(w) \/ NameThread(w) \/ StoreLength(w)
                 \/ PublishReport(w) \/ RaiseFlag(w) \/ RaiseAddonFlag(w)
                 \/ ThreadCrashedExport(w) \/ ReportError(w)

Starts(w) == LoadRuntime(w) \/ CreateWorkerContext(w) \/ InstallHandler(w)

Next == \/ captureWasiAddonCrashFlag \/ getWasiThreadCrashError
        \/ \E w \in Workers : \/ onCreateWorker(w) \/ createWasiWorker(w) \/ Starts(w)
                              \/ onmessage(w) \/ onLoad(w)
                              \/ Crash(w) \/ CrashSteps(w) \/ onError(w)

\* A synchronous run of the host ends, a crashing worker finishes its handler,
\* and the host handles its events.
Fairness == \A w \in Workers : /\ WF_vars(createWasiWorker(w)) /\ WF_vars(CrashSteps(w))
                                /\ WF_vars(onError(w))
Spec == Init /\ [][Next]_vars /\ Fairness

-----------------------------------------------------------------------------

\* The report the host reads is one worker's: until an "error" event replaces
\* the cause, the error names the thread whose error it carries.
ReportIsWhole ==
  error.thread # NoWorker /\ cause = NoWorker => error.cause = error.thread

\* Whatever becomes of a worker becomes known.  The search for options it
\* accepts ends (wasi-templates.cjs:959-979).  A crash reaches the loader, whoever
\* crashed, also while its script starts, and however the report went; and on
\* Node the addon: for certain through the address of its flag, and for a worker
\* that was started before the address was known (lines 31-48, 1707-1714) through
\* the export - if the module has it, the worker got as far as an instance, and
\* the call does not trap.
CrashIsReported ==
  \A w \in Workers :
    /\ pc[w] = "spawning" ~> pc[w] # "spawning"
    /\ pc[w] \in {"claim", "addon", "report", "dead"} ~> flag
    /\ flavor = "node" /\ pc[w] = "claim" /\ knows[w] ~> addonFlag
    /\ flavor = "node" /\ pc[w] = "claim" /\ Marks(w) ~> addonFlag \/ w \in trapped
=============================================================================
