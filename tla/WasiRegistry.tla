---------------------------- MODULE WasiRegistry ----------------------------
(* The process-wide registries of one Node.js WASI loader file: the record   *)
(* of a rollback that did not finish and the one "exit" listener.  Each      *)
(* require() that is not served from the module cache evaluates the file     *)
(* again, as a new module instance with a context of its own; the registries *)
(* are keyed by the file name and shared by all of them.                     *)
(*                                                                           *)
(* A rollback is abstracted to its outcomes; WasiBinding is its detail.      *)
EXTENDS Naturals, FiniteSets, Sequences

CONSTANTS Instances,  \* evaluations of the file
          None

ASSUME RegistryAssumption == None \notin Instances

VARIABLES
  module,   \* "unused", "live", "failed" (threw after its try block), "threw"
  context,  \* "none", "alive", "destroyed"
  retained, \* the rollback stopped short of destroying the context
  cached,   \* the module instance in require.cache
  record,   \* [owner, active]: process[rollback registry]
  error,    \* the record's error, which every require() throws until it is gone
  failures, \* ghost: rollbacks of the record that ended with cleanup errors
  runner,   \* the module instance whose promise reaction completes the rollback
  listener, \* the owner of the registered "exit" listener
  exited,
  hooks,     \* the program's own "newListener" hooks
  beforeExit \* the "beforeExit" listeners, by who registered them

report == <<error, failures>>
vars == <<module, context, retained, cached, record, report, runner, listener, exited,
          hooks, beforeExit>>

NoRecord == [owner |-> None, active |-> FALSE]

\* What a load may throw: an error with or without a cause of its own (0), or
\* something that takes no properties (a primitive, a frozen object).
Thrown(own, open) ==
  [own |-> own, open |-> open, cause |-> IF own THEN {0} ELSE {},
   cleanupErrors |-> {}, errors |-> {}]
NoError == Thrown(FALSE, FALSE)

\* The cleanup failures that can be found from an error.
Reported(e) == (e.cause \cup e.cleanupErrors \cup e.errors) \ {0}

TypeOK ==
  /\ module \in [Instances -> {"unused", "live", "failed", "threw"}]
  /\ context \in [Instances -> {"none", "alive", "destroyed"}]
  /\ retained \subseteq Instances
  /\ cached \in Instances \cup {None}
  /\ record \in [owner : Instances \cup {None}, active : BOOLEAN]
  /\ failures \in Nat
  /\ error \in [own : BOOLEAN, open : BOOLEAN, cause : SUBSET (0..failures),
                cleanupErrors : SUBSET (1..failures), errors : SUBSET (1..failures)]
  /\ runner \in Instances \cup {None}
  /\ listener \in Instances \cup {None}
  /\ exited \in BOOLEAN
  /\ hooks \in {<<>>, <<"program">>}
  /\ beforeExit \subseteq {"emnapi", "program"}

Init ==
  /\ module = [i \in Instances |-> "unused"]
  /\ context = [i \in Instances |-> "none"]
  /\ retained = {} /\ cached = None
  /\ record = NoRecord /\ runner = None /\ listener = None
  /\ error = NoError /\ failures = 0
  /\ exited = FALSE
  /\ hooks \in {<<>>, <<"program">>} /\ beforeExit = {}

-----------------------------------------------------------------------------
(* Outcomes of record.rollback(), whoever runs it.  The steps it takes on    *)
(* the context are the owner's; completing it is the runner's.               *)

\* One error stands for all that one rollback met: the only one, or an aggregate.
createCleanupError == failures + 1

\* Mutant: the cause is overwritten.
AttachAsCause(e, n) ==
  IF e.open THEN [e EXCEPT !.cause = {n}]
  ELSE [Thrown(TRUE, TRUE) EXCEPT !.errors = Reported(e) \cup {n}]
\* It becomes the cause of the error, or one of its cleanupErrors if there is a
\* cause already, or both go into a new aggregate whose cause is the error.
attachCleanupErrors(e, n) ==
  IF e.open /\ e.cause = {} THEN [e EXCEPT !.cause = {n}]
  ELSE IF e.open THEN [e EXCEPT !.cleanupErrors = @ \cup {n}]
  ELSE [Thrown(TRUE, TRUE) EXCEPT !.errors = Reported(e) \cup {n}]

\* The record is kept, with what went wrong.
KeepRecord(i) ==
  /\ record' = [owner |-> i, active |-> FALSE]
  /\ error' = attachCleanupErrors(error, createCleanupError) /\ failures' = failures + 1

ForgetRecord == record' = NoRecord /\ error' = NoError /\ failures' = 0

registerWasiExitListener(i) == listener' = IF listener = None THEN i ELSE listener

\* Mutant: the listener outlives what it reclaims.
RollbackCleanKeepsListener(i) ==
  /\ context' = [context EXCEPT ![i] = IF @ = "none" THEN "none" ELSE "destroyed"]
  /\ retained' = retained \ {i}
  /\ ForgetRecord /\ listener' = listener
\* Everything was cleaned up: the record is forgotten and the listener of the
\* file is removed.
RollbackClean(i) ==
  /\ context' = [context EXCEPT ![i] = IF @ = "none" THEN "none" ELSE "destroyed"]
  /\ retained' = retained \ {i}
  /\ ForgetRecord /\ listener' = None

\* Barrier or drain failed: context kept, listener asked for, record kept.
RollbackRetained(i) ==
  /\ context[i] = "alive"
  /\ retained' = retained \cup {i}
  /\ registerWasiExitListener(i)
  /\ KeepRecord(i)
  /\ UNCHANGED context

\* destroy() or a terminate() failed: the record is kept, nothing registered.
RollbackFailed(i) ==
  /\ \/ context' = context
     \/ context' = [context EXCEPT ![i] = IF @ = "none" THEN "none" ELSE "destroyed"]
  /\ retained' = retained \ {i}
  /\ KeepRecord(i)
  /\ UNCHANGED listener

RollbackOutcome(i) == RollbackClean(i) \/ RollbackRetained(i) \/ RollbackFailed(i)

\* The rollback starts.  One that awaits nothing has its outcome in the same
\* run, which is the case that no other step comes between.
runWasiInitializationRollback(i, by) ==
  record' = [owner |-> i, active |-> TRUE] /\ runner' = by

RollbackSettles ==
  /\ ~exited /\ runner # None
  /\ RollbackOutcome(record.owner) /\ runner' = None
  /\ UNCHANGED <<module, cached, exited, hooks, beforeExit>>

-----------------------------------------------------------------------------
(* require()                                                                 *)

\* emnapi's context constructor registers a "beforeExit" listener that the
\* loader takes off again.  It sees the registration through a "newListener"
\* hook; a hook of the program may register a listener of its own first.
captureListener == <<"capture">> \o hooks
Captured == IF Head(captureListener) = "capture" THEN "emnapi" ELSE "program"
CreateContext ==
  beforeExit' = (beforeExit \cup {"emnapi"} \cup {hooks[k] : k \in DOMAIN hooks})
                  \ {Captured}

Evaluates(i) == ~exited /\ cached = None /\ module[i] = "unused"

\* Mutant: a pending record is not looked at.
LoadsOverRecord(i) ==
  /\ Evaluates(i)
  /\ module' = [module EXCEPT ![i] = "live"]
  /\ context' = [context EXCEPT ![i] = "alive"]
  /\ cached' = i
  /\ registerWasiExitListener(i)
  /\ CreateContext
  /\ UNCHANGED <<retained, record, report, runner, exited, hooks>>
\* No pending record: instantiate, publish, register the listener.
LoadSucceeds(i) ==
  /\ Evaluates(i) /\ record = NoRecord
  /\ module' = [module EXCEPT ![i] = "live"]
  /\ context' = [context EXCEPT ![i] = "alive"]
  /\ cached' = i
  /\ registerWasiExitListener(i)
  /\ CreateContext
  /\ UNCHANGED <<retained, record, report, runner, exited, hooks>>

\* Initialization throws, before or after the context exists; the catch block
\* registers the record and runs the rollback.
LoadFails(i) ==
  /\ Evaluates(i) /\ record = NoRecord
  /\ module' = [module EXCEPT ![i] = "failed"]
  /\ \/ context' = context /\ UNCHANGED beforeExit
     \/ context' = [context EXCEPT ![i] = "alive"] /\ CreateContext
  /\ error' \in {Thrown(FALSE, TRUE), Thrown(TRUE, TRUE), Thrown(FALSE, FALSE)}
  /\ runWasiInitializationRollback(i, i)
  /\ UNCHANGED <<retained, cached, failures, listener, exited, hooks>>

\* A pending record: replay it unless it is active, then throw its error.
ReplayAndThrow(i) ==
  /\ Evaluates(i) /\ record # NoRecord
  /\ module' = [module EXCEPT ![i] = "threw"]
  /\ IF record.active THEN UNCHANGED <<record, runner>>
     ELSE runWasiInitializationRollback(record.owner, i)
  /\ UNCHANGED <<context, retained, cached, report, listener, exited, hooks, beforeExit>>

-----------------------------------------------------------------------------

\* A disposal that succeeds removes the listener of the file.
Dispose(i) ==
  /\ ~exited /\ module[i] = "live" /\ context[i] = "alive"
  /\ context' = [context EXCEPT ![i] = "destroyed"]
  /\ listener' = None
  /\ UNCHANGED <<module, retained, cached, record, report, runner, exited, hooks, beforeExit>>

\* The "exit" event: the listener tears down the context of its own instance.
Exit ==
  /\ ~exited /\ exited' = TRUE
  /\ IF listener = None THEN context' = context
     ELSE context' = [context EXCEPT ![listener] = IF @ = "alive" THEN "destroyed" ELSE @]
  /\ UNCHANGED <<module, retained, cached, record, report, runner, listener, hooks, beforeExit>>

Next == \/ \E i \in Instances : \/ LoadSucceeds(i) \/ LoadFails(i)
                                \/ ReplayAndThrow(i) \/ Dispose(i)
        \/ RollbackSettles \/ Exit

Spec == Init /\ [][Next]_vars

-----------------------------------------------------------------------------

\* A context that is still in use, or that a rollback left alive on purpose,
\* is the one the file's "exit" listener will tear down; and no listener is
\* left on the process when nothing is left to reclaim.  emnapi's own listener
\* is gone whenever a load returns, and a hook's listener is not taken for it.
ListenerIsOwners ==
  ~exited =>
    /\ beforeExit = IF \E i \in Instances : context[i] # "none"
                     THEN {hooks[k] : k \in DOMAIN hooks} ELSE {}
    /\ \A i \in Instances :
         context[i] = "alive" /\ (module[i] = "live" \/ i \in retained) => listener = i
    /\ listener # None => context[listener] = "alive" \/ record.owner = listener

\* However often the file is required, it never has two contexts at once: a
\* retained rollback is replayed, not instantiated over.
OneContextPerFile == Cardinality({i \in Instances : context[i] = "alive"}) <= 1

\* However often a rollback is replayed and fails, the error that require()
\* throws leads to every failure and to the cause it had at first.
NoFailureLost ==
  record # NoRecord => Reported(error) = 1..failures /\ (error.own => 0 \in error.cause)

\* A load that failed is not forgotten: its context is not instantiated over,
\* and what went wrong with it can be read off the error.
FailedLoadRemembered == OneContextPerFile /\ NoFailureLost
=============================================================================
