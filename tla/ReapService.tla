---------------------------- MODULE ReapService ----------------------------
(***************************************************************************)
(* The shared reaper of src/src/napi/async.zig: a FIFO of caller-owned     *)
(* nodes, and helper threads started on demand, at most MaxWorkers of them *)
(* counted in `workers`.  A node is one blocking cleanup.  Every critical  *)
(* section under the spin lock is one step; a failed or delayed            *)
(* std.Thread.spawn happens outside the lock and is a step of its own.     *)
(*                                                                         *)
(* A submit starts at most one thread, so the thread that node n's submit  *)
(* starts is called n as well.                                             *)
(***************************************************************************)
EXTENDS Integers, Sequences, FiniteSets

CONSTANTS Nodes,          \* work items; each is submitted once by its owner
          NoNode,         \* no work item
          MaxWorkers,     \* max_workers
          SpawnMayFail    \* whether std.Thread.spawn can report an error

ASSUME ReapAssumption ==
  /\ IsFiniteSet(Nodes)
  /\ NoNode \notin Nodes
  /\ MaxWorkers \in Nat \ {0}
  /\ SpawnMayFail \in BOOLEAN

VARIABLES queue,      \* head/tail list of queued nodes
          workers,    \* the counter `workers`
          submitter,  \* [Nodes -> state of the submit call for the node]
          thread,     \* [Nodes -> state of the helper thread of that submit]
          current,    \* [Nodes -> node a helper thread is running]
          finished    \* nodes whose `run` returned

vars == <<queue, workers, submitter, thread, current, finished>>

Init ==
  /\ queue = <<>>
  /\ workers = 0
  /\ submitter = [n \in Nodes |-> "idle"]
  /\ thread = [n \in Nodes |-> "none"]
  /\ current = [n \in Nodes |-> NoNode]
  /\ finished = {}

-----------------------------------------------------------------------------
pending == Len(queue)

\* Mutation of NeedWorker: the cap is forgotten.
NeedWorkerUncapped(newPending) == workers = 0 \/ newPending > workers

\* The test of submit, on the counters after the node was linked.
NeedWorker(newPending) ==
  /\ workers < MaxWorkers
  /\ workers = 0 \/ newPending > workers

\* submit, up to the unlock: link the node and claim a worker slot if needed.
Submit(n) ==
  /\ submitter[n] = "idle"
  /\ queue' = Append(queue, n)
  /\ \/ /\ NeedWorker(pending + 1)
        /\ workers' = workers + 1
        /\ submitter' = [submitter EXCEPT ![n] = "spawning"]
     \/ /\ ~NeedWorker(pending + 1)
        /\ submitter' = [submitter EXCEPT ![n] = "returned"]
        /\ UNCHANGED workers
  /\ UNCHANGED <<thread, current, finished>>

\* std.Thread.spawn succeeded; the thread is detached.
SpawnOk(n) ==
  /\ submitter[n] = "spawning"
  /\ submitter' = [submitter EXCEPT ![n] = "returned"]
  /\ thread' = [thread EXCEPT ![n] = "pop"]
  /\ UNCHANGED <<queue, workers, current, finished>>

\* Mutation of SpawnFailed: the claimed slot is not given back.
SpawnFailedKeepsSlot(n) ==
  /\ SpawnMayFail
  /\ submitter[n] = "spawning"
  /\ submitter' = [submitter EXCEPT ![n] = "failed"]
  /\ UNCHANGED <<queue, workers, thread, current, finished>>

\* Mutation of SpawnFailed: the slot is given back twice.
SpawnFailedTwice(n) ==
  /\ SpawnMayFail
  /\ submitter[n] = "spawning"
  /\ submitter' = [submitter EXCEPT ![n] = "failed"]
  /\ workers' = workers - 2
  /\ UNCHANGED <<queue, thread, current, finished>>

\* std.Thread.spawn failed: give the slot back, leave the node queued.
SpawnFailed(n) ==
  /\ SpawnMayFail
  /\ submitter[n] = "spawning"
  /\ submitter' = [submitter EXCEPT ![n] = "failed"]
  /\ workers' = workers - 1
  /\ UNCHANGED <<queue, thread, current, finished>>

Pop(t) ==
  /\ thread[t] = "pop"
  /\ \/ /\ queue # <<>>
        /\ queue' = Tail(queue)
        /\ current' = [current EXCEPT ![t] = Head(queue)]
        /\ thread' = [thread EXCEPT ![t] = "run"]
     \/ /\ queue = <<>>
        /\ thread' = [thread EXCEPT ![t] = "release"]
        /\ UNCHANGED <<queue, current>>
  /\ UNCHANGED <<workers, submitter, finished>>

\* Mutation of RunReturns: a worker runs one node and leaves.
RunReturnsOnce(t) ==
  /\ thread[t] = "run"
  /\ finished' = finished \cup {current[t]}
  /\ current' = [current EXCEPT ![t] = NoNode]
  /\ thread' = [thread EXCEPT ![t] = "exited"]
  /\ workers' = workers - 1
  /\ UNCHANGED <<queue, submitter>>

\* node.run returned.
RunReturns(t) ==
  /\ thread[t] = "run"
  /\ finished' = finished \cup {current[t]}
  /\ current' = [current EXCEPT ![t] = NoNode]
  /\ thread' = [thread EXCEPT ![t] = "pop"]
  /\ UNCHANGED <<queue, workers, submitter>>

ReleaseWorker(t) ==
  /\ thread[t] = "release"
  /\ workers' = workers - 1
  /\ thread' = [thread EXCEPT ![t] = "peek"]
  /\ UNCHANGED <<queue, submitter, current, finished>>

\* Mutation of PeekHasWork: the worker exits without looking again.
PeekHasWorkSkipped(t) ==
  /\ thread[t] = "peek"
  /\ thread' = [thread EXCEPT ![t] = "exited"]
  /\ UNCHANGED <<queue, workers, submitter, current, finished>>

PeekHasWork(t) ==
  /\ thread[t] = "peek"
  /\ thread' = [thread EXCEPT ![t] = IF queue = <<>> THEN "exited" ELSE "claim"]
  /\ UNCHANGED <<queue, workers, submitter, current, finished>>

ClaimWorker(t) ==
  /\ thread[t] = "claim"
  /\ \/ /\ workers >= MaxWorkers
        /\ thread' = [thread EXCEPT ![t] = "exited"]
        /\ UNCHANGED workers
     \/ /\ workers < MaxWorkers
        /\ workers' = workers + 1
        /\ thread' = [thread EXCEPT ![t] = "pop"]
  /\ UNCHANGED <<queue, submitter, current, finished>>

reaperMain(t) ==
  \/ Pop(t)
  \/ RunReturns(t)
  \/ ReleaseWorker(t)
  \/ PeekHasWork(t)
  \/ ClaimWorker(t)

Next ==
  \E n \in Nodes : Submit(n) \/ SpawnOk(n) \/ SpawnFailed(n) \/ reaperMain(n)

Spec == Init /\ [][Next]_vars

\* A submit that began returns, helper threads keep running and the cleanups
\* they run terminate; nothing obliges an owner to submit.
Fairness ==
  \A n \in Nodes :
    /\ WF_vars(SpawnOk(n) \/ SpawnFailed(n))
    /\ WF_vars(reaperMain(n))

FairSpec == Spec /\ Fairness

-----------------------------------------------------------------------------
\* A thread that is counted in `workers`, and a submit that counted the thread
\* it is about to start.
Counted == {t \in Nodes : thread[t] \in {"pop", "run", "release"}}
Starting == {n \in Nodes : submitter[n] = "spawning"}

\* A thread that will look at the queue again before it exits.
WillLook(t) == thread[t] \in {"pop", "run", "release", "peek", "claim"}

TypeOK ==
  /\ queue \in Seq(Nodes)
  /\ workers \in Nat
  /\ submitter \in [Nodes -> {"idle", "spawning", "returned", "failed"}]
  /\ thread \in [Nodes -> {"none", "pop", "run", "release", "peek", "claim", "exited"}]
  /\ current \in [Nodes -> Nodes \cup {NoNode}]
  /\ finished \subseteq Nodes

\* `workers` counts exactly the threads that may take work and the threads
\* about to be started, whatever the order of submits, failed spawns, and
\* workers that hand their slot back and take it again.
WorkersExact == workers = Cardinality(Counted) + Cardinality(Starting)

\* "Bounded in threads": at most max_workers helper threads pop or run work.
WorkersBounded == Cardinality(Counted) <= MaxWorkers

\* "Work is never dropped": while no spawn has failed, a queued node always
\* has a thread, running or about to start, that will look at the queue again.
\* The hazard is a submit that sees a worker which has just found the queue
\* empty and therefore starts none.
NoStrandedNode ==
  \/ queue = <<>>
  \/ \E t \in Nodes : WillLook(t)
  \/ Starting # {}
  \/ \E n \in Nodes : submitter[n] = "failed"

\* "The next submit starts a worker that picks it up": when failed spawns left
\* nodes queued with nobody to run them, the next submit asks for a worker.
StrandedNodeIsRecoverable ==
  (queue # <<>> /\ Starting = {} /\ \A t \in Nodes : ~WillLook(t))
     => NeedWorker(pending + 1)

\* Every submitted cleanup runs, unless some spawn fails: no interleaving of
\* submits with a worker on its way out leaves a node behind.
SubmittedRuns ==
  \A n \in Nodes : (submitter[n] # "idle")
     ~> (n \in finished \/ \E m \in Nodes : submitter[m] = "failed")

\* Even where spawns fail, one thread that does start empties the queue.
StartedThreadDrains ==
  \A n \in Nodes : (thread[n] = "pop") ~> (queue = <<>>)

\* Both together: work is not lost while threads can be started, and a thread that
\* can be started makes up for the spawns that failed before.
QueueDrains == SubmittedRuns /\ StartedThreadDrains

\* The comment in submit: "One worker per outstanding item, capped: a worker
\* can block for a long time, so a single one would serialize unrelated
\* cleanups."  A queued node never waits behind running cleanups only, unless
\* the cap is reached or a spawn failed.
OneWorkerPerOutstandingItem ==
  \/ queue = <<>>
  \/ workers >= MaxWorkers
  \/ \E t \in Nodes : WillLook(t) /\ thread[t] # "run"
  \/ Starting # {}
  \/ \E n \in Nodes : submitter[n] = "failed"

=============================================================================
