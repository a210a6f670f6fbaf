------------------------- MODULE ReapService_proofs -------------------------
(***************************************************************************)
(* Proofs about ReapService: the worker counter is exact and bounded, no   *)
(* queued node is stranded, and none runs twice, for every finite set of   *)
(* nodes and every MaxWorkers.                                             *)
(***************************************************************************)
EXTENDS ReapService, FiniteSetTheorems, TLAPS

\* A thread exists only after the submit that starts it returned.
ThreadAfterSubmit ==
  \A n \in Nodes : submitter[n] \in {"idle", "spawning", "failed"} => thread[n] = "none"

\* A thread that runs has a node in hand.
RunningHasNode == \A t \in Nodes : thread[t] = "run" => current[t] \in Nodes

\* The inductive invariant: WorkersExact needs each submit to be counted either
\* as a start in flight or as a thread, never as both (ThreadAfterSubmit), and
\* NoStrandedNode needs the counter to explain why a claim was refused.
IInv ==
  /\ TypeOK
  /\ ThreadAfterSubmit
  /\ RunningHasNode
  /\ WorkersExact
  /\ workers <= MaxWorkers
  /\ NoStrandedNode

\* The counts of the two sets of threads are numbers.
LEMMA CountsAreFinite ==
  /\ IsFiniteSet(Counted) /\ Cardinality(Counted) \in Nat
  /\ IsFiniteSet(Starting) /\ Cardinality(Starting) \in Nat
<1>1. Counted \subseteq Nodes /\ Starting \subseteq Nodes
  BY DEF Counted, Starting
<1>2. IsFiniteSet(Counted) /\ IsFiniteSet(Starting)
  BY <1>1, ReapAssumption, FS_Subset
<1> QED
  BY <1>2, FS_CardinalityType

LEMMA InitInvariant == Init => IInv
<1> SUFFICES ASSUME Init PROVE IInv
  OBVIOUS
<1>1. Counted = {} /\ Starting = {}
  BY DEF Init, Counted, Starting
<1>2. Cardinality({}) = 0
  BY FS_EmptySet
<1> QED
  BY <1>1, <1>2, ReapAssumption
  DEF Init, IInv, TypeOK, ThreadAfterSubmit, RunningHasNode, WorkersExact, NoStrandedNode

\* submit keeps the counts: the slot it claims is the start in flight.
LEMMA SubmitInvariant ==
  ASSUME IInv, NEW n \in Nodes, Submit(n)
  PROVE  IInv'
<1> USE DEF IInv
<1>1. TypeOK'
  BY DEF TypeOK, Submit
<1>2. ThreadAfterSubmit' /\ RunningHasNode'
  BY DEF TypeOK, Submit, ThreadAfterSubmit, RunningHasNode
<1>3. Counted' = Counted
  BY DEF Submit, Counted
<1>4. n \notin Starting
  BY DEF Submit, Starting
<1>5. CASE NeedWorker(pending + 1)
  <2>1. Starting' = Starting \cup {n}
    BY <1>5 DEF Submit, Starting, TypeOK
  <2>2. Cardinality(Starting') = Cardinality(Starting) + 1
    BY <2>1, <1>4, CountsAreFinite, FS_AddElement
  <2>3. workers' = workers + 1 /\ workers < MaxWorkers
    BY <1>5 DEF Submit, NeedWorker
  <2>4. WorkersExact' /\ (workers <= MaxWorkers)'
    BY <2>2, <2>3, <1>3, CountsAreFinite, ReapAssumption DEF WorkersExact, TypeOK
  <2>5. NoStrandedNode'
    BY <2>1 DEF NoStrandedNode
  <2> QED
    BY <1>1, <1>2, <2>4, <2>5
<1>6. CASE ~NeedWorker(pending + 1)
  <2>1. Starting' = Starting /\ workers' = workers /\ thread' = thread
    BY <1>6 DEF Submit, Starting, TypeOK
  <2>2. WorkersExact' /\ (workers <= MaxWorkers)'
    BY <2>1, <1>3 DEF WorkersExact
  <2>3. workers # 0
    BY <1>6, ReapAssumption DEF NeedWorker, TypeOK
  <2>4. Counted # {} \/ Starting # {}
    BY <2>3, FS_EmptySet DEF WorkersExact
  <2>5. NoStrandedNode'
    BY <2>1, <2>4 DEF NoStrandedNode, Counted, WillLook
  <2> QED
    BY <1>1, <1>2, <2>2, <2>5
<1> QED
  BY <1>5, <1>6

\* A started thread takes over the slot of the submit that started it.
LEMMA SpawnOkInvariant ==
  ASSUME IInv, NEW n \in Nodes, SpawnOk(n)
  PROVE  IInv'
<1> USE DEF IInv
<1>1. TypeOK'
  BY DEF TypeOK, SpawnOk
<1>2. ThreadAfterSubmit' /\ RunningHasNode'
  BY DEF TypeOK, SpawnOk, ThreadAfterSubmit, RunningHasNode
<1>3. n \in Starting /\ n \notin Counted
  BY DEF SpawnOk, Starting, Counted, ThreadAfterSubmit
<1>4. Starting' = Starting \ {n} /\ Counted' = Counted \cup {n}
  BY DEF SpawnOk, Starting, Counted, TypeOK
<1>5. Cardinality(Starting') = Cardinality(Starting) - 1
  BY <1>3, <1>4, CountsAreFinite, FS_RemoveElement
<1>6. Cardinality(Counted') = Cardinality(Counted) + 1
  BY <1>3, <1>4, CountsAreFinite, FS_AddElement
<1>7. WorkersExact' /\ (workers <= MaxWorkers)'
  BY <1>5, <1>6, CountsAreFinite DEF WorkersExact, SpawnOk
<1>8. NoStrandedNode'
  BY DEF NoStrandedNode, SpawnOk, WillLook, TypeOK
<1> QED
  BY <1>1, <1>2, <1>7, <1>8

\* A failed start gives its slot back.
LEMMA SpawnFailedInvariant ==
  ASSUME IInv, NEW n \in Nodes, SpawnFailed(n)
  PROVE  IInv'
<1> USE DEF IInv
<1>1. n \in Starting /\ Starting' = Starting \ {n} /\ Counted' = Counted
  BY DEF SpawnFailed, Starting, Counted, TypeOK
<1>2. Cardinality(Starting') = Cardinality(Starting) - 1 /\ Cardinality(Starting) > 0
  <2>1. IsFiniteSet(Starting) /\ Cardinality(Starting) \in Nat
    BY CountsAreFinite
  <2>2. Cardinality(Starting') = Cardinality(Starting) - 1
    BY <1>1, <2>1, FS_RemoveElement
  <2>3. Cardinality(Starting) # 0
    BY <1>1, <2>1, FS_EmptySet
  <2> QED
    BY <2>1, <2>2, <2>3
<1>3. workers' = workers - 1 /\ workers' \in Nat
  BY <1>1, <1>2, CountsAreFinite DEF SpawnFailed, WorkersExact, TypeOK
<1>4. TypeOK'
  BY <1>3 DEF TypeOK, SpawnFailed
<1>5. ThreadAfterSubmit' /\ RunningHasNode'
  BY DEF TypeOK, SpawnFailed, ThreadAfterSubmit, RunningHasNode
<1>6. WorkersExact' /\ (workers <= MaxWorkers)'
  BY <1>1, <1>2, <1>3, CountsAreFinite, ReapAssumption DEF WorkersExact, TypeOK
<1>7. NoStrandedNode'
  BY DEF NoStrandedNode, SpawnFailed, TypeOK
<1> QED
  BY <1>4, <1>5, <1>6, <1>7

LEMMA PopInvariant ==
  ASSUME IInv, NEW t \in Nodes, Pop(t)
  PROVE  IInv'
<1> USE DEF IInv
<1>0. queue # <<>> => Head(queue) \in Nodes /\ Tail(queue) \in Seq(Nodes)
  BY DEF TypeOK
<1>1. TypeOK'
  BY <1>0 DEF TypeOK, Pop
<1>2. ThreadAfterSubmit' /\ RunningHasNode'
  BY <1>0 DEF TypeOK, Pop, ThreadAfterSubmit, RunningHasNode
<1>3. Counted' = Counted /\ Starting' = Starting /\ workers' = workers
  BY DEF Pop, Counted, Starting, TypeOK
<1>4. NoStrandedNode'
  BY DEF Pop, NoStrandedNode, WillLook, TypeOK
<1> QED
  BY <1>1, <1>2, <1>3, <1>4 DEF WorkersExact

LEMMA RunReturnsInvariant ==
  ASSUME IInv, NEW t \in Nodes, RunReturns(t)
  PROVE  IInv'
<1> USE DEF IInv
<1>1. TypeOK'
  BY ReapAssumption DEF TypeOK, RunReturns, RunningHasNode
<1>2. ThreadAfterSubmit' /\ RunningHasNode'
  BY DEF TypeOK, RunReturns, ThreadAfterSubmit, RunningHasNode
<1>3. Counted' = Counted /\ Starting' = Starting /\ workers' = workers
  BY DEF RunReturns, Counted, Starting, TypeOK
<1>4. NoStrandedNode'
  BY DEF RunReturns, NoStrandedNode, WillLook, TypeOK
<1> QED
  BY <1>1, <1>2, <1>3, <1>4 DEF WorkersExact

LEMMA ReleaseWorkerInvariant ==
  ASSUME IInv, NEW t \in Nodes, ReleaseWorker(t)
  PROVE  IInv'
<1> USE DEF IInv
<1>1. t \in Counted /\ Counted' = Counted \ {t} /\ Starting' = Starting
  BY DEF ReleaseWorker, Counted, Starting, TypeOK
<1>2. Cardinality(Counted') = Cardinality(Counted) - 1 /\ Cardinality(Counted) > 0
  BY <1>1, CountsAreFinite, FS_RemoveElement, FS_EmptySet
<1>3. workers' = workers - 1 /\ workers' \in Nat
  BY <1>1, <1>2, CountsAreFinite DEF ReleaseWorker, WorkersExact, TypeOK
<1>4. TypeOK'
  BY <1>3 DEF TypeOK, ReleaseWorker
<1>5. ThreadAfterSubmit' /\ RunningHasNode'
  BY DEF TypeOK, ReleaseWorker, ThreadAfterSubmit, RunningHasNode
<1>6. WorkersExact' /\ (workers <= MaxWorkers)'
  BY <1>1, <1>2, <1>3, CountsAreFinite, ReapAssumption DEF WorkersExact, TypeOK
<1>7. NoStrandedNode'
  BY DEF NoStrandedNode, ReleaseWorker, WillLook, TypeOK
<1> QED
  BY <1>4, <1>5, <1>6, <1>7

LEMMA PeekHasWorkInvariant ==
  ASSUME IInv, NEW t \in Nodes, PeekHasWork(t)
  PROVE  IInv'
<1> USE DEF IInv
<1>1. TypeOK'
  BY DEF TypeOK, PeekHasWork
<1>2. ThreadAfterSubmit' /\ RunningHasNode'
  BY DEF TypeOK, PeekHasWork, ThreadAfterSubmit, RunningHasNode
<1>3. Counted' = Counted /\ Starting' = Starting /\ workers' = workers
  BY DEF PeekHasWork, Counted, Starting, TypeOK
<1>4. NoStrandedNode'
  BY DEF PeekHasWork, NoStrandedNode, WillLook, TypeOK
<1> QED
  BY <1>1, <1>2, <1>3, <1>4 DEF WorkersExact

\* A refused claim leaves the queue to the workers that fill the cap.
LEMMA ClaimWorkerInvariant ==
  ASSUME IInv, NEW t \in Nodes, ClaimWorker(t)
  PROVE  IInv'
<1> USE DEF IInv
<1>1. TypeOK'
  BY DEF TypeOK, ClaimWorker
<1>2. ThreadAfterSubmit' /\ RunningHasNode'
  BY DEF TypeOK, ClaimWorker, ThreadAfterSubmit, RunningHasNode
<1>3. t \notin Counted /\ Starting' = Starting
  BY DEF ClaimWorker, Counted, Starting
<1>4. CASE workers >= MaxWorkers
  <2>1. Counted' = Counted /\ workers' = workers
    BY <1>4, ReapAssumption DEF ClaimWorker, Counted, TypeOK
  <2>2. workers # 0
    BY <1>4, ReapAssumption DEF TypeOK
  <2>3. Counted # {} \/ Starting # {}
    BY <2>2, FS_EmptySet DEF WorkersExact
  <2>4. NoStrandedNode'
    BY <2>1, <2>3, <1>3 DEF NoStrandedNode, Counted, WillLook
  <2> QED
    BY <1>1, <1>2, <1>3, <2>1, <2>4 DEF WorkersExact
<1>5. CASE workers < MaxWorkers
  <2>0. thread' = [thread EXCEPT ![t] = "pop"] /\ workers' = workers + 1
    BY <1>5, ReapAssumption DEF ClaimWorker, TypeOK
  <2>1. Counted' = Counted \cup {t} /\ workers' = workers + 1
    BY <2>0 DEF Counted, TypeOK
  <2>2. Cardinality(Counted') = Cardinality(Counted) + 1
    BY <2>1, <1>3, CountsAreFinite, FS_AddElement
  <2>3. WorkersExact' /\ (workers <= MaxWorkers)'
    BY <2>1, <2>2, <1>3, <1>5, CountsAreFinite, ReapAssumption DEF WorkersExact, TypeOK
  <2>4. NoStrandedNode'
    BY <2>1 DEF NoStrandedNode, Counted, WillLook
  <2> QED
    BY <1>1, <1>2, <2>3, <2>4
<1> QED
  BY <1>4, <1>5, ReapAssumption DEF TypeOK

LEMMA NextInvariant == IInv /\ [Next]_vars => IInv'
<1> SUFFICES ASSUME IInv, [Next]_vars PROVE IInv'
  OBVIOUS
<1>1. CASE UNCHANGED vars
  BY <1>1 DEF IInv, vars, TypeOK, ThreadAfterSubmit, RunningHasNode, WorkersExact, NoStrandedNode,
              Counted, Starting, WillLook
<1>2. ASSUME NEW n \in Nodes, Submit(n) \/ SpawnOk(n) \/ SpawnFailed(n) PROVE IInv'
  BY <1>2, SubmitInvariant, SpawnOkInvariant, SpawnFailedInvariant
<1>3. ASSUME NEW n \in Nodes, reaperMain(n) PROVE IInv'
  BY <1>3, PopInvariant, RunReturnsInvariant, ReleaseWorkerInvariant,
     PeekHasWorkInvariant, ClaimWorkerInvariant DEF reaperMain
<1> QED
  BY <1>1, <1>2, <1>3 DEF Next

\* The variables keep their types: in particular `workers` never underflows.
THEOREM TypeCorrect == Spec => []TypeOK
<1>1. IInv => TypeOK
  BY DEF IInv
<1> QED
  BY <1>1, InitInvariant, NextInvariant, PTL DEF Spec

\* The counter is exact and at most MaxWorkers threads take work.
THEOREM WorkersExactAndBounded == Spec => [](WorkersExact /\ WorkersBounded)
<1>1. IInv => WorkersExact /\ WorkersBounded
  BY CountsAreFinite, ReapAssumption DEF IInv, WorkersExact, WorkersBounded, TypeOK
<1> QED
  BY <1>1, InitInvariant, NextInvariant, PTL DEF Spec

\* While no spawn failed, a queued node has a thread that will look at it.
THEOREM NodesNotStranded == Spec => []NoStrandedNode
<1>1. IInv => NoStrandedNode
  BY DEF IInv
<1> QED
  BY <1>1, InitInvariant, NextInvariant, PTL DEF Spec

\* Nodes stranded by failed spawns are picked up by the next submit.
THEOREM StrandedNodesRecoverable == Spec => []StrandedNodeIsRecoverable
<1>1. IInv => StrandedNodeIsRecoverable
  <2> SUFFICES ASSUME IInv, Starting = {}, \A t \in Nodes : ~WillLook(t)
               PROVE  NeedWorker(pending + 1)
    BY DEF StrandedNodeIsRecoverable
  <2>1. Counted = {}
    BY DEF Counted, WillLook
  <2>2. workers = 0
    BY <2>1, FS_EmptySet DEF IInv, WorkersExact
  <2> QED
    BY <2>2, ReapAssumption DEF NeedWorker
<1> QED
  BY <1>1, InitInvariant, NextInvariant, PTL DEF Spec

-----------------------------------------------------------------------------
(* Each node runs once.                                                    *)

Queued(n) == \E i \in 1 .. Len(queue) : queue[i] = n
Runs(t, n) == thread[t] = "run" /\ current[t] = n

\* A submitted node is queued at one place, or run by one thread, or finished:
\* never in two of these states, and never in none.
EachNodeOnce ==
  /\ \A i, j \in 1 .. Len(queue) : queue[i] = queue[j] => i = j
  /\ \A n \in Nodes :
       /\ submitter[n] # "idle" <=> Queued(n) \/ n \in finished \/ \E t \in Nodes : Runs(t, n)
       /\ Queued(n) => n \notin finished /\ \A t \in Nodes : ~Runs(t, n)
       /\ n \in finished => \A t \in Nodes : ~Runs(t, n)
       /\ \A t, u \in Nodes : Runs(t, n) /\ Runs(u, n) => t = u

\* Appending a new node and taking the head off.
LEMMA QueueMoves ==
  ASSUME queue \in Seq(Nodes), \A i, j \in 1 .. Len(queue) : queue[i] = queue[j] => i = j
  PROVE  /\ \A n \in Nodes : queue' = Append(queue, n) =>
              /\ \A m \in Nodes : Queued(m)' <=> Queued(m) \/ m = n
              /\ ~Queued(n) => \A i, j \in 1 .. Len(queue') : queue'[i] = queue'[j] => i = j
         /\ queue # <<>> /\ queue' = Tail(queue) =>
              /\ Head(queue) \in Nodes /\ Queued(Head(queue))
              /\ \A m \in Nodes : Queued(m)' <=> Queued(m) /\ m # Head(queue)
              /\ \A i, j \in 1 .. Len(queue') : queue'[i] = queue'[j] => i = j
<1>1. ASSUME NEW n \in Nodes, queue' = Append(queue, n)
      PROVE  /\ \A m \in Nodes : Queued(m)' <=> Queued(m) \/ m = n
             /\ ~Queued(n) => \A i, j \in 1 .. Len(queue') : queue'[i] = queue'[j] => i = j
  <2>1. /\ Len(queue') = Len(queue) + 1 /\ Len(queue) \in Nat
        /\ \A i \in 1 .. Len(queue) : queue'[i] = queue[i]
        /\ queue'[Len(queue) + 1] = n
    BY <1>1
  <2>2. \A i \in 1 .. Len(queue') : i \in 1 .. Len(queue) \/ i = Len(queue) + 1
    BY <2>1
  <2>3. 1 .. Len(queue) \subseteq 1 .. Len(queue') /\ Len(queue) + 1 \in 1 .. Len(queue')
    BY <2>1
  <2>4. \A m \in Nodes : Queued(m)' <=> Queued(m) \/ m = n
    BY <2>1, <2>2, <2>3 DEF Queued
  <2>5. ~Queued(n) => \A i, j \in 1 .. Len(queue') : queue'[i] = queue'[j] => i = j
    BY <2>1, <2>2 DEF Queued
  <2> QED
    BY <2>4, <2>5
<1>2. ASSUME queue # <<>>, queue' = Tail(queue)
      PROVE  /\ Head(queue) \in Nodes /\ Queued(Head(queue))
             /\ \A m \in Nodes : Queued(m)' <=> Queued(m) /\ m # Head(queue)
             /\ \A i, j \in 1 .. Len(queue') : queue'[i] = queue'[j] => i = j
  <2>1. /\ Len(queue) \in Nat /\ Len(queue) >= 1 /\ Len(queue') = Len(queue) - 1
        /\ \A i \in 1 .. Len(queue') : queue'[i] = queue[i + 1]
        /\ Head(queue) = queue[1] /\ queue[1] \in Nodes
    BY <1>2
  <2>2. 1 \in 1 .. Len(queue) /\ \A i \in 1 .. Len(queue') : i + 1 \in 1 .. Len(queue) /\ i + 1 # 1
    BY <2>1
  <2>3. \A i \in 1 .. Len(queue) : i = 1 \/ (i - 1 \in 1 .. Len(queue') /\ (i - 1) + 1 = i)
    BY <2>1
  <2>4. \A m \in Nodes : Queued(m)' => Queued(m) /\ m # Head(queue)
    BY <2>1, <2>2 DEF Queued
  <2>5. ASSUME NEW m \in Nodes, Queued(m), m # Head(queue) PROVE Queued(m)'
    <3>1. PICK i \in 1 .. Len(queue) : queue[i] = m
      BY <2>5 DEF Queued
    <3>2. i # 1
      BY <2>1, <2>5, <3>1
    <3>3. i - 1 \in 1 .. Len(queue') /\ queue'[i - 1] = m
      BY <2>1, <2>3, <3>1, <3>2
    <3> QED
      BY <3>3 DEF Queued
  <2>6. ASSUME NEW i \in 1 .. Len(queue'), NEW j \in 1 .. Len(queue'), queue'[i] = queue'[j] PROVE i = j
    <3>1. i + 1 = j + 1
      BY <2>1, <2>2, <2>6
    <3> QED
      BY <2>1, <3>1
  <2> QED
    BY <2>1, <2>2, <2>4, <2>5, <2>6 DEF Queued
<1> QED
  BY <1>1, <1>2

\* submit links a node, a worker takes the head, and a run ends with its node.
LEMMA OnceStep ==
  ASSUME IInv, EachNodeOnce, [Next]_vars
  PROVE  EachNodeOnce'
<1> USE DEF IInv, TypeOK
<1>1. ASSUME NEW n \in Nodes, Submit(n) PROVE EachNodeOnce'
  <2>1. /\ queue' = Append(queue, n) /\ UNCHANGED <<thread, current, finished>>
        /\ \A m \in Nodes : submitter'[m] # "idle" <=> submitter[m] # "idle" \/ m = n
        /\ ~Queued(n) /\ n \notin finished /\ \A t \in Nodes : ~Runs(t, n)
    BY <1>1 DEF Submit, EachNodeOnce
  <2>2. /\ \A m \in Nodes : Queued(m)' <=> Queued(m) \/ m = n
        /\ \A i, j \in 1 .. Len(queue') : queue'[i] = queue'[j] => i = j
    BY <2>1, QueueMoves DEF EachNodeOnce
  <2>3. \A t, m \in Nodes : Runs(t, m)' <=> Runs(t, m)
    BY <2>1 DEF Runs
  <2> QED
    BY <2>1, <2>2, <2>3 DEF EachNodeOnce
<1>2. ASSUME NEW t \in Nodes, thread[t] = "pop", queue # <<>>, queue' = Tail(queue),
             current' = [current EXCEPT ![t] = Head(queue)], thread' = [thread EXCEPT ![t] = "run"],
             UNCHANGED <<submitter, finished>>
      PROVE  EachNodeOnce'
  <2>1. /\ Head(queue) \in Nodes /\ Queued(Head(queue))
        /\ \A m \in Nodes : Queued(m)' <=> Queued(m) /\ m # Head(queue)
        /\ \A i, j \in 1 .. Len(queue') : queue'[i] = queue'[j] => i = j
    BY <1>2, QueueMoves DEF EachNodeOnce
  <2>2. \A u, m \in Nodes : Runs(u, m)' <=> Runs(u, m) \/ (u = t /\ m = Head(queue))
    BY <1>2 DEF Runs
  <2> QED
    BY <1>2, <2>1, <2>2 DEF EachNodeOnce
<1>3. ASSUME NEW t \in Nodes, RunReturns(t) PROVE EachNodeOnce'
  <2>1. \A u, m \in Nodes : Runs(u, m)' <=> Runs(u, m) /\ u # t
    BY <1>3 DEF RunReturns, Runs
  <2>2. \A m \in Nodes : m \in finished' <=> m \in finished \/ Runs(t, m)
    BY <1>3 DEF RunReturns, Runs
  <2>3. UNCHANGED <<queue, submitter>> /\ \A m \in Nodes : Queued(m)' <=> Queued(m)
    BY <1>3 DEF RunReturns, Queued
  <2> QED
    BY <2>1, <2>2, <2>3 DEF EachNodeOnce
<1>4. ASSUME UNCHANGED <<queue, current, finished>>,
             \A m \in Nodes : submitter'[m] # "idle" <=> submitter[m] # "idle",
             \A t \in Nodes : thread'[t] = "run" <=> thread[t] = "run"
      PROVE  EachNodeOnce'
  <2>1. \A m \in Nodes : Queued(m)' <=> Queued(m)
    BY <1>4 DEF Queued
  <2>2. \A t, m \in Nodes : Runs(t, m)' <=> Runs(t, m)
    BY <1>4 DEF Runs
  <2> QED
    BY <1>4, <2>1, <2>2 DEF EachNodeOnce
<1>5. ASSUME NEW n \in Nodes, SpawnOk(n) \/ SpawnFailed(n) PROVE EachNodeOnce'
  BY <1>4, <1>5 DEF SpawnOk, SpawnFailed, ThreadAfterSubmit
<1>6. ASSUME NEW t \in Nodes, Pop(t) \/ ReleaseWorker(t) \/ PeekHasWork(t) \/ ClaimWorker(t)
      PROVE  EachNodeOnce'
  BY <1>2, <1>4, <1>6 DEF Pop, ReleaseWorker, PeekHasWork, ClaimWorker
<1>7. CASE UNCHANGED vars
  BY <1>4, <1>7 DEF vars
<1> HIDE DEF IInv, TypeOK
<1> QED
  BY <1>1, <1>3, <1>5, <1>6, <1>7 DEF Next, reaperMain

\* A submitted node is never lost and never run twice, whatever spawns fail: the
\* safety half of QueueDrains.
THEOREM NodesRunOnce == Spec => []EachNodeOnce
<1>1. Init => EachNodeOnce
  BY DEF Init, EachNodeOnce, Queued, Runs
<1>2. IInv /\ EachNodeOnce /\ [Next]_vars => EachNodeOnce'
  BY OnceStep
<1> QED
  BY <1>1, <1>2, InitInvariant, NextInvariant, PTL DEF Spec

=============================================================================
