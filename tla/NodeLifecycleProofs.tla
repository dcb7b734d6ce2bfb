------------------------ MODULE NodeLifecycleProofs ------------------------
(***************************************************************************)
(* Proofs about NodeLifecycle for any number of modules: the barrier and   *)
(* the join of Node::spin keep the module threads in step with the main    *)
(* thread, and a node starts its modules only when it has a peer.          *)
(***************************************************************************)
EXTENDS NodeLifecycle, FiniteSetTheorems, TLAPS

\* The other node is the other one of the two.
LEMMA OtherNode ==
  /\ Other(Leader) = Field /\ Other(Field) = Leader
  /\ \A n \in Nodes : Other(n) \in Nodes /\ Other(n) # n
BY NodesAssumption DEF Nodes, Other

\* Changing one node's entry of a function keeps its type.
LEMMA Update ==
  ASSUME NEW S, NEW f \in [Nodes -> S], NEW n \in Nodes, NEW v \in S
  PROVE  [f EXCEPT ![n] = v] \in [Nodes -> S]
OBVIOUS

-----------------------------------------------------------------------------
(* Type correctness                                                        *)

\* Whatever queue of lifecycle messages the tick drains, it leaves queues of
\* lifecycle messages.
LEMMA TickTypes ==
  ASSUME TypeOK, NEW n \in Nodes, NEW q \in Seq(Lifecycle), NetworkTick(n, q)
  PROVE  /\ netsub' \in [Nodes -> Seq(Lifecycle)]
         /\ wire' \in [Nodes -> Seq(Lifecycle)]
         /\ peer' \in [Nodes -> BOOLEAN]
         /\ knock' \in [Nodes -> BOOLEAN]
<1>1. wire[Other(n)] \o q \in Seq(Lifecycle) /\ wire[Other(n)] \in Seq(Lifecycle)
  BY OtherNode DEF TypeOK
<1>2. PeerAfter(n) \in BOOLEAN
  BY DEF TypeOK, PeerAfter
<1>3. wire' \in [Nodes -> Seq(Lifecycle)]
  <2>1. <<>> \in Seq(Lifecycle)
    OBVIOUS
  <2>2. [wire EXCEPT ![n] = <<>>] \in [Nodes -> Seq(Lifecycle)]
    BY <2>1 DEF TypeOK
  <2> QED
    BY <1>1, <2>1, <2>2, OtherNode DEF TypeOK, NetworkTick
<1>4. netsub' \in [Nodes -> Seq(Lifecycle)]
  BY DEF TypeOK, NetworkTick
<1>5. peer' \in [Nodes -> BOOLEAN] /\ knock' \in [Nodes -> BOOLEAN]
  BY <1>2, Update, Zenon DEF TypeOK, NetworkTick
<1> QED
  BY <1>3, <1>4, <1>5

\* Initially every variable has its type.
LEMMA TypeInit == Init => TypeOK
BY DEF Init, TypeOK, MainPc, WorkerPc

\* A step of the main thread of a node keeps the types.
LEMMA TypeMain ==
  ASSUME TypeOK, NEW n \in Nodes, Main(n)
  PROVE  TypeOK'
<1>1. CASE WaitTick(n) \/ InnerTick(n)
  <2>1. netsub[n] \in Seq(Lifecycle) /\ NetworkTick(n, netsub[n])
    BY <1>1 DEF TypeOK, WaitTick, InnerTick, Tick
  <2>2. RunningAfter(n, lifesub[n] \o wire[n]) \in BOOLEAN
    BY DEF TypeOK, RunningAfter
  <2>3. running' \in [Nodes -> BOOLEAN]
    <3>1. running \in [Nodes -> BOOLEAN]
      BY DEF TypeOK
    <3>2. running' = [running EXCEPT ![n] = RunningAfter(n, lifesub[n] \o wire[n])]
      BY <1>1 DEF WaitTick, InnerTick, Tick
    <3> QED
      BY <2>2, <3>1, <3>2, Update, Zenon
  <2>5. lifesub' \in [Nodes -> Seq(Lifecycle)]
    <3>1. lifesub' = [lifesub EXCEPT ![n] = <<>>]
      BY <1>1 DEF WaitTick, InnerTick, Tick
    <3> QED
      BY <3>1 DEF TypeOK
  <2>4. UNCHANGED <<pc, should_halt, attempt, workerVars>>
    BY <1>1 DEF WaitTick, InnerTick
  <2> QED
    BY <2>1, <2>3, <2>4, <2>5, TickTypes DEF TypeOK, workerVars
<1>2. CASE Teardown(n)
  <2>1. Append(netsub[n], "STOP") \in Seq(Lifecycle) /\ NetworkTick(n, Append(netsub[n], "STOP"))
    BY <1>2 DEF TypeOK, Teardown, Lifecycle
  <2>2. Append(lifesub[n], "STOP") \o wire[n] \in Seq(Lifecycle)
    BY DEF TypeOK, Lifecycle
  <2>3. running' \in [Nodes -> BOOLEAN] /\ lifesub' \in [Nodes -> Seq(Lifecycle)] /\ pc' \in [Nodes -> MainPc]
    BY <1>2, <2>2 DEF TypeOK, Teardown, Goto, MainPc
  <2>4. UNCHANGED <<should_halt, attempt, workerVars>>
    BY <1>2 DEF Teardown
  <2> QED
    BY <2>1, <2>3, <2>4, TickTypes DEF TypeOK, workerVars
<1>3. CASE WaitHalted(n) \/ Join(n) \/ Shutdown(n)
  BY <1>3 DEF TypeOK, WaitHalted, Join, Shutdown, Goto, MainPc, linkVars, queueVars, workerVars
<1>4. CASE StartWorkers(n)
  <2>1. Cardinality(Modules) \in Int
    BY ModulesAssumption, FS_CardinalityType
  <2> QED
    BY <1>4, <2>1 DEF TypeOK, StartWorkers, Goto, MainPc, WorkerPc, linkVars, queueVars
<1>5. CASE WorkersReady(n)
  <2>1. sem[n] + Cardinality(Modules) \in Nat
    BY ModulesAssumption, FS_CardinalityType DEF TypeOK
  <2> QED
    BY <1>5, <2>1 DEF TypeOK, WorkersReady, Goto, MainPc, linkVars, queueVars
<1> QED
  BY <1>1, <1>2, <1>3, <1>4, <1>5 DEF Main

\* A step of the thread of a module keeps the types.
LEMMA TypeWork ==
  ASSUME TypeOK, NEW n \in Nodes, NEW m \in Modules, Work(n, m)
  PROVE  TypeOK'
<1>1. ASSUME NEW from, NEW to \in WorkerPc, Worker(n, m, from, to)
      PROVE  wpc' \in [Nodes -> [Modules -> WorkerPc]]
  BY <1>1 DEF TypeOK, Worker
<1>2. wpc' \in [Nodes -> [Modules -> WorkerPc]]
  BY <1>1 DEF Work, InitSucceeds, InitFails, PassBarrier, WorkerStops, WorkerHangs, WorkerPc
<1>3. not_ready' \in [Nodes -> Int] /\ sem' \in [Nodes -> Nat]
  BY DEF TypeOK, Work, InitSucceeds, InitFails, PassBarrier, WorkerStops, WorkerHangs, Worker
<1>4. UNCHANGED <<pc, running, should_halt, linkVars, queueVars>>
  BY DEF Work, InitSucceeds, InitFails, PassBarrier, WorkerStops, WorkerHangs
<1> QED
  BY <1>2, <1>3, <1>4 DEF TypeOK, linkVars, queueVars

\* Connecting, and the environment, keep the types.
LEMMA TypeRest ==
  ASSUME TypeOK, BootLeader \/ BootField \/ ConnectSucceeds \/ Environment
  PROVE  TypeOK'
<1>1. CASE BootLeader \/ BootField
  BY <1>1 DEF TypeOK, BootLeader, BootField, Goto, MainPc, linkVars, queueVars, workerVars
<1>2. CASE ConnectSucceeds
  <2>1. Append(netsub[Field], "START") \in Seq(Lifecycle) /\ Append(lifesub[Field], "START") \in Seq(Lifecycle)
    BY DEF TypeOK, Lifecycle, Nodes
  <2> QED
    BY <1>2, <2>1 DEF TypeOK, ConnectSucceeds, Goto, MainPc, workerVars
<1>3. CASE ConnectTimesOut
  BY <1>3 DEF TypeOK, ConnectTimesOut, queueVars, workerVars
<1>4. ASSUME NEW n \in Nodes, Sigint(n) PROVE TypeOK'
  BY <1>4 DEF TypeOK, Sigint, linkVars, queueVars, workerVars
<1>5. ASSUME NEW n \in Nodes, SigintAgain(n) PROVE TypeOK'
  <2>1. [m \in Modules |-> "none"] \in [Modules -> WorkerPc]
    BY DEF WorkerPc
  <2>2. wpc' \in [Nodes -> [Modules -> WorkerPc]]
    BY <1>5, <2>1 DEF TypeOK, SigintAgain
  <2>3. pc' \in [Nodes -> MainPc] /\ peer' \in [Nodes -> BOOLEAN]
    BY <1>5 DEF TypeOK, SigintAgain, MainPc
  <2> QED
    BY <1>5, <2>2, <2>3 DEF TypeOK, SigintAgain, queueVars
<1>6. ASSUME NEW n \in Nodes, PeerTimesOut(n) PROVE TypeOK'
  BY <1>6 DEF TypeOK, PeerTimesOut, queueVars, workerVars
<1> QED
  BY <1>1, <1>2, <1>3, <1>4, <1>5, <1>6 DEF Environment

\* In every reachable state of the two processes every variable has its type.
THEOREM TypeCorrect == Spec => []TypeOK
<1>1. TypeOK /\ [Next]_vars => TypeOK'
  <2> SUFFICES ASSUME TypeOK, [Next]_vars PROVE TypeOK'
    OBVIOUS
  <2>1. CASE UNCHANGED vars
    BY <2>1 DEF TypeOK, vars, linkVars, queueVars, workerVars
  <2> QED
    BY <2>1, TypeMain, TypeWork, TypeRest DEF Next
<1> QED
  BY <1>1, TypeInit, PTL DEF Spec

-----------------------------------------------------------------------------
(* The module threads and the main thread                                  *)

\* A step that leaves the main thread, the threads and the counters of a node
\* alone leaves the invariant of that node alone.
LEMMA WorkersUnchanged ==
  ASSUME NEW k \in Nodes, WorkersFollowMain(k),
         pc'[k] = pc[k], wpc'[k] = wpc[k], sem'[k] = sem[k], not_ready'[k] = not_ready[k]
  PROVE  WorkersFollowMain(k)'
BY DEF WorkersFollowMain

\* When the counter reaches zero no thread is before its decrement.
LEMMA NobodyUnready ==
  ASSUME NEW n \in Nodes, WorkersFollowMain(n), pc[n] = "sync", not_ready[n] = 0
  PROVE  \A m \in Modules : wpc[n][m] = "barrier"
<1> DEFINE U == {m \in Modules : wpc[n][m] \in {"init", "failed"}}
<1>1. IsFiniteSet(U)
  BY ModulesAssumption, FS_Subset
<1>2. Cardinality(U) = 0
  BY DEF WorkersFollowMain
<1>3. U = {}
  BY <1>1, <1>2, FS_EmptySet
<1> QED
  BY <1>3 DEF WorkersFollowMain

\* The main thread's own steps keep its threads within the invariant.
LEMMA WorkerMain ==
  ASSUME TypeOK, WorkerInv, NEW n \in Nodes, Main(n)
  PROVE  WorkerInv'
<1> SUFFICES ASSUME NEW k \in Nodes PROVE WorkersFollowMain(k)'
  BY DEF WorkerInv
<1>0. WorkersFollowMain(k)
  BY DEF WorkerInv
<1>1. CASE k # n
  <2>1. pc'[k] = pc[k] /\ wpc'[k] = wpc[k] /\ sem'[k] = sem[k] /\ not_ready'[k] = not_ready[k]
    BY <1>1 DEF TypeOK, Main, WaitTick, WaitHalted, StartWorkers, WorkersReady, InnerTick, Teardown,
                Join, Shutdown, Goto, workerVars
  <2> QED
    BY <1>0, <2>1, WorkersUnchanged
<1>2. CASE k = n
  <2>1. CASE WaitTick(n) \/ InnerTick(n)
    BY <1>0, <1>2, <2>1, WorkersUnchanged DEF WaitTick, InnerTick, workerVars
  <2>2. CASE WaitHalted(n) \/ Teardown(n) \/ Shutdown(n)
    BY <1>0, <1>2, <2>2 DEF TypeOK, WaitHalted, Teardown, Shutdown, Goto, workerVars, WorkersFollowMain
  <2>3. CASE StartWorkers(n)
    <3>1. \A m \in Modules : wpc'[n][m] = "init"
      BY <2>3 DEF TypeOK, StartWorkers
    <3>2. {m \in Modules : wpc'[n][m] \in {"init", "failed"}} = Modules
      BY <3>1
    <3>3. pc'[n] = "sync" /\ sem'[n] = 0 /\ not_ready'[n] = Cardinality(Modules)
      BY <1>0, <1>2, <2>3 DEF TypeOK, StartWorkers, Goto, WorkersFollowMain
    <3> QED
      BY <1>2, <3>1, <3>2, <3>3 DEF WorkersFollowMain
  <2>4. CASE WorkersReady(n)
    <3>1. \A m \in Modules : wpc[n][m] = "barrier"
      BY <1>0, <1>2, <2>4, NobodyUnready DEF WorkersReady, Goto
    <3>2. pc'[n] = "inner" /\ wpc' = wpc
      BY <2>4 DEF TypeOK, WorkersReady, Goto
    <3> QED
      BY <1>2, <3>1, <3>2 DEF WorkersFollowMain
  <2>5. CASE Join(n)
    <3>1. \A m \in Modules : wpc[n][m] = "done"
      BY <1>0, <1>2, <2>5 DEF Join, Goto, WorkersFollowMain
    <3>2. pc'[n] = "spun" /\ wpc' = wpc
      BY <2>5 DEF TypeOK, Join, Goto, workerVars
    <3> QED
      BY <1>2, <3>1, <3>2 DEF WorkersFollowMain
  <2> QED
    BY <2>1, <2>2, <2>3, <2>4, <2>5 DEF Main
<1> QED
  BY <1>1, <1>2

\* A thread that has decremented the counter is no longer counted, and it
\* leaves the barrier only with a post of the main thread.
LEMMA WorkerWork ==
  ASSUME TypeOK, WorkerInv, NEW n \in Nodes, NEW m \in Modules, Work(n, m)
  PROVE  WorkerInv'
<1> SUFFICES ASSUME NEW k \in Nodes PROVE WorkersFollowMain(k)'
  BY DEF WorkerInv
<1>0. WorkersFollowMain(k) /\ pc' = pc
  BY DEF WorkerInv, Work, InitSucceeds, InitFails, PassBarrier, WorkerStops, WorkerHangs
<1>1. CASE k # n
  <2>1. wpc'[k] = wpc[k] /\ sem'[k] = sem[k] /\ not_ready'[k] = not_ready[k]
    BY <1>1 DEF TypeOK, Work, InitSucceeds, InitFails, PassBarrier, WorkerStops, WorkerHangs, Worker
  <2> QED
    BY <1>0, <2>1, WorkersUnchanged
<1>2. CASE k = n
  <2> DEFINE U == {j \in Modules : wpc[n][j] \in {"init", "failed"}}
  <2>0. WorkersFollowMain(n) /\ pc[n] \in MainPc
    BY <1>0, <1>2 DEF TypeOK
  <2>1. CASE InitSucceeds(n, m)
    <3>1. pc[n] = "sync"
      BY <2>0, <2>1 DEF InitSucceeds, Worker, WorkersFollowMain, MainPc
    <3>2. \A j \in Modules : wpc'[n][j] = IF j = m THEN "barrier" ELSE wpc[n][j]
      BY <2>1 DEF TypeOK, InitSucceeds, Worker
    <3>3. IsFiniteSet(U) /\ m \in U
      BY <2>1, ModulesAssumption, FS_Subset DEF InitSucceeds, Worker
    <3>4. {j \in Modules : wpc'[n][j] \in {"init", "failed"}} = U \ {m}
      BY <3>2
    <3>5. Cardinality(U \ {m}) = Cardinality(U) - 1
      BY <3>3, FS_RemoveElement
    <3>6. not_ready'[n] = not_ready[n] - 1 /\ sem'[n] = sem[n]
      BY <2>1 DEF TypeOK, InitSucceeds
    <3> QED
      BY <1>0, <1>2, <2>0, <3>1, <3>2, <3>4, <3>5, <3>6 DEF WorkersFollowMain
  <2>2. CASE InitFails(n, m)
    <3>1. pc[n] = "sync"
      BY <2>0, <2>2 DEF InitFails, Worker, WorkersFollowMain, MainPc
    <3>2. \A j \in Modules : wpc'[n][j] = IF j = m THEN "failed" ELSE wpc[n][j]
      BY <2>2 DEF TypeOK, InitFails, Worker
    <3>3. {j \in Modules : wpc'[n][j] \in {"init", "failed"}} = U
      BY <2>2, <3>2 DEF InitFails, Worker
    <3>4. not_ready' = not_ready /\ sem' = sem
      BY <2>2 DEF InitFails
    <3> QED
      BY <1>0, <1>2, <2>0, <3>1, <3>2, <3>3, <3>4 DEF WorkersFollowMain
  <2>3. CASE PassBarrier(n, m) \/ WorkerStops(n, m) \/ WorkerHangs(n, m)
    <3>1. pc[n] \in {"inner", "join"}
      <4>1. (wpc[n][m] = "barrier" /\ sem[n] > 0) \/ wpc[n][m] = "loop"
        BY <2>3 DEF PassBarrier, WorkerStops, WorkerHangs, Worker
      <4> QED
        BY <2>0, <4>1 DEF WorkersFollowMain, MainPc
    <3>2. \A j \in Modules : wpc'[n][j] \in {wpc[n][j], "loop", "hung", "done"}
      <4>1. PICK w \in {"loop", "hung", "done"} : wpc' = [wpc EXCEPT ![n][m] = w]
        BY <2>3 DEF PassBarrier, WorkerStops, WorkerHangs, Worker
      <4> QED
        BY <4>1 DEF TypeOK
    <3> QED
      BY <1>0, <1>2, <2>0, <3>1, <3>2 DEF WorkersFollowMain
  <2> QED
    BY <2>1, <2>2, <2>3 DEF Work
<1> QED
  BY <1>1, <1>2

\* Connecting, signals and timeouts do not disturb the threads, except that
\* the second Ctrl-C ends them all.
LEMMA WorkerRest ==
  ASSUME TypeOK, WorkerInv, BootLeader \/ BootField \/ ConnectSucceeds \/ Environment
  PROVE  WorkerInv'
<1> SUFFICES ASSUME NEW k \in Nodes PROVE WorkersFollowMain(k)'
  BY DEF WorkerInv
<1>0. WorkersFollowMain(k) /\ pc[k] \in MainPc
  BY DEF WorkerInv, TypeOK
<1>1. CASE BootLeader \/ BootField \/ ConnectSucceeds
  <2>1. UNCHANGED workerVars
    BY <1>1 DEF BootLeader, BootField, ConnectSucceeds
  <2>2. pc'[k] = pc[k] \/ (pc[k] \in {"off", "connecting"} /\ pc'[k] \in {"connecting", "wait"})
    BY <1>1, NodesAssumption DEF TypeOK, BootLeader, BootField, ConnectSucceeds, Goto, Nodes
  <2> QED
    BY <1>0, <2>1, <2>2 DEF workerVars, WorkersFollowMain
<1>2. ASSUME NEW n \in Nodes, SigintAgain(n) PROVE WorkersFollowMain(k)'
  <2>1. CASE k = n
    BY <1>2, <2>1 DEF TypeOK, SigintAgain, WorkersFollowMain
  <2>2. CASE k # n
    BY <1>0, <1>2, <2>2, WorkersUnchanged DEF TypeOK, SigintAgain
  <2> QED
    BY <2>1, <2>2
<1>3. ASSUME UNCHANGED <<pc, workerVars>> PROVE WorkersFollowMain(k)'
  BY <1>0, <1>3, WorkersUnchanged DEF workerVars
<1> QED
  BY <1>1, <1>2, <1>3 DEF Environment, ConnectTimesOut, Sigint, PeerTimesOut

\* The condition variable, the semaphore and the join of Node::spin keep every
\* module thread in step with the main thread of its node.
THEOREM WorkerInvariant == Spec => []WorkerInv
<1>1. Init => WorkerInv
  BY DEF Init, WorkerInv, WorkersFollowMain
<1>2. TypeOK /\ WorkerInv /\ [Next]_vars => WorkerInv'
  <2> SUFFICES ASSUME TypeOK, WorkerInv, [Next]_vars PROVE WorkerInv'
    OBVIOUS
  <2>1. CASE UNCHANGED vars
    BY <2>1, WorkersUnchanged DEF WorkerInv, vars, workerVars
  <2> QED
    BY <2>1, WorkerMain, WorkerWork, WorkerRest DEF Next
<1> QED
  BY <1>1, <1>2, TypeCorrect, PTL DEF Spec

\* For any number of modules: no module of a node is ticked before all of
\* them have been initialised.
THEOREM NoEarlyTick == Spec => []NoTickBeforeAllReady
<1>1. TypeOK /\ WorkerInv => NoTickBeforeAllReady
  <2> SUFFICES ASSUME TypeOK, NEW n \in Nodes, WorkersFollowMain(n), NEW m \in Modules,
                      wpc[n][m] \in {"loop", "hung", "done"}, NEW k \in Modules
               PROVE  wpc[n][k] \in {"barrier", "loop", "hung", "done"}
    BY DEF WorkerInv, NoTickBeforeAllReady
  <2>1. pc[n] \in MainPc
    BY DEF TypeOK
  <2>2. pc[n] \in {"inner", "join", "spun", "down"}
    BY <2>1 DEF WorkersFollowMain, MainPc
  <2> QED
    BY <2>2 DEF WorkersFollowMain
<1> QED
  BY <1>1, TypeCorrect, WorkerInvariant, PTL

\* When spin returns, all module threads have ended, so that Node::shutdown
\* may delete what they use.
THEOREM AllJoined == Spec => []NoWorkerOutlivesSpin
<1>1. WorkerInv => NoWorkerOutlivesSpin
  BY DEF WorkerInv, WorkersFollowMain, NoWorkerOutlivesSpin
<1> QED
  BY <1>1, WorkerInvariant, PTL

-----------------------------------------------------------------------------
(* The link                                                                *)

\* Connecting establishes the link.
LEMMA LinkConnects ==
  ASSUME TypeOK, LinkInv, BootLeader \/ BootField \/ ConnectSucceeds \/ ConnectTimesOut
  PROVE  LinkInv'
<1> USE NodesAssumption DEF Nodes
<1>1. CASE BootLeader
  BY <1>1 DEF TypeOK, LinkInv, Gone, BootLeader, Goto, linkVars, queueVars
<1>2. CASE BootField
  BY <1>2 DEF TypeOK, LinkInv, Gone, BootField, Goto, linkVars, queueVars
<1>3. CASE ConnectSucceeds
  BY <1>3 DEF TypeOK, LinkInv, Gone, ConnectSucceeds, Goto
<1>4. CASE ConnectTimesOut
  BY <1>4 DEF LinkInv, Gone, ConnectTimesOut, queueVars
<1> QED
  BY <1>1, <1>2, <1>3, <1>4

\* A tick of the leader looks at no packet before the connection event.
LEMMA LinkTick ==
  ASSUME TypeOK, LinkInv, NEW n \in Nodes, WaitTick(n) \/ InnerTick(n)
  PROVE  LinkInv'
<1>1. pc' = pc /\ Tick(n) /\ pc[n] \in {"wait", "inner"}
  BY DEF WaitTick, InnerTick
<1>2. CASE n = Leader
  <2>0. /\ running' = [running EXCEPT ![Leader] = RunningAfter(Leader, lifesub[Leader] \o wire[Leader])]
        /\ peer' = [peer EXCEPT ![Leader] = PeerAfter(Leader)]
        /\ lifesub'[Leader] = <<>> /\ wire'[Leader] = <<>>
    BY <1>1, <1>2, OtherNode, NodesAssumption DEF TypeOK, Tick, NetworkTick, Nodes
  <2>2. peer'[Field] <=> peer[Field]
    BY <2>0, NodesAssumption DEF TypeOK, Nodes
  <2>3. peer'[Leader] <=> (peer[Leader] \/ knock[Leader])
    BY <2>0 DEF TypeOK, Nodes, PeerAfter
  <2>4. CASE pc[Field] \in {"off", "connecting"}
    <3>1. lifesub[Leader] \o wire[Leader] = <<>>
      BY <2>4 DEF LinkInv
    <3>2. ~RunningAfter(Leader, lifesub[Leader] \o wire[Leader])
      BY <2>4, <3>1 DEF RunningAfter, LinkInv
    <3>3. ~running'[Leader]
      BY <2>0, <3>2 DEF TypeOK, Nodes
    <3> QED
      BY <1>1, <1>2, <2>0, <2>3, <2>4, <3>3 DEF LinkInv, Gone
  <2>5. CASE pc[Field] \notin {"off", "connecting"}
    BY <1>1, <1>2, <2>2, <2>3, <2>5 DEF LinkInv, Gone
  <2> QED
    BY <2>4, <2>5
<1>3. CASE n = Field
  <2>1. pc[Field] \notin {"off", "connecting"}
    BY <1>1, <1>3
  <2>2. running'[Leader] <=> running[Leader]
    BY <1>1, <1>3, NodesAssumption DEF TypeOK, Nodes, Tick
  <2>3. (peer'[Leader] <=> peer[Leader]) /\ (knock'[Leader] <=> knock[Leader])
    BY <1>1, <1>3, NodesAssumption DEF TypeOK, Nodes, Tick, NetworkTick
  <2>4. peer[Field] => peer'[Field]
    BY <1>1, <1>3 DEF TypeOK, Nodes, Tick, NetworkTick, PeerAfter
  <2> QED
    BY <1>1, <2>1, <2>2, <2>3, <2>4 DEF LinkInv, Gone
<1> QED
  BY <1>2, <1>3 DEF Nodes

\* The other steps of a main thread keep the link, until it ends.
LEMMA LinkMain ==
  ASSUME TypeOK, LinkInv, NEW n \in Nodes,
         WaitHalted(n) \/ StartWorkers(n) \/ WorkersReady(n) \/ Join(n) \/ Shutdown(n)
  PROVE  LinkInv'
<1> USE NodesAssumption DEF Nodes
<1>1. CASE WaitHalted(n)
  BY <1>1 DEF TypeOK, LinkInv, Gone, WaitHalted, Goto, linkVars, queueVars
<1>2. CASE StartWorkers(n)
  BY <1>2 DEF TypeOK, LinkInv, Gone, StartWorkers, Goto, linkVars, queueVars
<1>3. CASE WorkersReady(n)
  BY <1>3 DEF TypeOK, LinkInv, Gone, WorkersReady, Goto, linkVars, queueVars
<1>4. CASE Join(n)
  BY <1>4 DEF TypeOK, LinkInv, Gone, Join, Goto, linkVars, queueVars
<1>5. CASE Shutdown(n)
  BY <1>5 DEF TypeOK, LinkInv, Gone, Shutdown, Goto, queueVars
<1> QED
  BY <1>1, <1>2, <1>3, <1>4, <1>5

\* So does the teardown, whose network_tick may be the one that learns of the
\* connection.
LEMMA LinkTeardown ==
  ASSUME TypeOK, LinkInv, NEW n \in Nodes, Teardown(n)
  PROVE  LinkInv'
<1> USE NodesAssumption DEF Nodes
<1>1. /\ pc' = [pc EXCEPT ![n] = "join"] /\ pc[n] = "inner"
      /\ running' = [running EXCEPT ![n] = FALSE]
      /\ peer' = [peer EXCEPT ![n] = PeerAfter(n)]
      /\ knock' = [knock EXCEPT ![n] = FALSE]
  BY DEF Teardown, Goto, NetworkTick
<1>2. pc[Field] \notin {"off", "connecting"}
  BY <1>1 DEF LinkInv, TypeOK
<1>3. CASE n = Leader
  BY <1>1, <1>2, <1>3 DEF TypeOK, LinkInv, Gone, PeerAfter
<1>4. CASE n = Field
  BY <1>1, <1>2, <1>4 DEF TypeOK, LinkInv, Gone, PeerAfter
<1> QED
  BY <1>3, <1>4

\* Signals and timeouts touch the link of a node only when it, or its peer,
\* is gone.
LEMMA LinkRest ==
  ASSUME TypeOK, LinkInv, NEW n \in Nodes, Sigint(n) \/ SigintAgain(n) \/ PeerTimesOut(n)
  PROVE  LinkInv'
<1> USE NodesAssumption DEF Nodes
<1>1. CASE Sigint(n)
  BY <1>1 DEF LinkInv, Gone, Sigint, linkVars, queueVars
<1>2. CASE SigintAgain(n)
  BY <1>2 DEF TypeOK, LinkInv, Gone, SigintAgain, Alive, queueVars
<1>3. CASE PeerTimesOut(n)
  BY <1>3, OtherNode DEF TypeOK, LinkInv, Gone, PeerTimesOut, queueVars
<1> QED
  BY <1>1, <1>2, <1>3

\* From the moment the field node is connected both nodes have a peer before
\* they look at any lifecycle packet.
THEOREM LinkInvariant == Spec => []LinkInv
<1>1. Init => LinkInv
  BY DEF Init, LinkInv, Nodes
<1>2. TypeOK /\ LinkInv /\ [Next]_vars => LinkInv'
  <2> SUFFICES ASSUME TypeOK, LinkInv, [Next]_vars PROVE LinkInv'
    OBVIOUS
  <2>1. CASE UNCHANGED vars
    BY <2>1 DEF LinkInv, Gone, vars, linkVars, queueVars
  <2>2. ASSUME NEW n \in Nodes, NEW m \in Modules, Work(n, m) PROVE LinkInv'
    BY <2>2 DEF Work, InitSucceeds, InitFails, PassBarrier, WorkerStops, WorkerHangs, LinkInv, Gone, linkVars, queueVars
  <2> QED
    BY <2>1, <2>2, LinkConnects, LinkTick, LinkMain, LinkTeardown, LinkRest DEF Next, Main, Environment
<1> QED
  BY <1>1, <1>2, TypeCorrect, PTL DEF Spec

\* The comment "All nodes have connected" of spin is right: modules are only
\* started on a node that has a peer, or whose peer is gone again.
THEOREM ConnectedBeforeStart == Spec => []StartsConnected
<1>1. LinkInv => StartsConnected
  <2> SUFFICES ASSUME LinkInv, NEW n \in Nodes, pc[n] \in {"sync", "inner", "join"}
               PROVE  peer[n] \/ pc[Other(n)] \in {"down", "killed"}
    BY DEF StartsConnected
  <2> QED
    BY OtherNode DEF LinkInv, Gone, Nodes
<1> QED
  BY <1>1, LinkInvariant, PTL
=============================================================================
