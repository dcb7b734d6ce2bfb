---------------------------- MODULE NodeLifecycle ----------------------------
(***************************************************************************)
(* The life of the two processes of the system: the leader on the robot    *)
(* (src/onboard_runner.cpp) and the field computer (src/field_runner.cpp). *)
(* Each connects to the other over ENet, waits in Node::spin for the START *)
(* message that the field node publishes, starts one thread per module,    *)
(* lets them tick after all of them are initialised, and tears them down   *)
(* on SIGINT or when a STOP message arrives (src/core/Node.cpp,            *)
(* src/core/Network.cpp).                                                  *)
(*                                                                         *)
(* One iteration of a loop of spin is one step: the lifecycle queues are   *)
(* touched by the main thread only.  A worker's ticks change nothing here. *)
(* An ENet link keeps order and reports a connection before any packet;    *)
(* once a process has destroyed its host, nothing it sent is retransmitted.*)
(***************************************************************************)
EXTENDS Integers, Sequences, FiniteSets

CONSTANTS
  Leader, Field,   \* the two nodes
  Modules,         \* the modules loaded on each node
  MayInterrupt,    \* the nodes whose operator may press Ctrl-C
  MayFail,         \* BOOLEAN: a module's initialize may return null
  MayHang,         \* the modules whose shutdown may not return
  MayLose          \* BOOLEAN: packets of a finished process may be lost

Nodes == {Leader, Field}
ASSUME NodesAssumption == Leader # Field
ASSUME ModulesAssumption == IsFiniteSet(Modules)
ASSUME SwitchesAssumption ==
  MayInterrupt \subseteq Nodes /\ MayHang \subseteq Modules /\ MayFail \in BOOLEAN /\ MayLose \in BOOLEAN

VARIABLES
  pc,           \* pc[n]: where the main thread of n is
  running,      \* ctx.running
  should_halt,  \* set by sigint_handler
  attempt,      \* the field node's ENet connection attempt
  peer,         \* peer[n]: Network's ctx.peer is set
  knock,        \* knock[n]: ENet has a connection event for n
  wire,         \* wire[n]: lifecycle packets on their way to n
  netsub,       \* the networked subscriber of "lifecycle"
  lifesub,      \* ctx.lifecycle_sub
  wpc,          \* wpc[n][m]: where the thread of module m is
  not_ready,    \* workers_not_ready
  sem           \* the semaphore barrier

linkVars == <<attempt, peer, knock, wire>>
queueVars == <<netsub, lifesub>>
workerVars == <<wpc, not_ready, sem>>
vars == <<pc, running, should_halt, linkVars, queueVars, workerVars>>

Other(n) == IF n = Leader THEN Field ELSE Leader
Lifecycle == {"START", "STOP"}
MainPc == {"off", "connecting", "wait", "sync", "inner", "join", "spun", "down", "killed"}
WorkerPc == {"none", "init", "failed", "barrier", "loop", "hung", "done"}

TypeOK ==
  /\ pc \in [Nodes -> MainPc]
  /\ running \in [Nodes -> BOOLEAN]
  /\ should_halt \in [Nodes -> BOOLEAN]
  /\ attempt \in {"pending", "reset"}
  /\ peer \in [Nodes -> BOOLEAN]
  /\ knock \in [Nodes -> BOOLEAN]
  /\ wire \in [Nodes -> Seq(Lifecycle)]
  /\ netsub \in [Nodes -> Seq(Lifecycle)]
  /\ lifesub \in [Nodes -> Seq(Lifecycle)]
  /\ wpc \in [Nodes -> [Modules -> WorkerPc]]
  /\ not_ready \in [Nodes -> Int]
  /\ sem \in [Nodes -> Nat]

Init ==
  /\ pc = [n \in Nodes |-> "off"]
  /\ running = [n \in Nodes |-> FALSE]
  /\ should_halt = [n \in Nodes |-> FALSE]
  /\ attempt = "pending"
  /\ peer = [n \in Nodes |-> FALSE]
  /\ knock = [n \in Nodes |-> FALSE]
  /\ wire = [n \in Nodes |-> <<>>]
  /\ netsub = [n \in Nodes |-> <<>>]
  /\ lifesub = [n \in Nodes |-> <<>>]
  /\ wpc = [n \in Nodes |-> [m \in Modules |-> "none"]]
  /\ not_ready = [n \in Nodes |-> 0]
  /\ sem = [n \in Nodes |-> 0]

Goto(n, from, to) ==
  /\ pc[n] = from
  /\ pc' = [pc EXCEPT ![n] = to]

-----------------------------------------------------------------------------
(* Connecting.  The leader opens its port and goes on to spin; the field   *)
(* node blocks in Network::connect.                                        *)

BootLeader ==
  /\ Goto(Leader, "off", "wait")
  /\ UNCHANGED <<running, should_halt, linkVars, queueVars, workerVars>>

BootField ==
  /\ Goto(Field, "off", "connecting")
  /\ UNCHANGED <<running, should_halt, linkVars, queueVars, workerVars>>

\* The leader services the handshake from its waiting loop.  main then loads
\* the modules and calls Node::start, which publishes START to both
\* subscribers of "lifecycle", and spin.
ConnectSucceeds ==
  /\ Goto(Field, "connecting", "wait")
  /\ attempt = "pending"
  /\ pc[Leader] = "wait"
  /\ peer' = [peer EXCEPT ![Field] = TRUE]
  /\ knock' = [knock EXCEPT ![Leader] = TRUE]
  /\ netsub' = [netsub EXCEPT ![Field] = Append(@, "START")]
  /\ lifesub' = [lifesub EXCEPT ![Field] = Append(@, "START")]
  /\ UNCHANGED <<running, should_halt, attempt, wire, workerVars>>

\* No event within the time limit: the peer is reset and the loop waits
\* again, for a connection that nobody asks for any more.
ConnectTimesOut ==
  /\ pc[Field] = "connecting"
  /\ attempt' = "reset"
  /\ UNCHANGED <<pc, running, should_halt, peer, knock, wire, queueVars, workerVars>>

-----------------------------------------------------------------------------
(* Node::network_tick: forward what the networked subscriber has, service  *)
(* the host, hand what arrived to the local subscriber.  Without a peer    *)
(* Network::transmit drops the packet.                                     *)

\* Mutant: the connection event does not set ctx.peer.
PeerAfterForgets(n) == peer[n]

\* handle_connect
PeerAfter(n) == peer[n] \/ knock[n]

\* q: what the networked subscriber has when the tick begins.
NetworkTick(n, q) ==
  /\ netsub' = [netsub EXCEPT ![n] = <<>>]
  /\ wire' = [wire EXCEPT ![n] = <<>>, ![Other(n)] = IF peer[n] THEN @ \o q ELSE @]
  /\ peer' = [peer EXCEPT ![n] = PeerAfter(n)]
  /\ knock' = [knock EXCEPT ![n] = FALSE]

-----------------------------------------------------------------------------
(* Node::spin                                                              *)

\* Node::internal_tick: the last message wins.
RunningAfter(n, q) == IF q = <<>> THEN running[n] ELSE q[Len(q)] = "START"

Tick(n) ==
  /\ NetworkTick(n, netsub[n])
  /\ running' = [running EXCEPT ![n] = RunningAfter(n, lifesub[n] \o wire[n])]
  /\ lifesub' = [lifesub EXCEPT ![n] = <<>>]

WaitTick(n) ==
  /\ pc[n] = "wait"
  /\ ~running[n] /\ ~should_halt[n]
  /\ Tick(n)
  /\ UNCHANGED <<pc, should_halt, attempt, workerVars>>

\* if (should_halt) return
WaitHalted(n) ==
  /\ should_halt[n]
  /\ Goto(n, "wait", "spun")
  /\ UNCHANGED <<running, should_halt, linkVars, queueVars, workerVars>>

\* One thread per module.
StartWorkers(n) ==
  /\ running[n] /\ ~should_halt[n]
  /\ Goto(n, "wait", "sync")
  /\ not_ready' = [not_ready EXCEPT ![n] = Cardinality(Modules)]
  /\ wpc' = [wpc EXCEPT ![n] = [m \in Modules |-> "init"]]
  /\ UNCHANGED <<running, should_halt, linkVars, queueVars, sem>>

\* Mutant: the semaphore is posted once and not once per module.
WorkersReadyPostsOnce(n) ==
  /\ Goto(n, "sync", "inner")
  /\ not_ready[n] = 0
  /\ sem' = [sem EXCEPT ![n] = @ + 1]
  /\ UNCHANGED <<running, should_halt, linkVars, queueVars, wpc, not_ready>>

\* workers_ready.wait(...), then one sem_post per module.
WorkersReady(n) ==
  /\ Goto(n, "sync", "inner")
  /\ not_ready[n] = 0
  /\ sem' = [sem EXCEPT ![n] = @ + Cardinality(Modules)]
  /\ UNCHANGED <<running, should_halt, linkVars, queueVars, wpc, not_ready>>

InnerTick(n) ==
  /\ pc[n] = "inner"
  /\ running[n] /\ ~should_halt[n]
  /\ Tick(n)
  /\ UNCHANGED <<pc, should_halt, attempt, workerVars>>

\* Mutant: the teardown forgets to publish STOP.
TeardownSilent(n) ==
  /\ ~running[n] \/ should_halt[n]
  /\ Goto(n, "inner", "join")
  /\ running' = [running EXCEPT ![n] = FALSE]
  /\ NetworkTick(n, netsub[n])
  /\ lifesub' = [lifesub EXCEPT ![n] = @ \o wire[n]]
  /\ UNCHANGED <<should_halt, attempt, workerVars>>

\* Mutant: the teardown forgets to stop the workers of this node.
TeardownKeepsRunning(n) ==
  /\ ~running[n] \/ should_halt[n]
  /\ Goto(n, "inner", "join")
  /\ NetworkTick(n, Append(netsub[n], "STOP"))
  /\ lifesub' = [lifesub EXCEPT ![n] = Append(@, "STOP") \o wire[n]]
  /\ UNCHANGED <<running, should_halt, attempt, workerVars>>

\* The inner loop ends: clear the flag, publish STOP, tick the network once.
Teardown(n) ==
  /\ ~running[n] \/ should_halt[n]
  /\ Goto(n, "inner", "join")
  /\ running' = [running EXCEPT ![n] = FALSE]
  /\ NetworkTick(n, Append(netsub[n], "STOP"))
  /\ lifesub' = [lifesub EXCEPT ![n] = Append(@, "STOP") \o wire[n]]
  /\ UNCHANGED <<should_halt, attempt, workerVars>>

\* Mutant: spin returns without joining.
JoinSkipped(n) ==
  /\ Goto(n, "join", "spun")
  /\ UNCHANGED <<running, should_halt, linkVars, queueVars, workerVars>>

\* join of every worker thread, and spin returns.
Join(n) ==
  /\ Goto(n, "join", "spun")
  /\ \A m \in Modules : wpc[n][m] \in {"done", "failed"}
  /\ UNCHANGED <<running, should_halt, linkVars, queueVars, workerVars>>

\* Node::shutdown: the host is destroyed before the disconnect is sent.
Shutdown(n) ==
  /\ Goto(n, "spun", "down")
  /\ peer' = [peer EXCEPT ![n] = FALSE]
  /\ UNCHANGED <<running, should_halt, attempt, knock, wire, queueVars, workerVars>>

-----------------------------------------------------------------------------
(* run_module, the thread of module m                                      *)

Worker(n, m, from, to) ==
  /\ wpc[n][m] = from
  /\ wpc' = [wpc EXCEPT ![n][m] = to]

\* initialize succeeds; the counter is decremented under the mutex.
InitSucceeds(n, m) ==
  /\ Worker(n, m, "init", "barrier")
  /\ not_ready' = [not_ready EXCEPT ![n] = @ - 1]
  /\ UNCHANGED <<pc, running, should_halt, linkVars, queueVars, sem>>

\* initialize returns null: the thread ends before the counter.
InitFails(n, m) ==
  /\ MayFail
  /\ Worker(n, m, "init", "failed")
  /\ UNCHANGED <<pc, running, should_halt, linkVars, queueVars, not_ready, sem>>

\* Mutant: the semaphore is not waited for.
PassBarrierFree(n, m) ==
  /\ Worker(n, m, "barrier", "loop")
  /\ UNCHANGED <<pc, running, should_halt, linkVars, queueVars, not_ready, sem>>

\* sem_wait(barrier)
PassBarrier(n, m) ==
  /\ sem[n] > 0
  /\ Worker(n, m, "barrier", "loop")
  /\ sem' = [sem EXCEPT ![n] = @ - 1]
  /\ UNCHANGED <<pc, running, should_halt, linkVars, queueVars, not_ready>>

\* while (ctx.running) ends: the module's shutdown returns and it is unloaded.
WorkerStops(n, m) ==
  /\ ~running[n]
  /\ Worker(n, m, "loop", "done")
  /\ UNCHANGED <<pc, running, should_halt, linkVars, queueVars, not_ready, sem>>

\* Or it does not return: Perception's joins a thread that may wait for a frame
\* that nobody puts any more (module PersonAsync).
WorkerHangs(n, m) ==
  /\ m \in MayHang
  /\ ~running[n]
  /\ Worker(n, m, "loop", "hung")
  /\ UNCHANGED <<pc, running, should_halt, linkVars, queueVars, not_ready, sem>>

-----------------------------------------------------------------------------
(* The environment                                                         *)

Alive(n) == pc[n] \notin {"off", "down", "killed"}

\* sigint_handler, the first time
Sigint(n) ==
  /\ n \in MayInterrupt
  /\ Alive(n)
  /\ ~should_halt[n]
  /\ should_halt' = [should_halt EXCEPT ![n] = TRUE]
  /\ UNCHANGED <<pc, running, linkVars, queueVars, workerVars>>

\* sigint_handler, the second time: exit(-1)
SigintAgain(n) ==
  /\ n \in MayInterrupt
  /\ Alive(n)
  /\ should_halt[n]
  /\ pc' = [pc EXCEPT ![n] = "killed"]
  /\ wpc' = [wpc EXCEPT ![n] = [m \in Modules |-> "none"]]
  /\ peer' = [peer EXCEPT ![n] = FALSE]
  /\ UNCHANGED <<running, should_halt, attempt, knock, wire, queueVars, not_ready, sem>>

\* ENet gives up on a process that is gone: handle_disconnect.
PeerTimesOut(n) ==
  /\ pc[n] \in {"wait", "inner"}
  /\ pc[Other(n)] \in {"down", "killed"}
  /\ peer[n]
  /\ peer' = [peer EXCEPT ![n] = FALSE]
  /\ wire' = [wire EXCEPT ![n] = <<>>]
  /\ UNCHANGED <<pc, running, should_halt, attempt, knock, queueVars, workerVars>>

-----------------------------------------------------------------------------
Main(n) ==
  \/ WaitTick(n) \/ WaitHalted(n) \/ StartWorkers(n) \/ WorkersReady(n)
  \/ InnerTick(n) \/ Teardown(n) \/ Join(n) \/ Shutdown(n)

Work(n, m) == InitSucceeds(n, m) \/ InitFails(n, m) \/ PassBarrier(n, m) \/ WorkerStops(n, m) \/ WorkerHangs(n, m)

Environment ==
  \/ ConnectTimesOut
  \/ \E n \in Nodes : Sigint(n) \/ SigintAgain(n) \/ (MayLose /\ PeerTimesOut(n))

Next ==
  \/ BootLeader \/ BootField \/ ConnectSucceeds
  \/ \E n \in Nodes : Main(n)
  \/ \E n \in Nodes, m \in Modules : Work(n, m)
  \/ Environment

Spec == Init /\ [][Next]_vars

\* Both processes are started, and the operating system runs every thread
\* that can run.  Neither timeouts nor signals are obliged to happen.
FairSpec ==
  /\ Spec
  /\ WF_vars(BootLeader) /\ WF_vars(BootField) /\ WF_vars(ConnectSucceeds)
  /\ \A n \in Nodes : WF_vars(Main(n))
  /\ \A n \in Nodes, m \in Modules : WF_vars(Work(n, m))
-----------------------------------------------------------------------------
(* Properties                                                              *)

\* No module is ticked (nor torn down again) before every module of its node
\* has been initialised: what the condition variable, the counter and the
\* semaphore of spin and run_module are for.
NoTickBeforeAllReady ==
  \A n \in Nodes : \A m \in Modules :
    wpc[n][m] \in {"loop", "hung", "done"} =>
      \A k \in Modules : wpc[n][k] \in {"barrier", "loop", "hung", "done"}

\* When spin has returned no thread of a module is left: Node::shutdown may
\* delete the NodeModules that the threads use.
NoWorkerOutlivesSpin ==
  \A n \in Nodes : pc[n] \in {"spun", "down"} =>
    \A m \in Modules : wpc[n][m] \in {"none", "done"}

\* "Wait for start signal (All nodes have connected)" in spin: a node whose
\* modules are started has a peer to send to, unless that peer is gone again.
StartsConnected ==
  \A n \in Nodes : pc[n] \in {"sync", "inner", "join"} =>
    peer[n] \/ pc[Other(n)] \in {"down", "killed"}

InitFailed(n) == \E m \in Modules : wpc[n][m] = "failed"
ShutdownHangs(n) == \E m \in MayHang : wpc[n][m] = "hung"

\* Once Ctrl-C has been noticed by a node that is connected, spin returns and
\* the process ends, unless a module has failed to initialise, when spin waits
\* for the counter that module never decrements, or the shutdown of a module
\* does not return, when spin waits for its thread.
HaltTerminates ==
  \A n \in Nodes :
    (should_halt[n] /\ pc[n] # "connecting") ~> (pc[n] \in {"down", "killed"} \/ InitFailed(n) \/ ShutdownHangs(n))

\* The START that the field node publishes once it is connected brings up
\* all modules of both nodes, unless one fails or somebody presses Ctrl-C.
StartReachesBoth ==
  (pc[Field] = "wait") ~>
    \/ \A n \in Nodes, m \in Modules : wpc[n][m] = "loop"
    \/ \E n \in Nodes : should_halt[n] \/ InitFailed(n)

\* A node that tears its modules down makes the other node do the same: the
\* STOP it publishes is transmitted by the one network_tick after it.  The
\* exceptions are a packet that is lost and a module that failed: a module that
\* hangs does not keep the STOP from going out.  (Nothing is
\* promised of a node interrupted while it waits for START: it ends silently,
\* and the other node, which may have the START already, runs on.)
TeardownReachesPeer ==
  \A n \in Nodes :
    (pc[n] = "join") ~>
      [](pc[Other(n)] \notin {"sync", "inner"} \/ ~peer[Other(n)] \/ InitFailed(Other(n)))

-----------------------------------------------------------------------------
(* The inductive invariants behind the three safety properties.            *)

\* How far the threads of the modules can be, for each place of the main
\* thread; while it waits for them the counter counts the unready ones.
WorkersFollowMain(n) ==
  /\ pc[n] \in {"off", "connecting", "wait"} =>
       sem[n] = 0 /\ \A m \in Modules : wpc[n][m] = "none"
  /\ pc[n] = "sync" =>
       /\ sem[n] = 0
       /\ \A m \in Modules : wpc[n][m] \in {"init", "failed", "barrier"}
       /\ not_ready[n] = Cardinality({m \in Modules : wpc[n][m] \in {"init", "failed"}})
  /\ pc[n] \in {"inner", "join"} =>
       \A m \in Modules : wpc[n][m] \in {"barrier", "loop", "hung", "done"}
  /\ pc[n] \in {"spun", "down"} =>
       \E w \in {"none", "done"} : \A m \in Modules : wpc[n][m] = w
  /\ pc[n] = "killed" => \A m \in Modules : wpc[n][m] = "none"

\* Barrier and join keep the threads of a node in step with its main thread.
WorkerInv == \A n \in Nodes : WorkersFollowMain(n)

Gone(n) == pc[n] \in {"down", "killed"}

\* Before the field node is connected the leader has heard nothing; from
\* then on each side has its peer, or is about to be told of it before any
\* packet is looked at.
LinkInv ==
  /\ pc[Field] \in {"off", "connecting"} =>
       /\ ~running[Leader] /\ pc[Leader] \notin {"sync", "inner", "join"}
       /\ wire[Leader] = <<>> /\ lifesub[Leader] = <<>>
  /\ pc[Leader] = "off" => pc[Field] \in {"off", "connecting", "killed"}
  /\ pc[Field] \notin {"off", "connecting", "down", "killed"} =>
       /\ peer[Field] \/ Gone(Leader)
       /\ peer[Leader] \/ knock[Leader] \/ Gone(Leader)
  /\ running[Leader] \/ pc[Leader] \in {"sync", "inner", "join"} =>
       peer[Leader] \/ Gone(Leader) \/ Gone(Field)
=============================================================================
