----------------------------- MODULE PubSubNetwork -----------------------------
(***************************************************************************)
(* Topics across the two processes of a running system: the registry of    *)
(* module TopicRegistry together with the forwarding of messages by        *)
(* Node::network_tick (src/core/Node.cpp) over the ENet connection of      *)
(* src/core/Network.cpp.  A topic given to network_advertise has a         *)
(* networked subscriber; the main thread sends what it gets to the peer,   *)
(* and what comes from the peer goes to the local subscribers.             *)
(*                                                                         *)
(* ENet is external: its packets arrive once and in order while the        *)
(* connection lasts.  The client connects once, when it starts; the server *)
(* learns of it by an event.  network_tick is one step: only the queues of *)
(* the subscribers are shared with the threads of the modules, and module  *)
(* MessageQueue has the single accesses to them.  A queue is a ring that   *)
(* does not test whether it is full: the message that fills it makes it    *)
(* look empty, and with that one all that waited in it are gone.           *)
(*                                                                         *)
(* A process connects, makes its early calls, and waits in Node::spin,     *)
(* ticking the network.  Then its modules initialise, which takes calls    *)
(* too, while spin waits for them and does not tick; then it ticks again.  *)
(* What makes spin go on is the matter of NodeLifecycle: here it may at    *)
(* any time.                                                               *)
(***************************************************************************)
EXTENDS TopicRegistry, Sequences, SequencesExt, FiniteSets, FiniteSetsExt

CONSTANTS
  Server, Client,   \* the two nodes
  EarlyCalls,       \* the calls <<node, topic, operation>> that main makes
  ModuleCalls,      \* those that the modules make when they are initialised
  MainTopics,       \* topics that the main thread publishes
  SLOTS,            \* DEFAULT_QUEUE_SIZE of a subscriber's ring (16 in the code)
  LIMIT,            \* the event at which Network::tick stops (100 in the code)
  MaxPublish,       \* bound on the messages published
  MaxRestarts       \* bound on the restarts

ASSUME NetworkAssumption ==
  /\ Nodes = {Server, Client} /\ Server # Client
  /\ EarlyCalls \cup ModuleCalls \subseteq Nodes \X Topics \X Op
  /\ MainTopics \subseteq Topics /\ IsFiniteSet(Topics)
  /\ {SLOTS, LIMIT, MaxPublish, MaxRestarts} \subseteq Nat /\ SLOTS > 0 /\ LIMIT > 0

VARIABLES
  out,          \* out[n][t]: ring of n's networked subscriber of topic t
  inbox,        \* inbox[n][t]: what n's local subscriber of t has read or will read,
  unread,       \* unread[n][t]: of which so many, the last, are in its ring
  arrived,      \* arrived[n]: ENet events that n has not fetched
  peer,         \* peer[n]: ctx.peer is set
  link,         \* the connection of ENet stands
  started,      \* started[n]: the process has been through Network's connect or serve
  \* History:
  published,    \* published[n][t]: number of messages n has published on t
  overrun,      \* the rings that were filled up since their node started
  burst,        \* nodes that fetched LIMIT events in one tick since they started
  broken,       \* nodes whose connection ended since they started
  restarts

queueVars == <<out, inbox, unread, published, overrun>>
linkVars == <<arrived, peer, link, started>>
ghosts == <<burst, broken, restarts>>
netVars == <<queueVars, linkVars, ghosts>>
vars == <<registryVars, netVars>>

Other(n) == IF n = Server THEN Client ELSE Server
Empty == [t \in Topics |-> <<>>]
NoneUnread == [t \in Topics |-> 0]

NetworkInit ==
  /\ RegistryInit
  /\ out = [n \in Nodes |-> Empty]
  /\ inbox = [n \in Nodes |-> Empty]
  /\ unread = [n \in Nodes |-> NoneUnread]
  /\ arrived = [n \in Nodes |-> <<>>]
  /\ peer = [n \in Nodes |-> FALSE]
  /\ link = FALSE
  /\ started = [n \in Nodes |-> FALSE]
  /\ published = [n \in Nodes |-> [t \in Topics |-> 0]]
  /\ overrun = {} /\ burst = {} /\ broken = {} /\ restarts = 0

-----------------------------------------------------------------------------
(* Starting                                                                *)

\* The call <<n, t, o>> has been made.
Made(c) ==
  CASE c[3] = "subscribe" -> c[2] \in subscribed[c[1]]
    [] c[3] = "network_advertise" -> c[2] \in networked[c[1]]
    [] OTHER -> publishers[c[1]][c[2]] # 0

\* spin waits for START, ticking the network.
Waiting(n) ==
  /\ started[n] /\ pc[n] = "idle"
  /\ \A c \in EarlyCalls : c[1] = n => Made(c)
  /\ \A c \in ModuleCalls : c[1] = n => ~Made(c)

\* All modules are initialised.
Running(n) ==
  /\ started[n] /\ pc[n] = "idle"
  /\ \A c \in EarlyCalls \cup ModuleCalls : c[1] = n => Made(c)

\* The nodes whose main thread ticks the network.
Ticking == {n \in Nodes : Waiting(n) \/ Running(n)}

\* The topics that the threads of n publish and read now.
InUse(n) == {t \in Topics : Running(n) \/ (Waiting(n) /\ t \in MainTopics)}

\* The calls that n may make now: main's before those of the modules.
Due(n) ==
  LET early == {c \in EarlyCalls : c[1] = n /\ ~Made(c)}
      late == {c \in ModuleCalls : c[1] = n /\ ~Made(c)}
  IN  IF ~started[n] THEN {} ELSE IF early # {} THEN early ELSE late

\* The rings of a node.
Local(n, t) == <<n, t, "local">>
Networked(n, t) == <<n, t, "networked">>
RingsOf(n) == {n} \X Topics \X {"local", "networked"}

(* Connections                                                             *)

\* Network::start_host
Serve ==
  /\ ~started[Server]
  /\ started' = [started EXCEPT ![Server] = TRUE]
  /\ UNCHANGED <<registryVars, queueVars, arrived, peer, link, ghosts>>

\* Network::connect waits for the connection, for which the server must tick.
\* The server's host has one peer, which is free again when the end of the
\* last connection has been fetched.
Connect ==
  /\ ~started[Client] /\ ~link
  /\ Server \in Ticking
  /\ \A i \in DOMAIN arrived[Server] : arrived[Server][i].type # "disconnect"
  /\ started' = [started EXCEPT ![Client] = TRUE]
  /\ peer' = [peer EXCEPT ![Client] = TRUE]
  /\ arrived' = [arrived EXCEPT ![Server] = Append(@, [type |-> "connect"])]
  /\ link' = TRUE
  /\ UNCHANGED <<registryVars, queueVars, ghosts>>

\* A process ends and starts again.  What it had sent arrives up to some
\* packet, and then the other side sees the connection end.
NodeRestart(n) ==
  /\ Restart(n)
  /\ restarts < MaxRestarts
  /\ restarts' = restarts + 1
  /\ out' = [out EXCEPT ![n] = Empty]
  /\ inbox' = [inbox EXCEPT ![n] = Empty]
  /\ unread' = [unread EXCEPT ![n] = NoneUnread]
  /\ started' = [started EXCEPT ![n] = FALSE]
  /\ peer' = [peer EXCEPT ![n] = FALSE]
  /\ link' = FALSE
  /\ \E k \in 0 .. Len(arrived[Other(n)]) :
       arrived' = [arrived EXCEPT ![n] = <<>>,
                                  ![Other(n)] = IF link THEN Append(SubSeq(@, 1, k), [type |-> "disconnect"]) ELSE @]
  /\ broken' = IF link THEN (broken \cup {Other(n)}) \ {n} ELSE broken \ {n}
  /\ burst' = burst \ {n}
  /\ overrun' = overrun \ RingsOf(n)
  /\ UNCHANGED published

-----------------------------------------------------------------------------
(* Messages                                                                *)

\* Subscriber::push of m, to a subscriber who has or will get q, the last u of
\* it from its ring: head_ moves on, and if it reaches tail_ the ring is empty.
Pushed(q, u, m) == IF u + 1 = SLOTS THEN SubSeq(q, 1, Len(q) - u) ELSE Append(q, m)
InRing(u) == (u + 1) % SLOTS

\* All that were published, as <<node, topic>> and a number.
SumPublished == Cardinality(UNION {{p} \X (1 .. published[p[1]][p[2]]) : p \in Nodes \X Topics})

\* Publisher::publish: every subscriber of the topic gets the message.
Publish(n, t) ==
  /\ publishers[n][t] # 0
  /\ t \in InUse(n)
  /\ SumPublished < MaxPublish
  /\ published' = [published EXCEPT ![n][t] = @ + 1]
  /\ LET m == [from |-> n, topic |-> t, seq |-> published[n][t] + 1]
     IN  /\ out' = IF t \in networked[n] THEN [out EXCEPT ![n][t] = Pushed(@, Len(@), m)] ELSE out
         /\ inbox' = IF t \in subscribed[n] THEN [inbox EXCEPT ![n][t] = Pushed(@, unread[n][t], m)] ELSE inbox
         /\ unread' = IF t \in subscribed[n] THEN [unread EXCEPT ![n][t] = InRing(@)] ELSE unread
  /\ overrun' = overrun \cup {r \in {Local(n, t), Networked(n, t)} :
       \/ r = Local(n, t) /\ t \in subscribed[n] /\ unread[n][t] + 1 = SLOTS
       \/ r = Networked(n, t) /\ t \in networked[n] /\ Len(out[n][t]) + 1 = SLOTS}
  /\ UNCHANGED <<registryVars, linkVars, ghosts>>

\* Subscriber::next, by the module that subscribed or by main.
ReadNext(n, t) ==
  /\ unread[n][t] > 0
  /\ t \in InUse(n)
  /\ unread' = [unread EXCEPT ![n][t] = @ - 1]
  /\ UNCHANGED <<registryVars, out, inbox, published, overrun, linkVars, ghosts>>

\* The queue of one networked subscriber, each message with the number of its
\* channel.
Packets(n, t) ==
  [k \in DOMAIN out[n][t] |-> [type |-> "receive", channel |-> publishers[n][t], msg |-> out[n][t][k]]]

\* Mutant: packets sent without a sequence overtake those on their way.
TransmittedUnsequenced(n, order) ==
  LET wire[k \in 0 .. Len(order)] ==
        IF k = 0 THEN arrived[Other(n)] ELSE Packets(n, order[k]) \o wire[k - 1]
  IN  IF peer[n] /\ link THEN wire[Len(order)] ELSE arrived[Other(n)]

\* What is on its way to the other node when n has sent the queues of its
\* networked subscribers, one after the other.  Without a peer, or when the
\* connection has ended, what is sent is lost.
Transmitted(n, order) ==
  LET wire[k \in 0 .. Len(order)] ==
        IF k = 0 THEN arrived[Other(n)] ELSE wire[k - 1] \o Packets(n, order[k])
  IN  IF peer[n] /\ link THEN wire[Len(order)] ELSE arrived[Other(n)]

\* Of k events at hand, Network::tick handles this many.
Handled(k) == IF k >= LIMIT THEN LIMIT - 1 ELSE k

\* Mutant: whatever ends the loop, one more event has been fetched.
FetchedOneMore(k) == Min({k + 1, LIMIT})

\* The event with number LIMIT is fetched as well, and dropped.
Fetched(k) == Min({k, LIMIT})

\* handle_connect, handle_disconnect
PeerAfter(p, e) ==
  CASE e.type = "connect" -> TRUE
    [] e.type = "disconnect" -> FALSE
    [] OTHER -> p

\* A packet goes to the local subscribers of the topic whose publisher has
\* its channel.
GoesTo(n, t, e) == e.type = "receive" /\ t \in subscribed[n] /\ e.channel = publishers[n][t]
Delivered(n, boxes, us, e) ==
  [t \in Topics |-> IF GoesTo(n, t, e) THEN Pushed(boxes[t], us[t], e.msg) ELSE boxes[t]]

\* How many are then unread, and the rings that the packet fills up.
StillUnread(n, us, e) == [t \in Topics |-> IF GoesTo(n, t, e) THEN InRing(us[t]) ELSE us[t]]
FilledUp(n, us, e) == {Local(n, t) : t \in {x \in Topics : GoesTo(n, x, e) /\ us[x] + 1 = SLOTS}}

\* What the first k events make of n's peer, inboxes and rings.
AfterEvents(n, k) ==
  LET after[i \in 0 .. k] ==
        IF i = 0 THEN [peer |-> peer[n], inbox |-> inbox[n], unread |-> unread[n], overrun |-> overrun]
        ELSE LET b == after[i - 1]
                 e == arrived[n][i]
             IN  [peer |-> PeerAfter(b.peer, e),
                  inbox |-> Delivered(n, b.inbox, b.unread, e),
                  unread |-> StillUnread(n, b.unread, e),
                  overrun |-> b.overrun \cup FilledUp(n, b.unread, e)]
  IN  after[k]

\* Node::network_tick, when k events have arrived: first everything is sent,
\* then the events are handled.
NetworkTick(n, order, k) ==
  LET after == AfterEvents(n, Handled(k))
  IN  /\ n \in Ticking
      /\ k <= Len(arrived[n])
      /\ out' = [out EXCEPT ![n] = [t \in Topics |-> IF t \in ToSet(order) THEN <<>> ELSE @[t]]]
      /\ arrived' = [arrived EXCEPT ![n] = SubSeq(@, Fetched(k) + 1, Len(@)),
                                    ![Other(n)] = Transmitted(n, order)]
      /\ peer' = [peer EXCEPT ![n] = after.peer]
      /\ inbox' = [inbox EXCEPT ![n] = after.inbox]
      /\ unread' = [unread EXCEPT ![n] = after.unread]
      /\ overrun' = after.overrun
      /\ burst' = IF k >= LIMIT THEN burst \cup {n} ELSE burst
      /\ UNCHANGED <<registryVars, link, started, published, broken, restarts>>

NetworkNext ==
  \/ Serve \/ Connect
  \/ \E n \in Nodes :
       \/ \E c \in Due(n) : (Reuse(n, c[2], c[3]) \/ Lookup(n, c[2], c[3])) /\ UNCHANGED netVars
       \/ (Incr(n) \/ Zadd(n) \/ Zscore(n) \/ Insert(n)) /\ UNCHANGED netVars
       \/ NodeRestart(n)
       \/ \E t \in Topics : Publish(n, t) \/ ReadNext(n, t)
       \/ \E order \in SetToSeqs(networked[n]), k \in 0 .. Len(arrived[n]) : NetworkTick(n, order, k)

NetworkSpec == NetworkInit /\ [][NetworkNext]_vars

-----------------------------------------------------------------------------
(* Properties                                                              *)

\* A subscriber gets messages of its own topic only, those of one sender in
\* the order in which they were published and none twice: nothing that was
\* forwarded comes back, although both nodes may forward the same topic.
ForwardedInOrder ==
  \A n \in Nodes, t \in Topics :
    LET q == inbox[n][t] IN
    /\ \A i \in DOMAIN q : q[i].topic = t
    /\ \A i, j \in DOMAIN q : i < j /\ q[i].from = q[j].from => q[i].seq < q[j].seq

\* Messages of m in a queue, and of topic t among the events after the first k,
\* by their numbers.
NumbersIn(q, m) == {q[i].seq : i \in {j \in DOMAIN q : q[j].from = m}}
NumbersOf(es, k, t) ==
  {es[i].msg.seq : i \in {j \in DOMAIN es : j > k /\ es[j].type = "receive" /\ es[j].msg.topic = t}}

\* The last messages of those published, without a gap.
Latest(S, pub) == \E lo \in 1 .. pub + 1 : S = lo .. pub

\* A subscriber gets everything that its own node publishes once the first of
\* it has come, unless its ring is filled up before it is read.
OwnMessagesReach ==
  \A n \in Nodes, t \in Topics :
    Local(n, t) \in overrun \/ Latest(NumbersIn(inbox[n][t], n), published[n][t])

\* And what the other node publishes: those that have come, those on their way
\* and those that wait to be sent are the last ones published, none missing,
\* unless a connection of one of the two ended, or the receiver fetched as many
\* events in one tick as the limit, the last of which is thrown away, or a
\* ring at one end or the other was filled up before it was read.
OthersMessagesReach ==
  \A n \in Nodes, t \in Topics :
    LET m == Other(n) IN
    \/ n \in burst \/ {n, m} \cap broken # {} \/ {Local(n, t), Networked(m, t)} \cap overrun # {}
    \/ Latest(NumbersIn(inbox[n][t], m) \cup NumbersOf(arrived[n], 0, t) \cup NumbersIn(out[m][t], m),
              published[m][t])

\* A node that has handled all its events knows whether it is connected,
\* unless the limit threw the event away.
PeerMatchesLink ==
  \A n \in Nodes \ burst : started[n] /\ arrived[n] = <<>> => peer[n] = link

\* Nothing but the end of a connection, the limit of Network::tick and a ring
\* that is filled up before it is read loses messages and events.
LossOnlyAtLimit == OwnMessagesReach /\ OthersMessagesReach /\ PeerMatchesLink

-----------------------------------------------------------------------------
(* The inductive invariant behind them.                                    *)

Message == [from : Nodes, topic : Topics, seq : Nat \ {0}]
Packet == [type : {"receive"}, channel : Nat, msg : Message]
Event == Packet \cup [type : {"connect", "disconnect"}]

NetworkTypeOK ==
  /\ out \in [Nodes -> [Topics -> Seq(Message)]]
  /\ inbox \in [Nodes -> [Topics -> Seq(Message)]]
  /\ unread \in [Nodes -> [Topics -> Nat]]
  /\ arrived \in [Nodes -> Seq(Event)]
  /\ peer \in [Nodes -> BOOLEAN] /\ link \in BOOLEAN /\ started \in [Nodes -> BOOLEAN]
  /\ published \in [Nodes -> [Topics -> Nat]]
  /\ burst \subseteq Nodes /\ broken \subseteq Nodes

\* Whoever subscribes or forwards a topic has its publisher.
SubscribersHavePublisher ==
  \A n \in Nodes : \A t \in subscribed[n] \cup networked[n] : publishers[n][t] # 0

\* The messages of one sender are in order.
Ascending(q) == \A i, j \in DOMAIN q : i < j /\ q[i].from = q[j].from => q[i].seq < q[j].seq

\* A subscriber's queue: of its topic, in order, and empty before there is one.
InboxSound(n, t, q, over) ==
  /\ \A i \in DOMAIN q : q[i].topic = t
  /\ Ascending(q)
  /\ q # <<>> => t \in subscribed[n]
  \* Every message that n publishes itself since it subscribed is there.
  /\ Local(n, t) \notin over => Latest(NumbersIn(q, n), published[n][t])
  /\ NumbersIn(q, n) \subseteq 1 .. published[n][t]

\* A forwarding queue holds the latest messages.
OutSound(n, t, q) ==
  /\ \A i \in DOMAIN q : q[i].topic = t /\ q[i].from = n
  /\ Ascending(q)
  /\ q # <<>> => t \in networked[n]
  /\ Latest(NumbersIn(q, n), published[n][t])

\* Events on their way to n: packets of the other node, under the number that
\* the registry has given to the topic, in order, and the end of a connection
\* only if it is one of those that ended.
WireSound(n, es, ended) ==
  /\ \A i \in DOMAIN es : es[i].type = "receive" =>
       /\ es[i].msg.from = Other(n)
       /\ es[i].channel = topics[es[i].msg.topic] /\ es[i].channel # 0
  /\ \A i, j \in DOMAIN es :
       i < j /\ es[i].type = "receive" /\ es[j].type = "receive" /\ es[i].msg.topic = es[j].msg.topic =>
         es[i].msg.seq < es[j].msg.seq
  /\ \A i \in DOMAIN es : es[i].type = "disconnect" => n \in ended

Before(S, T) == \A x \in S, y \in T : x < y

\* The way of topic t to node n: what has come, what the events after the
\* first k hold, and what waits to be sent come one after the other; together
\* they are the latest that were published, if nothing has been lost.  While n
\* has seen no connection end, what has come or is on its way came over the
\* one that stands.
WaySound(n, t, q, k, over) ==
  LET m == Other(n)
      come == NumbersIn(q, m)
      way == NumbersOf(arrived[n], k, t)
      wait == NumbersIn(out[m][t], m)
  IN  /\ Before(come, way) /\ Before(come, wait) /\ Before(way, wait)
      /\ come \cup way \cup wait \subseteq 1 .. published[m][t]
      /\ n \notin burst /\ {n, m} \cap broken = {} /\ {Local(n, t), Networked(m, t)} \cap over = {} =>
           Latest(come \cup way \cup wait, published[m][t])
      /\ come \cup way # {} /\ n \notin broken =>
           link /\ t \in networked[m] /\ (m \notin broken => peer[m])

\* What a node will think of its connection once it has handled the events
\* after the first k.
PeerInTheEnd(p, es, k) ==
  LET told == {i \in DOMAIN es : i > k /\ es[i].type # "receive"}
  IN  \/ told = {} /\ p
      \/ \E i \in told : es[i].type = "connect" /\ \A j \in told : j <= i

QueuesInv ==
  \A n \in Nodes : \A t \in Topics : InboxSound(n, t, inbox[n][t], overrun) /\ OutSound(n, t, out[n][t])
WireInv == \A n \in Nodes : WireSound(n, arrived[n], broken)
WayInv == \A n \in Nodes : \A t \in Topics : WaySound(n, t, inbox[n][t], 0, overrun)

\* A node that has not started has nothing, and a connection has two ends.
LinkInv ==
  /\ \A n \in Nodes : ~started[n] => ~peer[n] /\ arrived[n] = <<>> /\ inbox[n] = Empty
  /\ link => \A n \in Nodes : started[n]
  /\ \A n \in Nodes \ burst : started[n] => (PeerInTheEnd(peer[n], arrived[n], 0) <=> link)

NetworkInv ==
  NetworkTypeOK /\ SubscribersHavePublisher /\ QueuesInv /\ WireInv /\ WayInv /\ LinkInv
=============================================================================
