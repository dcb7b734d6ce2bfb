---------------------------- MODULE TopicRegistry ----------------------------
(***************************************************************************)
(* How the nodes of a running system agree on the channel number of a      *)
(* topic (Node::advertise, Node::subscribe and Node::network_advertise in  *)
(* include/core/Node.h).  The nodes share nothing but a Redis server,      *)
(* where "topic:topics" maps a topic to its number and "topic:next_id"     *)
(* counts the numbers given out.  Every Redis command is atomic; another   *)
(* node's commands may come between any two of them.  Inside a node the    *)
(* three operations hold monitor_mutex_, so that a node is one process.    *)
(*                                                                         *)
(* A node may be stopped at any moment and started again: it forgets its   *)
(* publishers, the Redis server forgets nothing.                           *)
(***************************************************************************)
EXTENDS Naturals

CONSTANTS
  Nodes,    \* the processes of the system
  Topics,   \* topic names
  MaxId     \* bound on the channel numbers given out

ASSUME MaxIdAssumption == MaxId \in Nat
ASSUME TopicsAssumption == Topics # {}

VARIABLES
  topics,       \* topics[t]: the score of t in "topic:topics", 0 if absent
  next_id,      \* "topic:next_id"
  publishers,   \* publishers[n][t]: channel_id_ of n's publisher, 0 if none
  subscribed,   \* subscribed[n]: topics with a local subscriber on n
  networked,    \* networked[n]: topics whose messages n forwards
  pc,           \* pc[n]: where n is in advertise
  op,           \* op[n]: the operation that called advertise
  topic,        \* topic[n]: its argument
  id            \* id[n]: the local variable of advertise

kvVars == <<topics, next_id>>
nodeVars == <<publishers, subscribed, networked>>
callVars == <<pc, op, topic, id>>
registryVars == <<kvVars, nodeVars, callVars>>

Op == {"advertise", "subscribe", "network_advertise"}

RegistryTypeOK ==
  /\ topics \in [Topics -> Nat]
  /\ next_id \in Nat
  /\ publishers \in [Nodes -> [Topics -> Nat]]
  /\ subscribed \in [Nodes -> SUBSET Topics]
  /\ networked \in [Nodes -> SUBSET Topics]
  /\ pc \in [Nodes -> {"idle", "incr", "zadd", "zscore", "insert"}]
  /\ op \in [Nodes -> Op]
  /\ topic \in [Nodes -> Topics]
  /\ id \in [Nodes -> Nat]

RegistryInit ==
  /\ topics = [t \in Topics |-> 0]
  /\ next_id = 0
  /\ publishers = [n \in Nodes |-> [t \in Topics |-> 0]]
  /\ subscribed = [n \in Nodes |-> {}]
  /\ networked = [n \in Nodes |-> {}]
  /\ pc = [n \in Nodes |-> "idle"]
  /\ op = [n \in Nodes |-> "advertise"]
  /\ topic = [n \in Nodes |-> CHOOSE t \in Topics : TRUE]
  /\ id = [n \in Nodes |-> 0]

-----------------------------------------------------------------------------
\* What the caller does with the publisher that advertise returns.  A
\* networked subscriber is a subscriber too, but never of the local kind.
Finish(n, t, o) ==
  /\ subscribed' = [subscribed EXCEPT ![n] = IF o = "subscribe" THEN @ \cup {t} ELSE @]
  /\ networked' = [networked EXCEPT ![n] = IF o = "network_advertise" THEN @ \cup {t} ELSE @]

\* The topic already has a publisher on this node.
Reuse(n, t, o) ==
  /\ pc[n] = "idle"
  /\ publishers[n][t] # 0
  /\ Finish(n, t, o)
  /\ UNCHANGED <<kvVars, publishers, callVars>>

\* ZSCORE topic:topics t
Lookup(n, t, o) ==
  /\ pc[n] = "idle"
  /\ publishers[n][t] = 0
  /\ next_id < MaxId
  /\ topic' = [topic EXCEPT ![n] = t]
  /\ op' = [op EXCEPT ![n] = o]
  /\ pc' = [pc EXCEPT ![n] = IF topics[t] # 0 THEN "insert" ELSE "incr"]
  /\ id' = [id EXCEPT ![n] = topics[t]]
  /\ UNCHANGED <<kvVars, nodeVars>>

\* Mutant: the counter is read but not advanced.
IncrReadsOnly(n) ==
  /\ pc[n] = "incr"
  /\ id' = [id EXCEPT ![n] = next_id + 1]
  /\ pc' = [pc EXCEPT ![n] = "zadd"]
  /\ UNCHANGED <<kvVars, nodeVars, op, topic>>

\* INCR topic:next_id
Incr(n) ==
  /\ pc[n] = "incr"
  /\ next_id' = next_id + 1
  /\ id' = [id EXCEPT ![n] = next_id + 1]
  /\ pc' = [pc EXCEPT ![n] = "zadd"]
  /\ UNCHANGED <<topics, nodeVars, op, topic>>

\* ZADD topic:topics NX id t: does nothing if the topic is there already.
Zadd(n) ==
  /\ pc[n] = "zadd"
  /\ topics' = [topics EXCEPT ![topic[n]] = IF @ = 0 THEN id[n] ELSE @]
  /\ pc' = [pc EXCEPT ![n] = "zscore"]
  /\ UNCHANGED <<next_id, nodeVars, op, topic, id>>

\* Mutant: the number just drawn is used without reading it back.
ZscoreSkipped(n) ==
  /\ pc[n] = "zscore"
  /\ pc' = [pc EXCEPT ![n] = "insert"]
  /\ UNCHANGED <<kvVars, nodeVars, op, topic, id>>

\* ZSCORE topic:topics t once more, for the number that won.
Zscore(n) ==
  /\ pc[n] = "zscore"
  /\ id' = [id EXCEPT ![n] = topics[topic[n]]]
  /\ pc' = [pc EXCEPT ![n] = "insert"]
  /\ UNCHANGED <<kvVars, nodeVars, op, topic>>

\* publishers_[topic] and publishers_by_channel_, and back to the caller.
Insert(n) ==
  /\ pc[n] = "insert"
  /\ publishers' = [publishers EXCEPT ![n][topic[n]] = id[n]]
  /\ Finish(n, topic[n], op[n])
  /\ pc' = [pc EXCEPT ![n] = "idle"]
  /\ UNCHANGED <<kvVars, op, topic, id>>

\* The process ends, wherever it is, and a new one takes its place.
Restart(n) ==
  /\ publishers' = [publishers EXCEPT ![n] = [t \in Topics |-> 0]]
  /\ subscribed' = [subscribed EXCEPT ![n] = {}]
  /\ networked' = [networked EXCEPT ![n] = {}]
  /\ pc' = [pc EXCEPT ![n] = "idle"]
  /\ UNCHANGED <<kvVars, op, topic, id>>

Advertise(n) ==
  \/ \E t \in Topics, o \in Op : Reuse(n, t, o) \/ Lookup(n, t, o)
  \/ Incr(n)
  \/ Zadd(n)
  \/ Zscore(n)
  \/ Insert(n)

RegistryNext == \E n \in Nodes : Advertise(n) \/ Restart(n)

RegistrySpec == RegistryInit /\ [][RegistryNext]_registryVars

-----------------------------------------------------------------------------
(* Properties                                                              *)

\* Two nodes that publish or subscribe on a topic use the same channel
\* number for it, whichever of them registered it first.
ChannelAgreement ==
  \A n, m \in Nodes : \A t \in Topics :
    publishers[n][t] # 0 /\ publishers[m][t] # 0 => publishers[n][t] = publishers[m][t]

\* Different topics have different channel numbers, on all nodes, so that
\* Node::network_tick cannot hand a packet to the subscribers of another
\* topic.
ChannelsDistinct ==
  \A n, m \in Nodes : \A t, u \in Topics :
    t # u /\ publishers[n][t] # 0 => publishers[n][t] # publishers[m][u]

\* The assertion "Failed to add topic to Key Value store" in advertise.
AddedToStore == \A n \in Nodes : pc[n] = "insert" => id[n] # 0

\* The number of a registered topic never changes again, so that a node that
\* cached it in a Publisher never needs to ask again.
RegistrationIsFinal ==
  [][\A t \in Topics : topics[t] # 0 => topics'[t] = topics[t]]_registryVars

-----------------------------------------------------------------------------
(* The inductive invariant behind the first three.                         *)

\* Registered numbers come from the counter and are pairwise different.
NumbersUnique ==
  /\ \A t \in Topics : topics[t] <= next_id
  /\ \A t, u \in Topics : t # u /\ topics[t] # 0 => topics[t] # topics[u]

\* A number that a node has drawn and not yet registered is nobody else's.
DrawnIsFresh ==
  \A n \in Nodes : pc[n] = "zadd" =>
    /\ id[n] # 0
    /\ id[n] <= next_id
    /\ \A t \in Topics : topics[t] # id[n]
    /\ \A m \in Nodes : m # n /\ pc[m] = "zadd" => id[m] # id[n]

\* A node's view of a topic is what the store says.
ViewsMatchStore ==
  /\ \A n \in Nodes : \A t \in Topics :
       publishers[n][t] # 0 => publishers[n][t] = topics[t]
  /\ \A n \in Nodes : pc[n] = "zscore" => topics[topic[n]] # 0
  /\ \A n \in Nodes : pc[n] = "insert" => id[n] # 0 /\ id[n] = topics[topic[n]]

\* Drawn numbers are fresh until registered, registered numbers are unique,
\* and every node's publishers carry the registered number.
RegistryInv == NumbersUnique /\ DrawnIsFresh /\ ViewsMatchStore
=============================================================================
