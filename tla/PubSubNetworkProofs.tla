------------------------- MODULE PubSubNetworkProofs -------------------------
(***************************************************************************)
(* The registry, for any number of nodes and topics, with nodes restarting *)
(* at any time: the nodes agree on the channel of a topic and no two       *)
(* topics share one.  The forwarding of messages leaves the registry       *)
(* alone: every step of PubSubNetwork is one of TopicRegistry or changes   *)
(* none of its variables, so that what is proved of the registry holds of  *)
(* the running system.                                                     *)
(*                                                                         *)
(* The messages, for any topics, calls, limit and number of messages and   *)
(* restarts: forwarding keeps their order, and nothing but the end of a    *)
(* connection, the limit of Network::tick and a ring that is filled up     *)
(* loses any.                                                              *)
(***************************************************************************)
EXTENDS PubSubNetwork, ArithmeticLemmas, FiniteSetTheorems, SequenceTheorems, TLAPS

-----------------------------------------------------------------------------
(* The registry                                                            *)

\* Every variable keeps its type.
THEOREM RegistryTypeCorrect == RegistrySpec => []RegistryTypeOK
<1>1. RegistryInit => RegistryTypeOK
  BY TopicsAssumption DEF RegistryInit, RegistryTypeOK, Op
<1>2. RegistryTypeOK /\ [RegistryNext]_registryVars => RegistryTypeOK'
  <2> SUFFICES ASSUME RegistryTypeOK, [RegistryNext]_registryVars PROVE RegistryTypeOK'
    OBVIOUS
  <2> USE DEF RegistryTypeOK, kvVars, nodeVars, callVars
  <2>1. ASSUME NEW n \in Nodes, NEW t \in Topics, NEW o \in Op, Reuse(n, t, o)
        PROVE  RegistryTypeOK'
    BY <2>1 DEF Reuse, Finish
  <2>2. ASSUME NEW n \in Nodes, NEW t \in Topics, NEW o \in Op, Lookup(n, t, o)
        PROVE  RegistryTypeOK'
    BY <2>2 DEF Lookup
  <2>3. ASSUME NEW n \in Nodes, Incr(n) PROVE RegistryTypeOK'
    BY <2>3 DEF Incr
  <2>4. ASSUME NEW n \in Nodes, Zadd(n) PROVE RegistryTypeOK'
    BY <2>4 DEF Zadd
  <2>5. ASSUME NEW n \in Nodes, Zscore(n) PROVE RegistryTypeOK'
    BY <2>5 DEF Zscore
  <2>6. ASSUME NEW n \in Nodes, Insert(n) PROVE RegistryTypeOK'
    BY <2>6 DEF Insert, Finish
  <2>7. ASSUME NEW n \in Nodes, Restart(n) PROVE RegistryTypeOK'
    BY <2>7 DEF Restart
  <2>8. CASE UNCHANGED registryVars
    BY <2>8 DEF registryVars
  <2> QED
    BY <2>1, <2>2, <2>3, <2>4, <2>5, <2>6, <2>7, <2>8 DEF RegistryNext, Advertise
<1> QED
  BY <1>1, <1>2, PTL DEF RegistrySpec

\* A drawn number stays fresh and a registered one stays unique.
THEOREM RegistryInvariant == RegistrySpec => []RegistryInv
<1>1. RegistryInit => RegistryInv
  BY DEF RegistryInit, RegistryInv, NumbersUnique, DrawnIsFresh, ViewsMatchStore
<1>2. RegistryTypeOK /\ RegistryInv /\ [RegistryNext]_registryVars => RegistryInv'
  <2> SUFFICES ASSUME RegistryTypeOK, RegistryInv, [RegistryNext]_registryVars
               PROVE  RegistryInv'
    OBVIOUS
  <2> USE DEF RegistryTypeOK, kvVars, nodeVars, callVars
  <2>1. ASSUME NEW n \in Nodes, NEW t \in Topics, NEW o \in Op, Reuse(n, t, o)
        PROVE  RegistryInv'
    BY <2>1 DEF Reuse, RegistryInv, NumbersUnique, DrawnIsFresh, ViewsMatchStore
  <2>2. ASSUME NEW n \in Nodes, NEW t \in Topics, NEW o \in Op, Lookup(n, t, o)
        PROVE  RegistryInv'
    BY <2>2 DEF Lookup, RegistryInv, NumbersUnique, DrawnIsFresh, ViewsMatchStore
  <2>3. ASSUME NEW n \in Nodes, Incr(n) PROVE RegistryInv'
    <3>1. NumbersUnique'
      BY <2>3 DEF Incr, RegistryInv, NumbersUnique
    <3>2. DrawnIsFresh'
      BY <2>3 DEF Incr, RegistryInv, NumbersUnique, DrawnIsFresh
    <3>3. ViewsMatchStore'
      BY <2>3 DEF Incr, RegistryInv, ViewsMatchStore
    <3> QED
      BY <3>1, <3>2, <3>3 DEF RegistryInv
  <2>4. ASSUME NEW n \in Nodes, Zadd(n) PROVE RegistryInv'
    <3>1. NumbersUnique'
      BY <2>4 DEF Zadd, RegistryInv, NumbersUnique, DrawnIsFresh
    <3>2. DrawnIsFresh'
      BY <2>4 DEF Zadd, RegistryInv, DrawnIsFresh
    <3>3. ViewsMatchStore'
      BY <2>4 DEF Zadd, RegistryInv, DrawnIsFresh, ViewsMatchStore
    <3> QED
      BY <3>1, <3>2, <3>3 DEF RegistryInv
  <2>5. ASSUME NEW n \in Nodes, Zscore(n) PROVE RegistryInv'
    BY <2>5 DEF Zscore, RegistryInv, NumbersUnique, DrawnIsFresh, ViewsMatchStore
  <2>6. ASSUME NEW n \in Nodes, Insert(n) PROVE RegistryInv'
    BY <2>6 DEF Insert, RegistryInv, NumbersUnique, DrawnIsFresh, ViewsMatchStore
  <2>7. ASSUME NEW n \in Nodes, Restart(n) PROVE RegistryInv'
    BY <2>7 DEF Restart, RegistryInv, NumbersUnique, DrawnIsFresh, ViewsMatchStore
  <2>8. CASE UNCHANGED registryVars
    BY <2>8 DEF registryVars, RegistryInv, NumbersUnique, DrawnIsFresh, ViewsMatchStore
  <2> QED
    BY <2>1, <2>2, <2>3, <2>4, <2>5, <2>6, <2>7, <2>8 DEF RegistryNext, Advertise
<1> QED
  BY <1>1, <1>2, RegistryTypeCorrect, PTL DEF RegistrySpec

\* All nodes use the same channel number for a topic, however their calls of
\* Node::advertise interleave and whenever they restart.
THEOREM NodesAgree == RegistrySpec => []ChannelAgreement
<1>1. RegistryInv => ChannelAgreement
  BY DEF RegistryInv, ViewsMatchStore, ChannelAgreement
<1> QED
  BY <1>1, RegistryInvariant, PTL

\* No two topics ever share a channel number, on any node.
THEOREM TopicsKeepApart == RegistrySpec => []ChannelsDistinct
<1>1. RegistryTypeOK /\ RegistryInv => ChannelsDistinct
  BY DEF RegistryTypeOK, RegistryInv, ViewsMatchStore, NumbersUnique, ChannelsDistinct
<1> QED
  BY <1>1, RegistryTypeCorrect, RegistryInvariant, PTL

\* The assertion in Node::advertise that the topic is in the store after the
\* ZADD cannot fail.
THEOREM AddedTopicIsFound == RegistrySpec => []AddedToStore
<1>1. RegistryInv => AddedToStore
  BY DEF RegistryInv, ViewsMatchStore, AddedToStore
<1> QED
  BY <1>1, RegistryInvariant, PTL

\* A channel number, once registered, is never changed or removed.
THEOREM RegistrationStays == RegistrySpec => RegistrationIsFinal
<1>1. RegistryTypeOK /\ [RegistryNext]_registryVars =>
        [\A t \in Topics : topics[t] # 0 => topics'[t] = topics[t]]_registryVars
  BY DEF RegistryTypeOK, RegistryNext, Advertise, Reuse, Lookup, Incr, Zadd, Zscore,
     Insert, Restart, kvVars
<1> QED
  BY <1>1, RegistryTypeCorrect, PTL DEF RegistrySpec, RegistrationIsFinal

-----------------------------------------------------------------------------
(* The running system                                                      *)

\* The calls that a node may make are calls of TopicRegistry.
LEMMA DueCalls ==
  ASSUME NEW n \in Nodes, NEW c \in Due(n)
  PROVE  c[2] \in Topics /\ c[3] \in Op
BY NetworkAssumption DEF Due

\* A step of the network system is a step of the registry or leaves it alone.
LEMMA NetworkStep == NetworkNext => [RegistryNext]_registryVars
<1> SUFFICES ASSUME NetworkNext PROVE [RegistryNext]_registryVars
  OBVIOUS
<1>1. CASE Serve \/ Connect
  BY <1>1 DEF Serve, Connect
<1>2. ASSUME NEW n \in Nodes, NEW c \in Due(n), Reuse(n, c[2], c[3]) \/ Lookup(n, c[2], c[3])
      PROVE  RegistryNext
  BY <1>2, DueCalls DEF RegistryNext, Advertise
<1>3. ASSUME NEW n \in Nodes, Incr(n) \/ Zadd(n) \/ Zscore(n) \/ Insert(n)
      PROVE  RegistryNext
  BY <1>3 DEF RegistryNext, Advertise
<1>4. ASSUME NEW n \in Nodes, NodeRestart(n) PROVE RegistryNext
  BY <1>4 DEF NodeRestart, RegistryNext
<1>5. ASSUME NEW n \in Nodes, NEW t \in Topics, Publish(n, t) \/ ReadNext(n, t) PROVE UNCHANGED registryVars
  BY <1>5 DEF Publish, ReadNext
<1>6. ASSUME NEW n \in Nodes, NEW order, NEW k, NetworkTick(n, order, k)
      PROVE  UNCHANGED registryVars
  BY <1>6 DEF NetworkTick
<1> QED
  BY <1>1, <1>2, <1>3, <1>4, <1>5, <1>6 DEF NetworkNext

\* The running system implements the registry of Node::advertise: forwarding,
\* the start order of Node::spin and restarts only restrict when nodes
\* register topics.
THEOREM NetworkImplementsRegistry == NetworkSpec => RegistrySpec
<1>1. NetworkInit => RegistryInit
  BY DEF NetworkInit
<1>2. [NetworkNext]_vars => [RegistryNext]_registryVars
  BY NetworkStep DEF vars
<1> QED
  BY <1>1, <1>2, PTL DEF NetworkSpec, RegistrySpec

\* Every packet carries a channel number that means the same topic to sender
\* and receiver: the nodes of the running system agree on the number of a
\* topic.
THEOREM NetworkAgrees == NetworkSpec => []ChannelAgreement
BY NetworkImplementsRegistry, NodesAgree, PTL

\* Node::network_tick finds the publisher of a packet by its channel number
\* alone: no other topic of the running system has it.
THEOREM NetworkKeepsApart == NetworkSpec => []ChannelsDistinct
BY NetworkImplementsRegistry, TopicsKeepApart, PTL

-----------------------------------------------------------------------------
(* Queues and events                                                       *)

LEMMA OtherNode ==
  ASSUME NEW n \in Nodes
  PROVE  /\ Other(n) \in Nodes /\ Other(n) # n /\ Other(Other(n)) = n
         /\ Nodes = {n, Other(n)}
BY NetworkAssumption DEF Other

LEMMA EventFields ==
  ASSUME NEW e \in Event
  PROVE  /\ e.type \in {"receive", "connect", "disconnect"}
         /\ e.type = "receive" => e.msg \in Message /\ e.channel \in Nat
BY DEF Event, Packet

LEMMA MessageFields ==
  ASSUME NEW x \in Message
  PROVE  x.from \in Nodes /\ x.topic \in Topics /\ x.seq \in Nat \ {0}
BY DEF Message

LEMMA NoNumbers ==
  /\ \A m : NumbersIn(<<>>, m) = {}
  /\ \A k, t : NumbersOf(<<>>, k, t) = {}
<1>1. DOMAIN <<>> = {}
  OBVIOUS
<1> QED
  BY <1>1 DEF NumbersIn, NumbersOf

\* A message put into a queue.
LEMMA NumbersAppended ==
  ASSUME NEW q \in Seq(Message), NEW x \in Message, NEW m
  PROVE  NumbersIn(Append(q, x), m) = NumbersIn(q, m) \cup (IF x.from = m THEN {x.seq} ELSE {})
<1> DEFINE w == Append(q, x)
           l == Len(q)
<1>1. /\ l \in Nat /\ DOMAIN q = 1 .. l /\ DOMAIN w = 1 .. l + 1
      /\ w[l + 1] = x /\ \A i \in 1 .. l : w[i] = q[i]
  OBVIOUS
<1> HIDE DEF w, l
<1>2. ASSUME NEW y \in NumbersIn(w, m)
      PROVE  y \in NumbersIn(q, m) \cup (IF x.from = m THEN {x.seq} ELSE {})
  <2>1. PICK i \in DOMAIN w : w[i].from = m /\ w[i].seq = y
    BY DEF NumbersIn
  <2>2. CASE i = l + 1
    BY <1>1, <2>1, <2>2
  <2>3. CASE i \in 1 .. l
    BY <1>1, <2>1, <2>3 DEF NumbersIn
  <2> QED
    BY <1>1, <2>1, <2>2, <2>3
<1>3. ASSUME NEW y \in NumbersIn(q, m) PROVE y \in NumbersIn(w, m)
  <2>1. PICK i \in DOMAIN q : q[i].from = m /\ q[i].seq = y
    BY DEF NumbersIn
  <2>2. i \in DOMAIN w /\ w[i] = q[i]
    BY <1>1
  <2> QED
    BY <2>1, <2>2 DEF NumbersIn
<1>4. x.from = m => x.seq \in NumbersIn(w, m)
  <2>1. l + 1 \in DOMAIN w
    BY <1>1
  <2> QED
    BY <1>1, <2>1 DEF NumbersIn
<1> QED
  BY <1>2, <1>3, <1>4 DEF w

\* A queue in order stays in order with a message of a higher number.
LEMMA AscendingAppended ==
  ASSUME NEW q \in Seq(Message), NEW x \in Message, Ascending(q),
         \A y \in NumbersIn(q, x.from) : y < x.seq
  PROVE  Ascending(Append(q, x))
<1> DEFINE w == Append(q, x)
           l == Len(q)
<1>1. /\ l \in Nat /\ DOMAIN q = 1 .. l /\ DOMAIN w = 1 .. l + 1
      /\ w[l + 1] = x /\ \A i \in 1 .. l : w[i] = q[i]
  OBVIOUS
<1> HIDE DEF w, l
<1>2. \A i \in 1 .. l : q[i].from = x.from => q[i].seq < x.seq
  BY <1>1 DEF NumbersIn
<1> QED
  BY <1>1, <1>2 DEF Ascending, w

\* What is left of a queue whose ring has been filled up.
LEMMA QueueShortened ==
  ASSUME NEW q \in Seq(Message), NEW u \in Nat
  PROVE  LET s == SubSeq(q, 1, Len(q) - u) IN
         /\ s \in Seq(Message) /\ DOMAIN s \subseteq DOMAIN q /\ \A i \in DOMAIN s : s[i] = q[i]
         /\ Ascending(q) => Ascending(s)
         /\ \A m : NumbersIn(s, m) \subseteq NumbersIn(q, m)
         /\ s # <<>> => q # <<>>
         /\ u = Len(q) => s = <<>>
<1> DEFINE s == SubSeq(q, 1, Len(q) - u)
           l == Len(q)
<1>1. l \in Nat /\ DOMAIN q = 1 .. l
  OBVIOUS
<1>2. s \in Seq(Message) /\ DOMAIN s \subseteq 1 .. l /\ \A i \in DOMAIN s : s[i] = q[i]
  <2>1. CASE u <= l
    <3>1. \A i \in 1 .. l - u : i \in 1 .. l /\ q[i] \in Message
      BY <1>1, <2>1
    <3>2. l - u \in 0 .. l
      BY <1>1, <2>1
    <3> QED
      BY <1>1, <3>1, <3>2
  <2>2. CASE u > l
    <3>1. l - u < 1
      BY <1>1, <2>2
    <3>2. s = <<>>
      BY <1>1, <3>1
    <3> QED
      BY <3>2
  <2> QED
    BY <1>1, <2>1, <2>2
<1>3. u = l => s = <<>>
  BY <1>1
<1>4. q = <<>> => s = <<>>
  BY <1>1, <1>2
<1> HIDE DEF s, l
<1>5. Ascending(q) => Ascending(s)
  BY <1>1, <1>2 DEF Ascending
<1>6. \A m : NumbersIn(s, m) \subseteq NumbersIn(q, m)
  BY <1>1, <1>2 DEF NumbersIn
<1> QED
  BY <1>1, <1>2, <1>3, <1>4, <1>5, <1>6 DEF s, l

LEMMA InRingType == \A u \in Nat : InRing(u) \in Nat
BY NetworkAssumption DEF InRing

\* The next event.
LEMMA NumbersNext ==
  ASSUME NEW es \in Seq(Event), NEW k \in Nat, k + 1 \in DOMAIN es, NEW t
  PROVE  NumbersOf(es, k, t) =
           NumbersOf(es, k + 1, t) \cup
             (IF es[k + 1].type = "receive" /\ es[k + 1].msg.topic = t THEN {es[k + 1].msg.seq} ELSE {})
<1>1. \A j \in DOMAIN es : j > k <=> (j > k + 1 \/ j = k + 1)
  OBVIOUS
<1>2. ASSUME NEW y \in NumbersOf(es, k, t)
      PROVE  y \in NumbersOf(es, k + 1, t) \cup
             (IF es[k + 1].type = "receive" /\ es[k + 1].msg.topic = t THEN {es[k + 1].msg.seq} ELSE {})
  <2>1. PICK j \in DOMAIN es : j > k /\ es[j].type = "receive" /\ es[j].msg.topic = t /\ es[j].msg.seq = y
    BY DEF NumbersOf
  <2>2. CASE j = k + 1
    BY <2>1, <2>2
  <2>3. CASE j > k + 1
    BY <2>1, <2>3 DEF NumbersOf
  <2> QED
    BY <1>1, <2>1, <2>2, <2>3
<1>3. NumbersOf(es, k + 1, t) \subseteq NumbersOf(es, k, t)
  BY <1>1 DEF NumbersOf
<1>4. es[k + 1].type = "receive" /\ es[k + 1].msg.topic = t => es[k + 1].msg.seq \in NumbersOf(es, k, t)
  BY <1>1 DEF NumbersOf
<1> QED
  BY <1>2, <1>3, <1>4

\* Events that have been fetched.
LEMMA TailOfEvents ==
  ASSUME NEW es \in Seq(Event), NEW k \in 0 .. Len(es)
  PROVE  LET tail == SubSeq(es, k + 1, Len(es)) IN
         /\ tail \in Seq(Event) /\ DOMAIN tail = 1 .. Len(es) - k
         /\ \A i \in 1 .. Len(es) - k : tail[i] = es[i + k]
<1>1. Len(es) \in Nat /\ k \in Nat /\ k <= Len(es)
  OBVIOUS
<1>2. \A i \in k + 1 .. Len(es) : es[i] \in Event
  BY <1>1
<1>3. SubSeq(es, k + 1, Len(es)) = [i \in 1 .. Len(es) - k |-> es[i + k]]
  BY <1>1
<1> QED
  BY <1>1, <1>2, <1>3

\* What the events say does not depend on those that have been handled.
LEMMA TailSound ==
  ASSUME NEW n, NEW ended, NEW es \in Seq(Event), WireSound(n, es, ended), NEW k \in 0 .. Len(es)
  PROVE  LET tail == SubSeq(es, k + 1, Len(es)) IN
         /\ WireSound(n, tail, ended)
         /\ \A t : NumbersOf(tail, 0, t) = NumbersOf(es, k, t)
         /\ \A p : PeerInTheEnd(p, tail, 0) <=> PeerInTheEnd(p, es, k)
<1> DEFINE tail == SubSeq(es, k + 1, Len(es))
           l == Len(es)
<1>1. l \in Nat /\ DOMAIN es = 1 .. l /\ k \in 0 .. l
  OBVIOUS
<1>2. /\ tail \in Seq(Event) /\ DOMAIN tail = 1 .. l - k
      /\ \A i \in 1 .. l - k : tail[i] = es[i + k]
  BY TailOfEvents
<1> HIDE DEF tail, l
<1>3. \A i \in 1 .. l - k : i + k \in DOMAIN es /\ i + k > k /\ i > 0
  BY <1>1
<1>4. \A j \in DOMAIN es : j > k => j - k \in 1 .. l - k /\ tail[j - k] = es[j]
  <2>1. \A j \in DOMAIN es : j > k => j - k \in 1 .. l - k /\ (j - k) + k = j
    BY <1>1
  <2> QED
    BY <1>2, <2>1
<1>5. WireSound(n, tail, ended)
  <2>1. \A i, j \in 1 .. l - k : i < j => i + k < j + k
    BY <1>1
  <2>2. ASSUME NEW i \in DOMAIN tail
        PROVE  /\ tail[i].type = "receive" =>
                    /\ tail[i].msg.from = Other(n)
                    /\ tail[i].channel = topics[tail[i].msg.topic] /\ tail[i].channel # 0
               /\ tail[i].type = "disconnect" => n \in ended
    <3>1. i + k \in DOMAIN es /\ tail[i] = es[i + k]
      BY <1>2, <1>3
    <3> QED
      BY <3>1 DEF WireSound
  <2>3. ASSUME NEW i \in DOMAIN tail, NEW j \in DOMAIN tail, i < j, tail[i].type = "receive", tail[j].type = "receive",
               tail[i].msg.topic = tail[j].msg.topic
        PROVE  tail[i].msg.seq < tail[j].msg.seq
    <3>1. i + k \in DOMAIN es /\ j + k \in DOMAIN es /\ tail[i] = es[i + k] /\ tail[j] = es[j + k] /\ i + k < j + k
      BY <1>2, <1>3, <2>1, <2>3
    <3> QED
      BY <2>3, <3>1 DEF WireSound
  <2> QED
    BY <2>2, <2>3 DEF WireSound
<1>6. ASSUME NEW t PROVE NumbersOf(tail, 0, t) = NumbersOf(es, k, t)
  <2>1. ASSUME NEW y \in NumbersOf(tail, 0, t) PROVE y \in NumbersOf(es, k, t)
    <3>1. PICK i \in DOMAIN tail : tail[i].type = "receive" /\ tail[i].msg.topic = t /\ tail[i].msg.seq = y
      BY DEF NumbersOf
    <3>2. i + k \in DOMAIN es /\ i + k > k /\ es[i + k] = tail[i]
      BY <1>2, <1>3
    <3> QED
      BY <3>1, <3>2 DEF NumbersOf
  <2>2. ASSUME NEW y \in NumbersOf(es, k, t) PROVE y \in NumbersOf(tail, 0, t)
    <3>1. PICK j \in DOMAIN es : j > k /\ es[j].type = "receive" /\ es[j].msg.topic = t /\ es[j].msg.seq = y
      BY DEF NumbersOf
    <3>2. j - k \in DOMAIN tail /\ j - k > 0 /\ tail[j - k] = es[j]
      BY <1>1, <1>2, <1>4, <3>1
    <3> QED
      BY <3>1, <3>2 DEF NumbersOf
  <2> QED
    BY <2>1, <2>2
<1>7. ASSUME NEW p PROVE PeerInTheEnd(p, tail, 0) <=> PeerInTheEnd(p, es, k)
  <2> DEFINE A == {i \in DOMAIN tail : i > 0 /\ tail[i].type # "receive"}
             B == {i \in DOMAIN es : i > k /\ es[i].type # "receive"}
  <2>1. \A i \in A : i \in Int /\ i + k \in B /\ es[i + k] = tail[i]
    BY <1>1, <1>2, <1>3
  <2>2. \A j \in B : j \in Int /\ j - k \in A /\ tail[j - k] = es[j]
    BY <1>1, <1>2, <1>4
  <2>3. A = {} <=> B = {}
    BY <2>1, <2>2
  <2>4. PeerInTheEnd(p, tail, 0) <=> ((A = {} /\ p) \/ \E i \in A : tail[i].type = "connect" /\ \A j \in A : j <= i)
    BY DEF PeerInTheEnd
  <2>5. PeerInTheEnd(p, es, k) <=> ((B = {} /\ p) \/ \E i \in B : es[i].type = "connect" /\ \A j \in B : j <= i)
    BY DEF PeerInTheEnd
  <2> HIDE DEF A, B
  <2>6. ASSUME NEW i \in A, tail[i].type = "connect", \A j \in A : j <= i
        PROVE  \E h \in B : es[h].type = "connect" /\ \A j \in B : j <= h
    <3>1. \A j \in B : j <= i + k
      BY <1>1, <2>1, <2>2, <2>6
    <3> QED
      BY <2>1, <2>6, <3>1
  <2>7. ASSUME NEW i \in B, es[i].type = "connect", \A j \in B : j <= i
        PROVE  \E h \in A : tail[h].type = "connect" /\ \A j \in A : j <= h
    <3>1. \A j \in A : j <= i - k
      BY <1>1, <2>1, <2>2, <2>7
    <3> QED
      BY <2>2, <2>7, <3>1
  <2> QED
    BY <2>3, <2>4, <2>5, <2>6, <2>7
<1> QED
  BY <1>5, <1>6, <1>7 DEF tail

\* One event more: PeerInTheEnd is what handling the events one by one gives.
LEMMA PeerNext ==
  ASSUME NEW es \in Seq(Event), NEW k \in Nat, k + 1 \in DOMAIN es, NEW p \in BOOLEAN
  PROVE  /\ PeerAfter(p, es[k + 1]) \in BOOLEAN
         /\ PeerInTheEnd(PeerAfter(p, es[k + 1]), es, k + 1) <=> PeerInTheEnd(p, es, k)
         /\ es[k + 1].type # "disconnect" /\ p => PeerAfter(p, es[k + 1])
<1> DEFINE e == es[k + 1]
           A == {i \in DOMAIN es : i > k + 1 /\ es[i].type # "receive"}
           B == {i \in DOMAIN es : i > k /\ es[i].type # "receive"}
           LastIn(S) == \E i \in S : es[i].type = "connect" /\ \A j \in S : j <= i
           r == PeerAfter(p, e)
<1>1. e \in Event /\ \A i \in DOMAIN es : i \in Nat
  OBVIOUS
<1>2. e.type \in {"receive", "connect", "disconnect"}
  BY <1>1, EventFields
<1>3. B = IF e.type = "receive" THEN A ELSE A \cup {k + 1}
  BY <1>1
<1>4. \A i \in A : i \in Nat /\ i > k + 1
  BY <1>1
<1>5. PeerInTheEnd(r, es, k + 1) <=> ((A = {} /\ r) \/ LastIn(A))
  BY DEF PeerInTheEnd
<1>6. PeerInTheEnd(p, es, k) <=> ((B = {} /\ p) \/ LastIn(B))
  BY DEF PeerInTheEnd
<1>7. /\ e.type = "receive" => r = p
      /\ e.type = "connect" => r = TRUE
      /\ e.type = "disconnect" => r = FALSE
  BY Zenon DEF PeerAfter
<1> HIDE DEF A, B, r
<1>8. r \in BOOLEAN /\ (e.type # "disconnect" /\ p => r)
  <2>1. e.type = "receive" \/ e.type = "connect" \/ e.type = "disconnect"
    BY <1>2
  <2>2. p \in BOOLEAN
    OBVIOUS
  <2>3. CASE e.type = "receive"
    <3>1. r = p
      BY <1>7, <2>3, Zenon
    <3>2. r \in BOOLEAN
      BY <2>2, <3>1, Zenon
    <3>3. p => r
      BY <3>1, Zenon
    <3> QED
      BY <3>2, <3>3
  <2>4. CASE e.type = "connect"
    BY <1>7, <2>4, Zenon
  <2>5. CASE e.type = "disconnect"
    BY <1>7, <2>5, Zenon
  <2> QED
    BY <2>1, <2>3, <2>4, <2>5
<1>9. CASE e.type = "receive"
  BY <1>3, <1>5, <1>6, <1>7, <1>8, <1>9 DEF r
<1>10. CASE e.type # "receive"
  <2>1. B = A \cup {k + 1} /\ (r <=> e.type = "connect")
    BY <1>2, <1>3, <1>7, <1>10
  <2>2. CASE A = {}
    <3>1. LastIn(B) <=> e.type = "connect"
      BY <2>1, <2>2
    <3>2. ~LastIn(A) /\ B # {}
      BY <2>1, <2>2
    <3> HIDE DEF LastIn
    <3> QED
      BY <1>5, <1>6, <1>8, <2>1, <2>2, <3>1, <3>2 DEF r
  <2>3. CASE A # {}
    <3>1. LastIn(B) <=> LastIn(A)
      BY <1>4, <2>1, <2>3
    <3> HIDE DEF LastIn
    <3> QED
      BY <1>5, <1>6, <1>8, <2>1, <2>3, <3>1 DEF r
  <2> QED
    BY <2>2, <2>3
<1> QED
  BY <1>9, <1>10

\* Events that arrive after others.
LEMMA MoreEvents ==
  ASSUME NEW n, NEW ended, NEW es \in Seq(Event), NEW ps \in Seq(Event)
  PROVE  /\ es \o ps \in Seq(Event)
         /\ \A t : NumbersOf(es \o ps, 0, t) = NumbersOf(es, 0, t) \cup NumbersOf(ps, 0, t)
         /\ /\ WireSound(n, es, ended) /\ WireSound(n, ps, ended)
            /\ \A t \in Topics : Before(NumbersOf(es, 0, t), NumbersOf(ps, 0, t))
            => WireSound(n, es \o ps, ended)
         /\ (\A i \in DOMAIN ps : ps[i].type = "receive") =>
              \A p : PeerInTheEnd(p, es \o ps, 0) <=> PeerInTheEnd(p, es, 0)
<1> DEFINE w == es \o ps
           l == Len(es)
           r == Len(ps)
<1>1. /\ w \in Seq(Event) /\ l \in Nat /\ r \in Nat
      /\ DOMAIN es = 1 .. l /\ DOMAIN ps = 1 .. r /\ DOMAIN w = 1 .. l + r
      /\ \A i \in 1 .. l : w[i] = es[i]
      /\ \A i \in l + 1 .. l + r : w[i] = ps[i - l]
      /\ \A i \in 1 .. l : es[i] \in Event
      /\ \A i \in 1 .. r : ps[i] \in Event
  OBVIOUS
<1> HIDE DEF w, l, r
<1>2. \A i \in DOMAIN w : i > 0 /\ (i \in 1 .. l \/ (i \in l + 1 .. l + r /\ i - l \in 1 .. r))
  BY <1>1
<1>3. \A i \in 1 .. l : i \in DOMAIN w /\ i > 0
  BY <1>1
<1>4. \A i \in 1 .. r : i + l \in DOMAIN w /\ i + l > 0 /\ i + l > l /\ i > 0 /\ w[i + l] = ps[i]
  <2>1. \A i \in 1 .. r : i + l \in l + 1 .. l + r /\ (i + l) - l = i /\ i + l \in 1 .. l + r /\ i + l > 0 /\ i + l > l /\ i > 0
    BY <1>1
  <2> QED
    BY <1>1, <2>1
<1>5. ASSUME NEW t PROVE NumbersOf(w, 0, t) = NumbersOf(es, 0, t) \cup NumbersOf(ps, 0, t)
  <2>1. ASSUME NEW y \in NumbersOf(w, 0, t) PROVE y \in NumbersOf(es, 0, t) \cup NumbersOf(ps, 0, t)
    <3>1. PICK i \in DOMAIN w : w[i].type = "receive" /\ w[i].msg.topic = t /\ w[i].msg.seq = y
      BY DEF NumbersOf
    <3>2. CASE i \in 1 .. l
      BY <1>1, <1>2, <3>1, <3>2 DEF NumbersOf
    <3>3. CASE i \in l + 1 .. l + r
      <4>1. i - l \in DOMAIN ps /\ i - l > 0 /\ w[i] = ps[i - l]
        BY <1>1, <3>3
      <4> QED
        BY <3>1, <4>1 DEF NumbersOf
    <3> QED
      BY <1>2, <3>2, <3>3
  <2>2. ASSUME NEW y \in NumbersOf(es, 0, t) PROVE y \in NumbersOf(w, 0, t)
    <3>1. PICK i \in DOMAIN es : es[i].type = "receive" /\ es[i].msg.topic = t /\ es[i].msg.seq = y
      BY DEF NumbersOf
    <3> QED
      BY <1>1, <1>3, <3>1 DEF NumbersOf
  <2>3. ASSUME NEW y \in NumbersOf(ps, 0, t) PROVE y \in NumbersOf(w, 0, t)
    <3>1. PICK i \in DOMAIN ps : ps[i].type = "receive" /\ ps[i].msg.topic = t /\ ps[i].msg.seq = y
      BY DEF NumbersOf
    <3>2. i + l \in DOMAIN w /\ i + l > 0 /\ w[i + l] = ps[i]
      BY <1>1, <1>4
    <3> QED
      BY <3>1, <3>2 DEF NumbersOf
  <2> QED
    BY <2>1, <2>2, <2>3
<1>6. ASSUME WireSound(n, es, ended), WireSound(n, ps, ended),
             \A t \in Topics : Before(NumbersOf(es, 0, t), NumbersOf(ps, 0, t))
      PROVE  WireSound(n, w, ended)
  <2>1. ASSUME NEW i \in DOMAIN w
        PROVE  /\ w[i].type = "receive" =>
                    /\ w[i].msg.from = Other(n)
                    /\ w[i].channel = topics[w[i].msg.topic] /\ w[i].channel # 0
               /\ w[i].type = "disconnect" => n \in ended
    <3>1. CASE i \in 1 .. l
      BY <1>1, <1>6, <3>1 DEF WireSound
    <3>2. CASE i \in l + 1 .. l + r
      <4>1. i - l \in DOMAIN ps /\ w[i] = ps[i - l]
        BY <1>1, <3>2
      <4> QED
        BY <1>6, <4>1 DEF WireSound
    <3> QED
      BY <1>2, <3>1, <3>2
  <2>2. ASSUME NEW i \in DOMAIN w, NEW j \in DOMAIN w, i < j, w[i].type = "receive", w[j].type = "receive",
               w[i].msg.topic = w[j].msg.topic
        PROVE  w[i].msg.seq < w[j].msg.seq
    <3>1. CASE j \in 1 .. l
      <4>1. i \in 1 .. l
        BY <1>1, <2>2, <3>1
      <4> QED
        BY <1>1, <1>6, <2>2, <3>1, <4>1 DEF WireSound
    <3>2. CASE i \in l + 1 .. l + r
      <4>1. /\ i - l \in DOMAIN ps /\ w[i] = ps[i - l]
            /\ j - l \in DOMAIN ps /\ w[j] = ps[j - l] /\ i - l < j - l
        BY <1>1, <2>2, <3>2
      <4> QED
        BY <1>6, <2>2, <4>1 DEF WireSound
    <3>3. CASE i \in 1 .. l /\ j \in l + 1 .. l + r
      <4>1. /\ i \in DOMAIN es /\ i > 0 /\ w[i] = es[i]
            /\ j - l \in DOMAIN ps /\ j - l > 0 /\ w[j] = ps[j - l]
        BY <1>1, <3>3
      <4> DEFINE t == w[i].msg.topic
      <4>2. t \in Topics
        BY <1>1, <2>2, <4>1, EventFields, MessageFields
      <4>3. w[i].msg.seq \in NumbersOf(es, 0, t) /\ w[j].msg.seq \in NumbersOf(ps, 0, t)
        BY <2>2, <4>1 DEF NumbersOf
      <4> QED
        BY <1>6, <4>2, <4>3 DEF Before
    <3> QED
      BY <1>2, <3>1, <3>2, <3>3
  <2> QED
    BY <2>1, <2>2 DEF WireSound
<1>7. ASSUME \A i \in DOMAIN ps : ps[i].type = "receive", NEW p
      PROVE  PeerInTheEnd(p, w, 0) <=> PeerInTheEnd(p, es, 0)
  <2>1. {i \in DOMAIN w : i > 0 /\ w[i].type # "receive"} = {i \in DOMAIN es : i > 0 /\ es[i].type # "receive"}
    <3>1. \A i \in l + 1 .. l + r : w[i].type = "receive"
      BY <1>1, <1>2, <1>7
    <3> QED
      BY <1>1, <1>2, <1>3, <3>1
  <2>2. \A i \in DOMAIN es : w[i] = es[i]
    BY <1>1
  <2> QED
    BY <2>1, <2>2 DEF PeerInTheEnd
<1> QED
  BY <1>1, <1>5, <1>6, <1>7 DEF w

\* The event that a connection stands or has ended.
LEMMA SignalAppended ==
  ASSUME NEW n, NEW ended, NEW es \in Seq(Event), WireSound(n, es, ended),
         NEW type \in {"connect", "disconnect"}, type = "disconnect" => n \in ended
  PROVE  LET w == Append(es, [type |-> type]) IN
         /\ w \in Seq(Event) /\ WireSound(n, w, ended)
         /\ \A t : NumbersOf(w, 0, t) = NumbersOf(es, 0, t)
         /\ \A p : PeerInTheEnd(p, w, 0) <=> type = "connect"
<1> DEFINE e == [type |-> type]
           w == Append(es, e)
           ps == <<e>>
           l == Len(es)
<1>1. e \in Event /\ e.type = type /\ type # "receive"
  BY DEF Event
<1> HIDE DEF e
<1>2. ps \in Seq(Event) /\ DOMAIN ps = {1} /\ ps[1] = e
  BY <1>1
<1>3. w = es \o ps
  BY <1>1
<1>4. /\ l \in Nat /\ DOMAIN w = 1 .. l + 1 /\ w[l + 1] = e
  BY <1>1
<1> HIDE DEF ps, w, l
<1>5. \A t : NumbersOf(ps, 0, t) = {}
  BY <1>1, <1>2 DEF NumbersOf
<1>6. WireSound(n, ps, ended)
  BY <1>1, <1>2 DEF WireSound
<1>7. \A t \in Topics : Before(NumbersOf(es, 0, t), NumbersOf(ps, 0, t))
  BY <1>5 DEF Before
<1>8. /\ w \in Seq(Event) /\ WireSound(n, w, ended)
      /\ \A t : NumbersOf(w, 0, t) = NumbersOf(es, 0, t)
  <2>1. /\ es \o ps \in Seq(Event)
        /\ \A t : NumbersOf(es \o ps, 0, t) = NumbersOf(es, 0, t) \cup NumbersOf(ps, 0, t)
        /\ /\ WireSound(n, es, ended) /\ WireSound(n, ps, ended)
           /\ \A t \in Topics : Before(NumbersOf(es, 0, t), NumbersOf(ps, 0, t))
           => WireSound(n, es \o ps, ended)
    BY <1>2, MoreEvents
  <2> QED
    BY <1>3, <1>5, <1>6, <1>7, <2>1
<1>9. ASSUME NEW p PROVE PeerInTheEnd(p, w, 0) <=> type = "connect"
  <2> DEFINE A == {i \in DOMAIN w : i > 0 /\ w[i].type # "receive"}
  <2>1. l + 1 \in A /\ \A i \in A : i \in Nat /\ i <= l + 1
    BY <1>1, <1>4
  <2>2. PeerInTheEnd(p, w, 0) <=> ((A = {} /\ p) \/ \E i \in A : w[i].type = "connect" /\ \A j \in A : j <= i)
    BY DEF PeerInTheEnd
  <2> HIDE DEF A
  <2>3. \A i \in A : (\A j \in A : j <= i) => i = l + 1
    BY <1>4, <2>1
  <2> QED
    BY <1>1, <1>4, <2>1, <2>2, <2>3
<1> QED
  BY <1>8, <1>9 DEF w, e

\* The events up to some packet.
LEMMA PrefixOfEvents ==
  ASSUME NEW n, NEW ended, NEW es \in Seq(Event), WireSound(n, es, ended), NEW k \in 0 .. Len(es)
  PROVE  LET w == SubSeq(es, 1, k) IN
         /\ w \in Seq(Event) /\ WireSound(n, w, ended)
         /\ \A t : NumbersOf(w, 0, t) \subseteq NumbersOf(es, 0, t)
<1> DEFINE w == SubSeq(es, 1, k)
<1>1. Len(es) \in Nat /\ DOMAIN es = 1 .. Len(es) /\ k \in Nat /\ 1 .. k \subseteq 1 .. Len(es)
  OBVIOUS
<1>2. w = [i \in 1 .. k |-> es[i]]
  BY <1>1
<1>3. w \in Seq(Event) /\ DOMAIN w = 1 .. k /\ \A i \in 1 .. k : i \in DOMAIN es /\ w[i] = es[i]
  <2>1. \A i \in 1 .. k : i \in DOMAIN es /\ es[i] \in Event
    BY <1>1
  <2> QED
    BY <1>1, <1>2, <2>1
<1> HIDE DEF w
<1>4. WireSound(n, w, ended)
  BY <1>3 DEF WireSound
<1>5. \A t : NumbersOf(w, 0, t) \subseteq NumbersOf(es, 0, t)
  BY <1>3 DEF NumbersOf
<1> QED
  BY <1>3, <1>4, <1>5 DEF w

-----------------------------------------------------------------------------
(* Sending                                                                 *)

\* The packets of one queue.
LEMMA PacketsSound ==
  ASSUME NEW n \in Nodes, NEW t \in Topics, NEW ended,
         out[n][t] \in Seq(Message), OutSound(n, t, out[n][t]),
         publishers[n][t] \in Nat, out[n][t] # <<>> => publishers[n][t] # 0 /\ publishers[n][t] = topics[t]
  PROVE  /\ Packets(n, t) \in Seq(Event)
         /\ \A i \in DOMAIN Packets(n, t) : Packets(n, t)[i].type = "receive"
         /\ WireSound(Other(n), Packets(n, t), ended)
         /\ NumbersOf(Packets(n, t), 0, t) = NumbersIn(out[n][t], n)
         /\ \A u : u # t => NumbersOf(Packets(n, t), 0, u) = {}
<1> DEFINE q == out[n][t]
           ps == Packets(n, t)
           ch == publishers[n][t]
<1>1. q \in Seq(Message) /\ ch \in Nat /\ (q # <<>> => ch # 0 /\ ch = topics[t])
  OBVIOUS
<1>2. ps = [k \in DOMAIN q |-> [type |-> "receive", channel |-> ch, msg |-> q[k]]]
  BY DEF Packets
<1>3. /\ \A i \in DOMAIN q : q[i].topic = t /\ q[i].from = n
      /\ Ascending(q)
  BY DEF OutSound
<1> HIDE DEF q, ps, ch
<1>4. /\ DOMAIN q = 1 .. Len(q) /\ Len(q) \in Nat /\ \A i \in DOMAIN q : q[i] \in Message /\ i > 0
      /\ \A i \in DOMAIN q : q # <<>>
  BY <1>1
<1>5. /\ DOMAIN ps = DOMAIN q
      /\ \A i \in DOMAIN q : ps[i].type = "receive" /\ ps[i].channel = ch /\ ps[i].msg = q[i]
  BY <1>2
<1>6. ps \in Seq(Event)
  <2>1. \A i \in DOMAIN q : [type |-> "receive", channel |-> ch, msg |-> q[i]] \in Event
    BY <1>1, <1>4 DEF Event, Packet
  <2> QED
    BY <1>2, <1>4, <2>1
<1>7. WireSound(Other(n), ps, ended)
  BY <1>1, <1>3, <1>4, <1>5, OtherNode DEF WireSound, Ascending
<1>8. NumbersOf(ps, 0, t) = NumbersIn(q, n)
  BY <1>3, <1>4, <1>5 DEF NumbersOf, NumbersIn
<1>9. ASSUME NEW u, u # t PROVE NumbersOf(ps, 0, u) = {}
  BY <1>3, <1>5, <1>9 DEF NumbersOf
<1> QED
  BY <1>5, <1>6, <1>7, <1>8, <1>9 DEF ps, q

\* w is what is on its way when n has sent its first k queues.
SentTo(n, order, k, w) ==
  /\ w \in Seq(Event) /\ WireSound(Other(n), w, broken)
  /\ \A t \in Topics : NumbersOf(w, 0, t) =
       NumbersOf(arrived[Other(n)], 0, t) \cup
         (IF \E i \in 1 .. k : order[i] = t THEN NumbersIn(out[n][t], n) ELSE {})
  /\ \A p : PeerInTheEnd(p, w, 0) <=> PeerInTheEnd(p, arrived[Other(n)], 0)

LEMMA OneQueueSent ==
  ASSUME RegistryTypeOK, RegistryInv, NetworkInv, NEW n \in Nodes,
         NEW order \in Seq(Topics), NEW k \in Nat, k + 1 \in 1 .. Len(order),
         \A i \in 1 .. k : order[i] # order[k + 1],
         NEW w, SentTo(n, order, k, w)
  PROVE  SentTo(n, order, k + 1, w \o Packets(n, order[k + 1]))
<1> DEFINE m == Other(n)
           u == order[k + 1]
           ps == Packets(n, u)
           Wait(t) == NumbersIn(out[n][t], n)
<1>1. m \in Nodes /\ Other(m) = n /\ u \in Topics
  BY OtherNode
<1>2. /\ out[n][u] \in Seq(Message) /\ OutSound(n, u, out[n][u]) /\ publishers[n][u] \in Nat
      /\ out[n][u] # <<>> => publishers[n][u] # 0 /\ publishers[n][u] = topics[u]
  <2>1. out[n][u] \in Seq(Message) /\ OutSound(n, u, out[n][u]) /\ publishers[n][u] \in Nat
    <3> HIDE DEF u
    <3>1. out[n][u] \in Seq(Message)
      BY <1>1 DEF NetworkInv, NetworkTypeOK
    <3>2. OutSound(n, u, out[n][u])
      BY <1>1 DEF NetworkInv, QueuesInv
    <3>3. publishers[n][u] \in Nat
      BY <1>1 DEF RegistryTypeOK
    <3> QED
      BY <3>1, <3>2, <3>3
  <2>2. u \in networked[n] => publishers[n][u] # 0
    BY DEF NetworkInv, SubscribersHavePublisher
  <2>3. publishers[n][u] # 0 => publishers[n][u] = topics[u]
    BY <1>1 DEF RegistryInv, ViewsMatchStore
  <2> QED
    BY <2>1, <2>2, <2>3 DEF OutSound
<1>3. /\ ps \in Seq(Event) /\ \A i \in DOMAIN ps : ps[i].type = "receive"
      /\ WireSound(m, ps, broken)
      /\ NumbersOf(ps, 0, u) = Wait(u) /\ \A t : t # u => NumbersOf(ps, 0, t) = {}
  BY <1>1, <1>2, PacketsSound
<1>4. Before(NumbersOf(arrived[m], 0, u), Wait(u))
  <2>1. WaySound(m, u, inbox[m][u], 0, overrun)
    BY <1>1 DEF NetworkInv, WayInv
  <2> QED
    BY <1>1, <2>1 DEF WaySound
<1> HIDE DEF ps, u, m, Wait
<1>5. NumbersOf(w, 0, u) = NumbersOf(arrived[m], 0, u)
  BY <1>1 DEF SentTo, m, u
<1>6. \A t \in Topics : Before(NumbersOf(w, 0, t), NumbersOf(ps, 0, t))
  BY <1>3, <1>4, <1>5 DEF Before
<1>7. w \in Seq(Event) /\ WireSound(m, w, broken)
  BY DEF SentTo, m
<1>8. /\ w \o ps \in Seq(Event)
      /\ \A t : NumbersOf(w \o ps, 0, t) = NumbersOf(w, 0, t) \cup NumbersOf(ps, 0, t)
      /\ WireSound(m, w \o ps, broken)
      /\ \A p : PeerInTheEnd(p, w \o ps, 0) <=> PeerInTheEnd(p, w, 0)
  <2>1. /\ w \o ps \in Seq(Event)
        /\ \A t : NumbersOf(w \o ps, 0, t) = NumbersOf(w, 0, t) \cup NumbersOf(ps, 0, t)
        /\ /\ WireSound(m, w, broken) /\ WireSound(m, ps, broken)
           /\ \A t \in Topics : Before(NumbersOf(w, 0, t), NumbersOf(ps, 0, t))
           => WireSound(m, w \o ps, broken)
        /\ (\A i \in DOMAIN ps : ps[i].type = "receive") =>
             \A p : PeerInTheEnd(p, w \o ps, 0) <=> PeerInTheEnd(p, w, 0)
    BY <1>3, <1>7, MoreEvents
  <2> QED
    BY <1>3, <1>6, <1>7, <2>1
<1>9. ASSUME NEW t \in Topics
      PROVE  NumbersOf(w \o ps, 0, t) =
               NumbersOf(arrived[m], 0, t) \cup (IF \E i \in 1 .. k + 1 : order[i] = t THEN Wait(t) ELSE {})
  <2>1. NumbersOf(w, 0, t) = NumbersOf(arrived[m], 0, t) \cup (IF \E i \in 1 .. k : order[i] = t THEN Wait(t) ELSE {})
    BY DEF SentTo, m, Wait
  <2>2. (\E i \in 1 .. k + 1 : order[i] = t) <=> ((\E i \in 1 .. k : order[i] = t) \/ t = u)
    BY DEF u
  <2>3. CASE t = u
    BY <1>3, <1>5, <1>8, <2>2, <2>3
  <2>4. CASE t # u
    BY <1>3, <1>8, <2>1, <2>2, <2>4
  <2> QED
    BY <2>3, <2>4
<1>10. \A p : PeerInTheEnd(p, w \o ps, 0) <=> PeerInTheEnd(p, arrived[m], 0)
  BY <1>8 DEF SentTo, m
<1> QED
  BY <1>8, <1>9, <1>10 DEF SentTo, m, ps, u, Wait

LEMMA TransmittedSound ==
  ASSUME RegistryTypeOK, RegistryInv, NetworkInv, NEW n \in Nodes, NEW order \in SetToSeqs(networked[n])
  PROVE  LET m == Other(n)
             w == Transmitted(n, order) IN
         /\ w \in Seq(Event) /\ WireSound(m, w, broken)
         /\ \A t \in Topics : NumbersOf(w, 0, t) =
              NumbersOf(arrived[m], 0, t) \cup
                (IF peer[n] /\ link /\ t \in ToSet(order) THEN NumbersIn(out[n][t], n) ELSE {})
         /\ \A p : PeerInTheEnd(p, w, 0) <=> PeerInTheEnd(p, arrived[m], 0)
<1> DEFINE m == Other(n)
           start == arrived[m]
           len == Len(order)
           Loop(h, g) == g = [k \in 0 .. h |-> IF k = 0 THEN start ELSE g[k - 1] \o Packets(n, order[k])]
           T == {h \in Nat : \E g : Loop(h, g)}
<1>1. m \in Nodes /\ start \in Seq(Event) /\ WireSound(m, start, broken)
  BY OtherNode DEF NetworkInv, NetworkTypeOK, WireInv
<1>2. /\ order \in Seq(Topics) /\ len \in Nat /\ DOMAIN order = 1 .. len
      /\ \A i, j \in 1 .. len : i # j => order[i] # order[j]
  <2> DEFINE S == networked[n]
  <2>1. S \subseteq Topics
    BY DEF RegistryTypeOK
  <2>2. Cardinality(S) \in Nat
    <3>1. IsFiniteSet(S)
      BY <2>1, NetworkAssumption, FS_Subset
    <3> QED
      BY <3>1, FS_CardinalityType
  <2>3. order \in [1 .. Cardinality(S) -> S] /\ \A i, j \in 1 .. Cardinality(S) : i # j => order[i] # order[j]
    BY DEF SetToSeqs
  <2> HIDE DEF S
  <2> QED
    BY <2>1, <2>2, <2>3
<1>3. SentTo(n, order, 0, start)
  BY <1>1 DEF SentTo
<1> HIDE DEF start
<1>4. 0 \in T
  <2>1. Loop(0, [i \in 0 .. 0 |-> start])
    OBVIOUS
  <2> QED
    BY <2>1
<1>5. ASSUME NEW h \in T PROVE h + 1 \in T
  <2>1. h \in Nat
    OBVIOUS
  <2>2. PICK g : Loop(h, g)
    OBVIOUS
  <2> DEFINE f == [i \in 0 .. h + 1 |-> IF i = h + 1 THEN g[h] \o Packets(n, order[h + 1]) ELSE g[i]]
  <2>3. ASSUME NEW i \in 0 .. h + 1
        PROVE  f[i] = IF i = 0 THEN start ELSE f[i - 1] \o Packets(n, order[i])
    <3>1. CASE i = h + 1
      <4>1. i # 0 /\ i - 1 = h /\ h \in 0 .. h + 1 /\ h # h + 1
        BY <2>1, <3>1
      <4>2. f[i] = g[h] \o Packets(n, order[h + 1]) /\ f[h] = g[h]
        BY <3>1, <4>1
      <4> QED
        BY <3>1, <4>1, <4>2
    <3>2. CASE i = 0
      BY <2>1, <2>2, <3>2
    <3>3. CASE i # 0 /\ i # h + 1
      <4>1. i \in 0 .. h /\ i - 1 \in 0 .. h + 1 /\ i - 1 # h + 1
        BY <2>1, <3>3
      <4>2. f[i] = g[i] /\ f[i - 1] = g[i - 1]
        BY <3>3, <4>1
      <4>3. g[i] = g[i - 1] \o Packets(n, order[i])
        BY <2>2, <3>3, <4>1
      <4> QED
        BY <3>3, <4>2, <4>3
    <3> QED
      BY <3>1, <3>2, <3>3
  <2>4. f = [i \in 0 .. h + 1 |-> f[i]]
    OBVIOUS
  <2> HIDE DEF f
  <2>5. Loop(h + 1, f)
    BY <2>3, <2>4
  <2> QED
    BY <2>1, <2>5
<1> HIDE DEF Loop
<1>6. T = Nat
  BY <1>4, <1>5, SetInduction
<1> DEFINE wire == CHOOSE g : Loop(len, g)
<1>7. Loop(len, wire)
  BY <1>2, <1>6
<1>8. Transmitted(n, order) = IF peer[n] /\ link THEN wire[len] ELSE start
  BY DEF Transmitted, Loop, start
<1> HIDE DEF wire, len
<1>9. /\ wire[0] = start
      /\ \A i \in 1 .. len : wire[i] = wire[i - 1] \o Packets(n, order[i])
  <2>1. wire = [k \in 0 .. len |-> IF k = 0 THEN start ELSE wire[k - 1] \o Packets(n, order[k])]
    BY <1>7 DEF Loop
  <2>2. len \in Nat
    BY <1>2
  <2>3. \A k \in 0 .. len : wire[k] = IF k = 0 THEN start ELSE wire[k - 1] \o Packets(n, order[k])
    BY <2>1
  <2>4. wire[0] = start
    BY <2>2, <2>3
  <2>5. ASSUME NEW i \in 1 .. len PROVE wire[i] = wire[i - 1] \o Packets(n, order[i])
    <3>1. i \in 0 .. len /\ i # 0
      BY <2>2
    <3> QED
      BY <2>3, <3>1
  <2> QED
    BY <2>4, <2>5
<1> DEFINE U == {h \in Nat : h <= len => SentTo(n, order, h, wire[h])}
<1>10. 0 \in U
  BY <1>3, <1>9
<1>11. ASSUME NEW h \in U PROVE h + 1 \in U
  <2>1. h \in Nat /\ h + 1 \in Nat
    OBVIOUS
  <2>2. SUFFICES ASSUME h + 1 <= len PROVE SentTo(n, order, h + 1, wire[h + 1])
    BY <2>1
  <2>3. h + 1 \in 1 .. len /\ h <= len /\ (h + 1) - 1 = h
    BY <1>2, <2>1, <2>2
  <2>4. SentTo(n, order, h, wire[h])
    BY <2>3
  <2>5. wire[h + 1] = wire[h] \o Packets(n, order[h + 1])
    BY <1>9, <2>3
  <2>6. \A i \in 1 .. h : order[i] # order[h + 1]
    BY <1>2, <2>1, <2>3
  <2>7. SentTo(n, order, h + 1, wire[h] \o Packets(n, order[h + 1]))
    BY <1>2, <2>1, <2>3, <2>4, <2>6, OneQueueSent DEF len
  <2> QED
    BY <2>5, <2>7
<1>12. U = Nat
  BY <1>10, <1>11, SetInduction
<1>13. SentTo(n, order, len, wire[len])
  BY <1>2, <1>12
<1>14. \A t : t \in ToSet(order) <=> \E i \in 1 .. len : order[i] = t
  BY <1>2 DEF ToSet
<1>15. CASE peer[n] /\ link
  BY <1>8, <1>13, <1>14, <1>15 DEF SentTo
<1>16. CASE ~(peer[n] /\ link)
  BY <1>1, <1>8, <1>16 DEF start
<1> QED
  BY <1>15, <1>16

-----------------------------------------------------------------------------
(* Receiving                                                               *)

\* A channel number names one topic.
LEMMA ChannelOfTopic ==
  ASSUME RegistryTypeOK, RegistryInv, NEW n \in Nodes, NEW t \in Topics, NEW u \in Topics,
         topics[u] # 0, publishers[n][t] # 0
  PROVE  topics[u] = publishers[n][t] <=> u = t
<1>1. publishers[n][t] = topics[t]
  BY DEF RegistryInv, ViewsMatchStore
<1>2. u # t => topics[u] # topics[t]
  BY DEF RegistryInv, NumbersUnique
<1> QED
  BY <1>1, <1>2

\* Packets of a topic come in the order of their numbers.
LEMMA NextIsLeast ==
  ASSUME NEW n, NEW es, WireSound(n, es, broken), NEW k \in Nat, k + 1 \in DOMAIN es, NEW t,
         es[k + 1].type = "receive", es[k + 1].msg.topic = t,
         NEW y \in NumbersOf(es, k + 1, t)
  PROVE  es[k + 1].msg.seq < y
<1>1. PICK j \in DOMAIN es : j > k + 1 /\ es[j].type = "receive" /\ es[j].msg.topic = t /\ es[j].msg.seq = y
  BY DEF NumbersOf
<1> QED
  BY <1>1 DEF WireSound

\* Without the oldest, the others are still the latest.
LEMMA LatestWithoutLeast ==
  ASSUME NEW pub \in Nat, NEW S, NEW x \in Nat, \A y \in S : x < y, Latest(S \cup {x}, pub)
  PROVE  Latest(S, pub)
<1>1. PICK lo \in 1 .. pub + 1 : S \cup {x} = lo .. pub
  BY DEF Latest
<1>2. lo \in Nat /\ x \in lo .. pub /\ lo \in lo .. pub
  BY <1>1
<1>3. x = lo
  <2>1. lo = x \/ lo \in S
    BY <1>1, <1>2
  <2> QED
    BY <1>2, <2>1
<1>4. x \notin S
  BY <1>2
<1>5. S = (lo + 1) .. pub
  <2>1. S = (lo .. pub) \ {lo}
    BY <1>1, <1>3, <1>4
  <2> QED
    BY <1>2, <2>1
<1>6. lo + 1 \in 1 .. pub + 1
  BY <1>2
<1> QED
  BY <1>5, <1>6 DEF Latest

\* What n's peer, inboxes and rings are when it has handled its first k events.
HandledTo(n, k, p, boxes, us, over) ==
  /\ boxes \in [Topics -> Seq(Message)] /\ us \in [Topics -> Nat] /\ overrun \subseteq over
  /\ \A t \in Topics : InboxSound(n, t, boxes[t], over) /\ WaySound(n, t, boxes[t], k, over)
  /\ p \in BOOLEAN
  /\ PeerInTheEnd(p, arrived[n], k) <=> PeerInTheEnd(peer[n], arrived[n], 0)
  /\ n \notin broken /\ peer[n] => p

\* A packet reaches the local subscribers of its topic and no others.
DeliveredByTopic(n, t, boxes, us, e) ==
  /\ Delivered(n, boxes, us, e)[t] =
       IF e.type = "receive" /\ t \in subscribed[n] /\ e.msg.topic = t
       THEN Pushed(boxes[t], us[t], e.msg) ELSE boxes[t]
  /\ GoesTo(n, t, e) <=> e.type = "receive" /\ t \in subscribed[n] /\ e.msg.topic = t
  /\ e.type = "receive" => e.msg \in Message /\ e.msg.from = Other(n)

LEMMA DeliveredTo ==
  ASSUME RegistryTypeOK, RegistryInv, NetworkInv, NEW n \in Nodes, NEW t \in Topics, NEW boxes, NEW us,
         NEW i \in DOMAIN arrived[n]
  PROVE  DeliveredByTopic(n, t, boxes, us, arrived[n][i])
<1> DEFINE e == arrived[n][i]
<1>1. e \in Event /\ WireSound(n, arrived[n], broken)
  <2>1. arrived[n] \in Seq(Event)
    BY DEF NetworkInv, NetworkTypeOK
  <2> QED
    BY <2>1 DEF NetworkInv, WireInv
<1>2. e.type = "receive" =>
        /\ e.msg \in Message /\ e.msg.topic \in Topics /\ e.msg.from = Other(n)
        /\ e.channel = topics[e.msg.topic] /\ e.channel # 0
  BY <1>1, EventFields, MessageFields DEF WireSound
<1>3. t \in subscribed[n] => publishers[n][t] # 0
  BY DEF NetworkInv, SubscribersHavePublisher
<1>4. e.type = "receive" /\ t \in subscribed[n] => (e.channel = publishers[n][t] <=> e.msg.topic = t)
  <2> HIDE DEF e
  <2> QED
    BY <1>2, <1>3, ChannelOfTopic
<1>5. Delivered(n, boxes, us, e)[t] = IF GoesTo(n, t, e) THEN Pushed(boxes[t], us[t], e.msg) ELSE boxes[t]
  BY DEF Delivered
<1> HIDE DEF e
<1>6. GoesTo(n, t, e) <=> e.type = "receive" /\ t \in subscribed[n] /\ e.msg.topic = t
  BY <1>4 DEF GoesTo
<1> QED
  BY <1>2, <1>5, <1>6 DEF e, DeliveredByTopic

\* One event more for the inbox of one topic.
LEMMA OneEventInbox ==
  ASSUME RegistryTypeOK, RegistryInv, NetworkInv, NEW n \in Nodes, NEW t \in Topics,
         NEW k \in Nat, k + 1 \in DOMAIN arrived[n],
         NEW boxes, boxes[t] \in Seq(Message), NEW us, us[t] \in Nat, NEW over, NEW more, over \subseteq more,
         GoesTo(n, t, arrived[n][k + 1]) /\ us[t] + 1 = SLOTS => Local(n, t) \in more,
         InboxSound(n, t, boxes[t], over), WaySound(n, t, boxes[t], k, over)
  PROVE  LET q == Delivered(n, boxes, us, arrived[n][k + 1])[t]
         IN  q \in Seq(Message) /\ InboxSound(n, t, q, more) /\ WaySound(n, t, q, k + 1, more)
<1> DEFINE m == Other(n)
           e == arrived[n][k + 1]
           x == e.msg
           q == boxes[t]
           r == Delivered(n, boxes, us, e)[t]
           come == NumbersIn(q, m)
           way == NumbersOf(arrived[n], k, t)
           rest == NumbersOf(arrived[n], k + 1, t)
           wait == NumbersIn(out[m][t], m)
           pub == published[m][t]
           u == us[t]
           Whole(o) == n \notin burst /\ {n, m} \cap broken = {} /\ {Local(n, t), Networked(m, t)} \cap o = {}
           Open == n \notin broken => link /\ t \in networked[m] /\ (m \notin broken => peer[m])
<1>1. /\ r = IF e.type = "receive" /\ t \in subscribed[n] /\ e.msg.topic = t THEN Pushed(q, u, x) ELSE q
      /\ GoesTo(n, t, e) <=> e.type = "receive" /\ t \in subscribed[n] /\ e.msg.topic = t
      /\ e.type = "receive" => x \in Message /\ x.from = m
  <2>1. DeliveredByTopic(n, t, boxes, us, e)
    BY DeliveredTo
  <2> QED
    BY <2>1 DEF DeliveredByTopic
<1>2. /\ m \in Nodes /\ m # n /\ pub \in Nat
      /\ arrived[n] \in Seq(Event) /\ WireSound(n, arrived[n], broken)
  <2>1. m \in Nodes /\ m # n
    BY OtherNode
  <2> HIDE DEF m
  <2>2. pub \in Nat /\ arrived[n] \in Seq(Event) /\ WireSound(n, arrived[n], broken)
    BY <2>1 DEF NetworkInv, NetworkTypeOK, WireInv
  <2> QED
    BY <2>1, <2>2
<1>3. /\ Before(come, way) /\ Before(come, wait) /\ Before(way, wait)
      /\ come \cup way \cup wait \subseteq 1 .. pub
      /\ Whole(over) => Latest(come \cup way \cup wait, pub)
      /\ come \cup way # {} => Open
  BY DEF WaySound
<1>4. /\ \A i \in DOMAIN q : q[i].topic = t
      /\ Ascending(q)
      /\ q # <<>> => t \in subscribed[n]
      /\ Local(n, t) \notin more => Latest(NumbersIn(q, n), published[n][t])
      /\ NumbersIn(q, n) \subseteq 1 .. published[n][t]
  BY DEF InboxSound
<1>8. Whole(more) => Whole(over)
  OBVIOUS
<1>5. way = rest \cup (IF e.type = "receive" /\ e.msg.topic = t THEN {x.seq} ELSE {})
  BY <1>2, NumbersNext
<1>6. CASE e.type = "receive" /\ e.msg.topic = t
  <2>1. \A y \in rest : x.seq < y
    BY <1>2, <1>6, NextIsLeast
  <2>2. x \in Message /\ x.from = m /\ way = rest \cup {x.seq} /\ x.seq \in Nat \ {0}
    BY <1>1, <1>5, <1>6, MessageFields
  <2>3. CASE t \in subscribed[n] /\ u + 1 # SLOTS
    <3>1. r = Append(q, x)
      BY <1>1, <1>6, <2>3 DEF Pushed
    <3>2. NumbersIn(r, m) = come \cup {x.seq} /\ NumbersIn(r, n) = NumbersIn(q, n)
      <4> HIDE DEF q, x, r, m
      <4>1. q \in Seq(Message)
        BY DEF q
      <4>2. \A h : NumbersIn(Append(q, x), h) = NumbersIn(q, h) \cup (IF x.from = h THEN {x.seq} ELSE {})
        BY <2>2, <4>1, NumbersAppended
      <4> QED
        BY <1>2, <2>2, <3>1, <4>2
    <3>3. Ascending(r)
      <4>1. \A y \in NumbersIn(q, x.from) : y < x.seq
        BY <1>3, <2>2 DEF Before
      <4> QED
        BY <1>4, <2>2, <3>1, <4>1, AscendingAppended
    <3>4. r \in Seq(Message) /\ \A i \in DOMAIN r : r[i].topic = t
      <4> HIDE DEF q, x, r
      <4>1. q \in Seq(Message)
        BY DEF q
      <4> QED
        BY <1>4, <1>6, <2>2, <3>1, <4>1 DEF x
    <3>5. InboxSound(n, t, r, more)
      BY <1>4, <2>3, <3>2, <3>3, <3>4 DEF InboxSound
    <3> HIDE DEF come, way, rest, wait, pub, x, Whole, Open, r
    <3>6. /\ Before(come \cup {x.seq}, rest) /\ Before(come \cup {x.seq}, wait) /\ Before(rest, wait)
          /\ (come \cup {x.seq}) \cup rest \cup wait = come \cup way \cup wait
          /\ (come \cup {x.seq}) \cup rest = come \cup way
      BY <1>3, <2>1, <2>2 DEF Before
    <3>7. WaySound(n, t, r, k + 1, more)
      BY <1>3, <1>8, <3>2, <3>6 DEF WaySound, come, way, rest, wait, pub, Whole, Open
    <3> QED
      BY <3>4, <3>5, <3>7 DEF r
  <2>5. CASE t \in subscribed[n] /\ u + 1 = SLOTS
    <3>1. r = SubSeq(q, 1, Len(q) - u) /\ Local(n, t) \in more
      BY <1>1, <1>6, <2>5 DEF Pushed
    <3>2. /\ r \in Seq(Message) /\ Ascending(r) /\ \A i \in DOMAIN r : r[i].topic = t
          /\ \A h : NumbersIn(r, h) \subseteq NumbersIn(q, h)
      <4> HIDE DEF q, r, u
      <4>1. q \in Seq(Message) /\ u \in Nat
        BY DEF q, u
      <4>2. /\ r \in Seq(Message) /\ DOMAIN r \subseteq DOMAIN q /\ \A i \in DOMAIN r : r[i] = q[i]
            /\ Ascending(q) => Ascending(r)
            /\ \A h : NumbersIn(r, h) \subseteq NumbersIn(q, h)
        BY <3>1, <4>1, QueueShortened
      <4> QED
        BY <1>4, <4>2
    <3> DEFINE got == NumbersIn(r, m)
    <3>3. got \subseteq come /\ NumbersIn(r, n) \subseteq NumbersIn(q, n)
      BY <3>2
    <3> HIDE DEF r, q
    <3>4. InboxSound(n, t, r, more)
      BY <1>4, <2>5, <3>1, <3>2, <3>3 DEF InboxSound
    <3> HIDE DEF come, way, rest, wait, pub, x, Open, got
    <3>5. /\ Before(got, rest) /\ Before(got, wait) /\ Before(rest, wait)
          /\ got \cup rest \cup wait \subseteq 1 .. pub
          /\ got \cup rest # {} => Open
      BY <1>3, <2>2, <3>3 DEF Before
    <3>6. WaySound(n, t, r, k + 1, more)
      BY <3>1, <3>5 DEF WaySound, got, rest, wait, pub, Open
    <3> QED
      BY <3>2, <3>4, <3>6 DEF r
  <2>4. CASE t \notin subscribed[n]
    <3>1. r = q /\ q = <<>>
      BY <1>1, <1>4, <2>4
    <3>2. come = {}
      BY <3>1, NoNumbers
    <3>3. \A y \in rest \cup wait : x.seq < y
      BY <1>3, <2>1, <2>2 DEF Before
    <3> HIDE DEF come, way, rest, wait, pub, x, Whole, Open, r, q
    <3>4. Whole(over) => Latest(rest \cup wait, pub)
      <4>1. come \cup way \cup wait = (rest \cup wait) \cup {x.seq}
        BY <2>2, <3>2
      <4> QED
        BY <1>2, <1>3, <2>2, <3>3, <4>1, LatestWithoutLeast
    <3>5. /\ Before(come, rest) /\ Before(come, wait) /\ Before(rest, wait)
          /\ come \cup rest \cup wait \subseteq 1 .. pub
          /\ Whole(more) => Latest(come \cup rest \cup wait, pub)
          /\ come \cup rest # {} => Open
      <4>1. come \cup rest \cup wait = rest \cup wait
        BY <3>2
      <4> QED
        BY <1>3, <1>8, <2>2, <3>2, <3>4, <4>1 DEF Before
    <3>6. WaySound(n, t, q, k + 1, more)
      BY <3>5 DEF WaySound, come, way, rest, wait, pub, Whole, Open
    <3>7. InboxSound(n, t, q, more)
      BY DEF InboxSound, q
    <3> QED
      BY <3>1, <3>6, <3>7 DEF r, q
  <2> QED
    BY <2>3, <2>4, <2>5
<1>7. CASE ~(e.type = "receive" /\ e.msg.topic = t)
  <2>1. r = q /\ way = rest
    BY <1>1, <1>5, <1>7
  <2>2. WaySound(n, t, q, k + 1, more) /\ InboxSound(n, t, q, more)
    BY <2>1 DEF WaySound, InboxSound
  <2> QED
    BY <2>1, <2>2
<1> QED
  BY <1>6, <1>7

\* One event more for the whole node.
LEMMA OneEventHandled ==
  ASSUME RegistryTypeOK, RegistryInv, NetworkInv, NEW n \in Nodes,
         NEW k \in Nat, k + 1 \in DOMAIN arrived[n],
         NEW p, NEW boxes, NEW us, NEW over, HandledTo(n, k, p, boxes, us, over)
  PROVE  LET e == arrived[n][k + 1]
         IN  HandledTo(n, k + 1, PeerAfter(p, e), Delivered(n, boxes, us, e),
                       StillUnread(n, us, e), over \cup FilledUp(n, us, e))
<1> DEFINE e == arrived[n][k + 1]
           b == Delivered(n, boxes, us, e)
           vs == StillUnread(n, us, e)
           more == over \cup FilledUp(n, us, e)
           r == PeerAfter(p, e)
<1>1. arrived[n] \in Seq(Event) /\ WireSound(n, arrived[n], broken) /\ p \in BOOLEAN
  BY DEF NetworkInv, NetworkTypeOK, WireInv, HandledTo
<1>2. \A t \in Topics : b[t] \in Seq(Message) /\ InboxSound(n, t, b[t], more) /\ WaySound(n, t, b[t], k + 1, more)
  <2> TAKE t \in Topics
  <2>1. /\ boxes[t] \in Seq(Message) /\ us[t] \in Nat
        /\ InboxSound(n, t, boxes[t], over) /\ WaySound(n, t, boxes[t], k, over)
    BY DEF HandledTo
  <2>2. over \subseteq more /\ (GoesTo(n, t, e) /\ us[t] + 1 = SLOTS => Local(n, t) \in more)
    BY DEF FilledUp
  <2> HIDE DEF more
  <2> QED
    BY <2>1, <2>2, OneEventInbox
<1>10. vs \in [Topics -> Nat] /\ overrun \subseteq more
  <2>1. us \in [Topics -> Nat] /\ overrun \subseteq over
    BY DEF HandledTo
  <2>2. \A t \in Topics : InRing(us[t]) \in Nat
    BY <2>1, InRingType
  <2> QED
    BY <2>1, <2>2 DEF StillUnread
<1>3. b \in [Topics -> Seq(Message)]
  <2>1. b = [t \in Topics |-> b[t]]
    BY DEF Delivered
  <2> HIDE DEF b
  <2> QED
    BY <1>2, <2>1
<1>4. /\ r \in BOOLEAN
      /\ PeerInTheEnd(r, arrived[n], k + 1) <=> PeerInTheEnd(p, arrived[n], k)
      /\ e.type # "disconnect" /\ p => r
  BY <1>1, PeerNext
<1>5. e.type = "disconnect" => n \in broken
  BY <1>1 DEF WireSound
<1>6. PeerInTheEnd(p, arrived[n], k) <=> PeerInTheEnd(peer[n], arrived[n], 0)
  BY DEF HandledTo
<1>7. n \notin broken /\ peer[n] => p
  BY DEF HandledTo
<1> HIDE DEF r, b, e, vs, more
<1>8. n \notin broken /\ peer[n] => r
  BY <1>4, <1>5, <1>7
<1>9. PeerInTheEnd(r, arrived[n], k + 1) <=> PeerInTheEnd(peer[n], arrived[n], 0)
  BY <1>4, <1>6
<1> QED
  BY <1>2, <1>3, <1>4, <1>8, <1>9, <1>10 DEF HandledTo, r, b, e, vs, more

LEMMA AfterEventsSound ==
  ASSUME RegistryTypeOK, RegistryInv, NetworkInv, NEW n \in Nodes, NEW k \in 0 .. Len(arrived[n])
  PROVE  LET a == AfterEvents(n, k) IN HandledTo(n, k, a.peer, a.inbox, a.unread, a.overrun)
<1> DEFINE start == [peer |-> peer[n], inbox |-> inbox[n], unread |-> unread[n], overrun |-> overrun]
           Step(s, i) == [peer |-> PeerAfter(s.peer, arrived[n][i]),
                          inbox |-> Delivered(n, s.inbox, s.unread, arrived[n][i]),
                          unread |-> StillUnread(n, s.unread, arrived[n][i]),
                          overrun |-> s.overrun \cup FilledUp(n, s.unread, arrived[n][i])]
           Loop(h, g) == g = [i \in 0 .. h |-> IF i = 0 THEN start ELSE Step(g[i - 1], i)]
           T == {h \in Nat : \E g : Loop(h, g)}
           Good(h, s) == HandledTo(n, h, s.peer, s.inbox, s.unread, s.overrun)
<1>1. arrived[n] \in Seq(Event) /\ k \in Nat /\ DOMAIN arrived[n] = 1 .. Len(arrived[n]) /\ Len(arrived[n]) \in Nat
  <2>1. arrived[n] \in Seq(Event)
    BY DEF NetworkInv, NetworkTypeOK
  <2> QED
    BY <2>1
<1>2. Good(0, start)
  <2>1. start.peer = peer[n] /\ start.inbox = inbox[n] /\ start.unread = unread[n] /\ start.overrun = overrun
    OBVIOUS
  <2>2. inbox[n] \in [Topics -> Seq(Message)] /\ unread[n] \in [Topics -> Nat] /\ peer[n] \in BOOLEAN
    BY DEF NetworkInv, NetworkTypeOK
  <2>3. \A t \in Topics : InboxSound(n, t, inbox[n][t], overrun) /\ WaySound(n, t, inbox[n][t], 0, overrun)
    BY DEF NetworkInv, QueuesInv, WayInv
  <2> HIDE DEF start
  <2>4. HandledTo(n, 0, peer[n], inbox[n], unread[n], overrun)
    BY <2>2, <2>3 DEF HandledTo
  <2> QED
    BY <2>1, <2>4
<1>3. ASSUME NEW h \in Nat, h + 1 \in DOMAIN arrived[n], NEW s, Good(h, s)
      PROVE  Good(h + 1, Step(s, h + 1))
  <2>1. /\ Step(s, h + 1).peer = PeerAfter(s.peer, arrived[n][h + 1])
        /\ Step(s, h + 1).inbox = Delivered(n, s.inbox, s.unread, arrived[n][h + 1])
        /\ Step(s, h + 1).unread = StillUnread(n, s.unread, arrived[n][h + 1])
        /\ Step(s, h + 1).overrun = s.overrun \cup FilledUp(n, s.unread, arrived[n][h + 1])
    OBVIOUS
  <2>2. HandledTo(n, h + 1, PeerAfter(s.peer, arrived[n][h + 1]), Delivered(n, s.inbox, s.unread, arrived[n][h + 1]),
                  StillUnread(n, s.unread, arrived[n][h + 1]),
                  s.overrun \cup FilledUp(n, s.unread, arrived[n][h + 1]))
    BY <1>3, OneEventHandled
  <2> HIDE DEF Step
  <2> DEFINE z == Step(s, h + 1)
  <2>3. Good(h + 1, z) <=> HandledTo(n, h + 1, z.peer, z.inbox, z.unread, z.overrun)
    OBVIOUS
  <2> HIDE DEF Good
  <2> QED
    BY <2>1, <2>2, <2>3
<1> HIDE DEF start, Step, Good
<1>4. 0 \in T
  <2>1. Loop(0, [i \in 0 .. 0 |-> start])
    OBVIOUS
  <2> QED
    BY <2>1
<1>5. ASSUME NEW h \in T PROVE h + 1 \in T
  <2>1. h \in Nat
    OBVIOUS
  <2>2. PICK g : Loop(h, g)
    OBVIOUS
  <2> DEFINE f == [i \in 0 .. h + 1 |-> IF i = h + 1 THEN Step(g[h], h + 1) ELSE g[i]]
  <2>3. ASSUME NEW i \in 0 .. h + 1
        PROVE  f[i] = IF i = 0 THEN start ELSE Step(f[i - 1], i)
    <3>1. CASE i = h + 1
      <4>1. i # 0 /\ i - 1 = h /\ h \in 0 .. h + 1 /\ h # h + 1
        BY <2>1, <3>1
      <4>2. f[i] = Step(g[h], h + 1) /\ f[h] = g[h]
        BY <3>1, <4>1
      <4> QED
        BY <3>1, <4>1, <4>2
    <3>2. CASE i = 0
      BY <2>1, <2>2, <3>2
    <3>3. CASE i # 0 /\ i # h + 1
      <4>1. i \in 0 .. h /\ i - 1 \in 0 .. h + 1 /\ i - 1 # h + 1
        BY <2>1, <3>3
      <4>2. f[i] = g[i] /\ f[i - 1] = g[i - 1]
        BY <3>3, <4>1
      <4>3. g[i] = Step(g[i - 1], i)
        BY <2>2, <3>3, <4>1
      <4> QED
        BY <3>3, <4>2, <4>3
    <3> QED
      BY <3>1, <3>2, <3>3
  <2>4. f = [i \in 0 .. h + 1 |-> f[i]]
    OBVIOUS
  <2> HIDE DEF f
  <2>5. Loop(h + 1, f)
    BY <2>3, <2>4
  <2> QED
    BY <2>1, <2>5
<1> HIDE DEF Loop
<1>6. T = Nat
  BY <1>4, <1>5, SetInduction
<1> DEFINE after == CHOOSE g : Loop(k, g)
<1>7. Loop(k, after)
  BY <1>1, <1>6
<1>8. AfterEvents(n, k) = after[k]
  BY DEF AfterEvents, Loop, start, Step
<1> HIDE DEF after
<1>9. /\ after[0] = start
      /\ \A i \in 1 .. k : after[i] = Step(after[i - 1], i)
  BY <1>1, <1>7 DEF Loop
<1> DEFINE U == {h \in Nat : h <= k => Good(h, after[h])}
<1>10. 0 \in U
  BY <1>2, <1>9
<1>11. ASSUME NEW h \in U PROVE h + 1 \in U
  <2>1. h \in Nat /\ h + 1 \in Nat
    OBVIOUS
  <2>2. SUFFICES ASSUME h + 1 <= k PROVE Good(h + 1, after[h + 1])
    BY <2>1
  <2>3. h + 1 \in 1 .. k /\ h <= k /\ (h + 1) - 1 = h /\ h + 1 \in DOMAIN arrived[n]
    BY <1>1, <2>1, <2>2
  <2>4. Good(h, after[h])
    BY <2>3
  <2>5. after[h + 1] = Step(after[h], h + 1)
    BY <1>9, <2>3
  <2> QED
    BY <1>3, <2>1, <2>3, <2>4, <2>5
<1>12. U = Nat
  BY <1>10, <1>11, SetInduction
<1>13. Good(k, after[k])
  BY <1>1, <1>12
<1> QED
  BY <1>8, <1>13 DEF Good

-----------------------------------------------------------------------------
(* The steps                                                               *)

LEMMA LatestNone == ASSUME NEW pub \in Nat PROVE Latest({}, pub)
<1>1. pub + 1 \in 1 .. pub + 1 /\ (pub + 1) .. pub = {}
  OBVIOUS
<1> QED
  BY <1>1 DEF Latest

LEMMA LatestExtended ==
  ASSUME NEW pub \in Nat, NEW S, Latest(S, pub)
  PROVE  Latest(S \cup {pub + 1}, pub + 1) /\ \A y \in S : y \in Nat /\ y < pub + 1
<1>1. PICK lo \in 1 .. pub + 1 : S = lo .. pub
  BY DEF Latest
<1>2. S \cup {pub + 1} = lo .. (pub + 1) /\ lo \in 1 .. (pub + 1) + 1
  BY <1>1
<1> QED
  BY <1>1, <1>2 DEF Latest

LEMMA EmptyQueue ==
  ASSUME NetworkTypeOK, NEW n \in Nodes, NEW t \in Topics
  PROVE  /\ <<>> \in Seq(Message) /\ Empty \in [Topics -> Seq(Message)] /\ Empty[t] = <<>>
         /\ (\A over : InboxSound(n, t, <<>>, over)) /\ OutSound(n, t, <<>>)
<1>1. <<>> \in Seq(Message) /\ DOMAIN <<>> = {}
  OBVIOUS
<1>2. Empty \in [Topics -> Seq(Message)] /\ Empty[t] = <<>>
  BY <1>1 DEF Empty
<1>3. published[n][t] \in Nat
  BY DEF NetworkTypeOK
<1>4. Latest(NumbersIn(<<>>, n), published[n][t])
  BY <1>3, LatestNone, NoNumbers
<1>5. \A over : InboxSound(n, t, <<>>, over)
  BY <1>1, <1>4, NoNumbers DEF InboxSound, Ascending
<1>6. OutSound(n, t, <<>>)
  BY <1>1, <1>4 DEF OutSound, Ascending
<1> QED
  BY <1>1, <1>2, <1>5, <1>6

\* What a call of advertise does to the views of the nodes.
ViewsGrow ==
  /\ \A t \in Topics : topics[t] # 0 => topics'[t] = topics[t]
  /\ \A n \in Nodes : subscribed[n] \subseteq subscribed'[n] /\ networked[n] \subseteq networked'[n]
  /\ SubscribersHavePublisher'

LEMMA CallsGrow ==
  ASSUME RegistryTypeOK, RegistryInv, SubscribersHavePublisher, NEW n \in Nodes,
         \/ \E t \in Topics, o \in Op : Reuse(n, t, o) \/ Lookup(n, t, o)
         \/ Incr(n) \/ Zadd(n) \/ Zscore(n) \/ Insert(n)
  PROVE  ViewsGrow
<1> USE DEF RegistryTypeOK, kvVars, nodeVars, callVars
<1>1. ASSUME NEW t \in Topics, NEW o \in Op, Reuse(n, t, o) PROVE ViewsGrow
  BY <1>1 DEF Reuse, Finish, ViewsGrow, SubscribersHavePublisher
<1>2. ASSUME NEW t \in Topics, NEW o \in Op, Lookup(n, t, o) PROVE ViewsGrow
  BY <1>2 DEF Lookup, ViewsGrow, SubscribersHavePublisher
<1>3. CASE Incr(n)
  BY <1>3 DEF Incr, ViewsGrow, SubscribersHavePublisher
<1>4. CASE Zadd(n)
  BY <1>4 DEF Zadd, ViewsGrow, SubscribersHavePublisher
<1>5. CASE Zscore(n)
  BY <1>5 DEF Zscore, ViewsGrow, SubscribersHavePublisher
<1>6. CASE Insert(n)
  <2>1. id[n] # 0
    BY <1>6 DEF Insert, RegistryInv, ViewsMatchStore
  <2> QED
    BY <1>6, <2>1 DEF Insert, Finish, ViewsGrow, SubscribersHavePublisher
<1> QED
  BY <1>1, <1>2, <1>3, <1>4, <1>5, <1>6

LEMMA CallKeeps ==
  ASSUME NetworkInv, ViewsGrow, UNCHANGED netVars
  PROVE  NetworkInv'
<1> USE DEF netVars, queueVars, linkVars, ghosts
<1>1. NetworkTypeOK'
  BY DEF NetworkInv, NetworkTypeOK
<1>2. SubscribersHavePublisher'
  BY DEF ViewsGrow
<1>3. QueuesInv'
  <2> SUFFICES ASSUME NEW n \in Nodes, NEW t \in Topics
               PROVE  InboxSound(n, t, inbox[n][t], overrun)' /\ OutSound(n, t, out[n][t])'
    BY DEF QueuesInv
  <2>1. InboxSound(n, t, inbox[n][t], overrun) /\ OutSound(n, t, out[n][t])
    BY DEF NetworkInv, QueuesInv
  <2> QED
    BY <2>1 DEF InboxSound, OutSound, ViewsGrow
<1>4. WireInv'
  <2> SUFFICES ASSUME NEW n \in Nodes PROVE WireSound(n, arrived[n], broken)'
    BY DEF WireInv
  <2>1. WireSound(n, arrived[n], broken) /\ arrived[n] \in Seq(Event)
    BY DEF NetworkInv, WireInv, NetworkTypeOK
  <2>2. \A i \in DOMAIN arrived[n] : arrived[n][i].type = "receive" => arrived[n][i].msg.topic \in Topics
    BY <2>1, EventFields, MessageFields
  <2> QED
    BY <2>1, <2>2 DEF WireSound, ViewsGrow
<1>5. WayInv'
  <2> SUFFICES ASSUME NEW n \in Nodes, NEW t \in Topics PROVE WaySound(n, t, inbox[n][t], 0, overrun)'
    BY DEF WayInv
  <2>1. WaySound(n, t, inbox[n][t], 0, overrun) /\ Other(n) \in Nodes
    BY OtherNode DEF NetworkInv, WayInv
  <2> QED
    BY <2>1 DEF WaySound, ViewsGrow
<1>6. LinkInv'
  BY DEF NetworkInv, LinkInv
<1> QED
  BY <1>1, <1>2, <1>3, <1>4, <1>5, <1>6 DEF NetworkInv

\* A step that changes neither queues nor the views nor what has happened to
\* connections.
LEMMA QueuesKept ==
  ASSUME NetworkInv, UNCHANGED <<registryVars, queueVars, ghosts>>
  PROVE  SubscribersHavePublisher' /\ QueuesInv'
<1> USE DEF registryVars, nodeVars, kvVars, queueVars, ghosts
<1>1. SubscribersHavePublisher'
  BY DEF NetworkInv, SubscribersHavePublisher
<1>2. QueuesInv'
  BY DEF NetworkInv, QueuesInv, InboxSound, OutSound
<1> QED
  BY <1>1, <1>2

LEMMA NoSignals == \A p, k : PeerInTheEnd(p, <<>>, k) <=> p
<1>1. DOMAIN <<>> = {}
  OBVIOUS
<1> QED
  BY <1>1 DEF PeerInTheEnd

LEMMA ServeKeeps ==
  ASSUME NetworkInv, Serve
  PROVE  NetworkInv'
<1> USE DEF Serve, registryVars, nodeVars, kvVars, queueVars, ghosts
<1>0. Server \in Nodes
  BY NetworkAssumption
<1>1. NetworkTypeOK'
  BY DEF NetworkInv, NetworkTypeOK
<1>2. SubscribersHavePublisher' /\ QueuesInv'
  BY QueuesKept
<1>3. WireInv'
  BY DEF NetworkInv, WireInv, WireSound
<1>4. WayInv'
  BY ZenonT(60) DEF NetworkInv, WayInv, WaySound
<1>5. LinkInv'
  <2>1. ~peer[Server] /\ arrived[Server] = <<>> /\ ~link
    BY <1>0 DEF NetworkInv, LinkInv
  <2>2. PeerInTheEnd(peer[Server], arrived[Server], 0) <=> link
    BY <2>1, NoSignals
  <2>3. \A n \in Nodes : started'[n] <=> (started[n] \/ n = Server)
    BY <1>0 DEF NetworkInv, NetworkTypeOK
  <2> QED
    BY <2>1, <2>2, <2>3 DEF NetworkInv, LinkInv
<1> QED
  BY <1>1, <1>2, <1>3, <1>4, <1>5 DEF NetworkInv

LEMMA ConnectKeeps ==
  ASSUME NetworkInv, Connect
  PROVE  NetworkInv'
<1> USE DEF registryVars, nodeVars, kvVars, queueVars, ghosts
<1> DEFINE es == arrived[Server]
           w == Append(es, [type |-> "connect"])
<1>0. Server \in Nodes /\ Client \in Nodes /\ Server # Client /\ Nodes = {Server, Client}
  BY NetworkAssumption
<1>1. /\ ~started[Client] /\ ~link /\ started[Server] /\ link' = TRUE
      /\ UNCHANGED <<registryVars, queueVars, ghosts>>
  BY DEF Connect, Ticking, Waiting, Running
<1>2. /\ \A n \in Nodes : started'[n] /\ started' \in [Nodes -> BOOLEAN]
      /\ peer'[Client] = TRUE /\ peer'[Server] = peer[Server] /\ peer' \in [Nodes -> BOOLEAN]
      /\ arrived'[Server] = w /\ arrived'[Client] = arrived[Client]
      /\ DOMAIN arrived' = Nodes /\ arrived' = [n \in Nodes |-> arrived'[n]]
  BY <1>0, <1>1 DEF Connect, NetworkInv, NetworkTypeOK
<1>3. ~peer[Client] /\ arrived[Client] = <<>> /\ inbox[Client] = Empty
  BY <1>0, <1>1 DEF NetworkInv, LinkInv
<1>4. es \in Seq(Event) /\ WireSound(Server, es, broken)
  BY <1>0 DEF NetworkInv, NetworkTypeOK, WireInv
<1>5. /\ w \in Seq(Event) /\ WireSound(Server, w, broken)
      /\ \A t : NumbersOf(w, 0, t) = NumbersOf(es, 0, t)
      /\ \A p : PeerInTheEnd(p, w, 0) <=> "connect" = "connect"
  <2>1. "connect" \in {"connect", "disconnect"} /\ "connect" # "disconnect"
    OBVIOUS
  <2> HIDE DEF es
  <2> QED
    BY <1>4, <2>1, SignalAppended
<1> HIDE DEF w
<1>6. NetworkTypeOK'
  <2>1. arrived' \in [Nodes -> Seq(Event)]
    <3>1. <<>> \in Seq(Event)
      OBVIOUS
    <3> QED
      BY <1>0, <1>2, <1>3, <1>5, <3>1
  <2> QED
    BY <1>1, <1>2, <2>1 DEF NetworkInv, NetworkTypeOK
<1>7. SubscribersHavePublisher' /\ QueuesInv'
  BY <1>1, QueuesKept
<1>8. WireInv'
  <2>1. WireSound(Client, arrived[Client], broken)
    BY <1>0 DEF NetworkInv, WireInv
  <2>2. WireSound(Server, arrived[Server], broken)'
    BY <1>1, <1>2, <1>5 DEF WireSound
  <2>3. WireSound(Client, arrived[Client], broken)'
    BY <1>1, <1>2, <2>1 DEF WireSound
  <2> QED
    BY <1>0, <2>2, <2>3 DEF WireInv
<1>9. WayInv'
  <2> SUFFICES ASSUME NEW n \in Nodes, NEW t \in Topics PROVE WaySound(n, t, inbox[n][t], 0, overrun)'
    BY DEF WayInv
  <2>1. WaySound(n, t, inbox[n][t], 0, overrun)
    BY DEF NetworkInv, WayInv
  <2>2. NumbersOf(arrived'[n], 0, t) = NumbersOf(arrived[n], 0, t)
    BY <1>0, <1>2, <1>5
  <2>3. CASE n = Server
    BY <1>1, <2>1, <2>2, <2>3 DEF WaySound
  <2>4. CASE n = Client
    <3>1. inbox[n][t] = <<>> /\ NumbersIn(inbox[n][t], Other(n)) = {} /\ NumbersOf(arrived[n], 0, t) = {}
      BY <1>3, <2>4, NoNumbers DEF Empty
    <3> QED
      BY <1>1, <2>1, <2>2, <3>1 DEF WaySound
  <2> QED
    BY <1>0, <2>3, <2>4
<1>10. LinkInv'
  <2>1. PeerInTheEnd(peer'[Server], arrived'[Server], 0)
    BY <1>2, <1>5
  <2>2. PeerInTheEnd(peer'[Client], arrived'[Client], 0)
    <3>1. PeerInTheEnd(TRUE, <<>>, 0)
      BY NoSignals
    <3> QED
      BY <1>2, <1>3, <3>1
  <2> QED
    BY <1>0, <1>1, <1>2, <2>1, <2>2 DEF LinkInv
<1> QED
  BY <1>6, <1>7, <1>8, <1>9, <1>10 DEF NetworkInv

\* What the other node finds when one has ended: some of its events, and the
\* end of the connection if there was one.
LEMMA EndOfConnection ==
  ASSUME NetworkInv, NEW n \in Nodes, NodeRestart(n)
  PROVE  LET m == Other(n)
             w == arrived'[m] IN
         /\ arrived' \in [Nodes -> Seq(Event)] /\ arrived'[n] = <<>>
         /\ WireSound(m, w, broken')
         /\ \A t : NumbersOf(w, 0, t) \subseteq NumbersOf(arrived[m], 0, t)
         /\ link => m \in broken' /\ \A p : ~PeerInTheEnd(p, w, 0)
         /\ ~link => w = arrived[m] /\ broken' = broken \ {n}
<1> DEFINE m == Other(n)
           es == arrived[m]
           w == arrived'[m]
<1>1. m \in Nodes /\ m # n /\ Nodes = {n, m}
  BY OtherNode
<1>2. arrived \in [Nodes -> Seq(Event)] /\ es \in Seq(Event) /\ WireSound(m, es, broken)
  BY <1>1 DEF NetworkInv, NetworkTypeOK, WireInv
<1>3. PICK k \in 0 .. Len(es) :
        arrived' = [arrived EXCEPT ![n] = <<>>,
                                   ![m] = IF link THEN Append(SubSeq(@, 1, k), [type |-> "disconnect"]) ELSE @]
  BY DEF NodeRestart
<1>4. broken' = IF link THEN (broken \cup {m}) \ {n} ELSE broken \ {n}
  BY DEF NodeRestart
<1> HIDE DEF m
<1> DEFINE pre == SubSeq(es, 1, k)
<1>5. /\ arrived'[n] = <<>> /\ DOMAIN arrived' = Nodes /\ arrived' = [i \in Nodes |-> arrived'[i]]
      /\ w = IF link THEN Append(pre, [type |-> "disconnect"]) ELSE es
  BY <1>1, <1>2, <1>3
<1>6. m \in broken => m \in broken'
  BY <1>1, <1>4
<1>7. WireSound(m, es, broken')
  BY <1>2, <1>6 DEF WireSound
<1> HIDE DEF es
<1>8. CASE link
  <2>1. pre \in Seq(Event) /\ WireSound(m, pre, broken') /\ \A t : NumbersOf(pre, 0, t) \subseteq NumbersOf(es, 0, t)
    BY <1>2, <1>3, <1>7, PrefixOfEvents
  <2>2. m \in broken'
    BY <1>1, <1>4, <1>8
  <2>3. "disconnect" \in {"connect", "disconnect"} /\ "disconnect" # "connect"
    OBVIOUS
  <2> HIDE DEF pre
  <2> DEFINE v == Append(pre, [type |-> "disconnect"])
  <2>4. /\ v \in Seq(Event) /\ WireSound(m, v, broken')
        /\ \A t : NumbersOf(v, 0, t) = NumbersOf(pre, 0, t)
        /\ \A p : PeerInTheEnd(p, v, 0) <=> "disconnect" = "connect"
    BY <2>1, <2>2, <2>3, SignalAppended
  <2>5. w = v
    BY <1>5, <1>8
  <2> HIDE DEF v, w
  <2>6. arrived' \in [Nodes -> Seq(Event)]
    <3>1. <<>> \in Seq(Event)
      OBVIOUS
    <3> QED
      BY <1>1, <1>5, <2>4, <2>5, <3>1 DEF w
  <2>7. WireSound(m, w, broken') /\ \A t : NumbersOf(w, 0, t) \subseteq NumbersOf(es, 0, t)
    BY <2>1, <2>4, <2>5
  <2>8. \A p : ~PeerInTheEnd(p, w, 0)
    BY <2>3, <2>4, <2>5
  <2> QED
    BY <1>5, <1>8, <2>2, <2>6, <2>7, <2>8 DEF w, es, m
<1>9. CASE ~link
  <2>1. w = es /\ broken' = broken \ {n}
    BY <1>4, <1>5, <1>9
  <2>2. arrived' \in [Nodes -> Seq(Event)]
    <3>1. <<>> \in Seq(Event)
      OBVIOUS
    <3> QED
      BY <1>1, <1>2, <1>5, <2>1, <3>1
  <2> QED
    BY <1>5, <1>7, <1>9, <2>1, <2>2 DEF es, m
<1> QED
  BY <1>8, <1>9

LEMMA RestartKeeps ==
  ASSUME RegistryTypeOK, NetworkInv, NEW n \in Nodes, NodeRestart(n)
  PROVE  NetworkInv'
<1> DEFINE m == Other(n)
           w == arrived'[m]
<1>1. m \in Nodes /\ m # n /\ Nodes = {n, m} /\ Other(m) = n
  BY OtherNode
<1>2. /\ arrived' \in [Nodes -> Seq(Event)] /\ arrived'[n] = <<>>
      /\ WireSound(m, w, broken')
      /\ \A t : NumbersOf(w, 0, t) \subseteq NumbersOf(arrived[m], 0, t)
      /\ link => m \in broken' /\ \A p : ~PeerInTheEnd(p, w, 0)
      /\ ~link => w = arrived[m] /\ broken' = broken \ {n}
  BY EndOfConnection
<1>3. /\ topics' = topics /\ publishers'[m] = publishers[m]
      /\ subscribed'[m] = subscribed[m] /\ networked'[m] = networked[m]
      /\ subscribed'[n] = {} /\ networked'[n] = {}
  BY <1>1 DEF NodeRestart, Restart, RegistryTypeOK, kvVars
<1>4. /\ out'[n] = Empty /\ out'[m] = out[m] /\ inbox'[n] = Empty /\ inbox'[m] = inbox[m]
      /\ out' = [i \in Nodes |-> out'[i]] /\ inbox' = [i \in Nodes |-> inbox'[i]]
      /\ ~started'[n] /\ started'[m] = started[m] /\ started' \in [Nodes -> BOOLEAN]
      /\ peer'[n] = FALSE /\ peer'[m] = peer[m] /\ peer' \in [Nodes -> BOOLEAN]
      /\ link' = FALSE /\ burst' = burst \ {n} /\ published' = published
      /\ broken' \subseteq Nodes /\ unread' \in [Nodes -> [Topics -> Nat]]
  BY <1>1 DEF NodeRestart, NetworkInv, NetworkTypeOK, NoneUnread
<1>11. ASSUME NEW t \in Topics, Local(m, t) \notin overrun' PROVE Local(m, t) \notin overrun
  <2>1. overrun' = overrun \ RingsOf(n) /\ m # n
    BY <1>1 DEF NodeRestart
  <2>2. Local(m, t) \notin RingsOf(n)
    BY <2>1 DEF Local, RingsOf
  <2> QED
    BY <1>11, <2>1, <2>2
<1> HIDE DEF m
<1>5. NetworkTypeOK'
  <2>1. Empty \in [Topics -> Seq(Message)]
    BY DEF Empty
  <2>2. out[m] \in [Topics -> Seq(Message)] /\ inbox[m] \in [Topics -> Seq(Message)]
    BY <1>1 DEF NetworkInv, NetworkTypeOK
  <2>3. out' \in [Nodes -> [Topics -> Seq(Message)]] /\ inbox' \in [Nodes -> [Topics -> Seq(Message)]]
    BY <1>1, <1>4, <2>1, <2>2
  <2> QED
    BY <1>2, <1>4, <2>3 DEF NetworkInv, NetworkTypeOK
<1>6. SubscribersHavePublisher'
  BY <1>1, <1>3 DEF NetworkInv, SubscribersHavePublisher
<1>7. QueuesInv'
  <2> SUFFICES ASSUME NEW i \in Nodes, NEW t \in Topics
               PROVE  InboxSound(i, t, inbox[i][t], overrun)' /\ OutSound(i, t, out[i][t])'
    BY DEF QueuesInv
  <2>1. CASE i = m
    <3>1. InboxSound(m, t, inbox[m][t], overrun) /\ OutSound(m, t, out[m][t])
      BY <1>1 DEF NetworkInv, QueuesInv
    <3> QED
      BY <1>3, <1>4, <1>11, <2>1, <3>1 DEF InboxSound, OutSound
  <2>2. CASE i = n
    <3>1. published[n][t] \in Nat /\ Empty[t] = <<>> /\ DOMAIN <<>> = {}
      BY DEF NetworkInv, NetworkTypeOK, Empty
    <3>2. Latest(NumbersIn(<<>>, n), published[n][t])
      BY <3>1, LatestNone, NoNumbers
    <3>3. NumbersIn(<<>>, n) = {}
      BY NoNumbers
    <3> QED
      BY <1>4, <2>2, <3>1, <3>2, <3>3 DEF InboxSound, OutSound, Ascending
  <2> QED
    BY <1>1, <2>1, <2>2
<1>8. WireInv'
  <2>1. WireSound(m, arrived[m], broken)'
    BY <1>2, <1>3 DEF WireSound
  <2>2. DOMAIN <<>> = {}
    OBVIOUS
  <2>3. WireSound(n, arrived[n], broken)'
    BY <1>2, <2>2 DEF WireSound
  <2> QED
    BY <1>1, <2>1, <2>3 DEF WireInv
<1>9. WayInv'
  <2> SUFFICES ASSUME NEW i \in Nodes, NEW t \in Topics PROVE WaySound(i, t, inbox[i][t], 0, overrun)'
    BY DEF WayInv
  <2>0. Empty[t] = <<>> /\ Other(n) = m
    BY DEF Empty, m
  <2>1. CASE i = n
    <3> DEFINE wait == NumbersIn(out[m][t], m)
    <3>1. NumbersIn(inbox'[n][t], m) = {} /\ NumbersOf(arrived'[n], 0, t) = {}
      BY <1>2, <1>4, <2>0, NoNumbers
    <3>2. Latest(wait, published[m][t])
      BY <1>1 DEF NetworkInv, QueuesInv, OutSound
    <3>3. wait \subseteq 1 .. published[m][t]
      <4>1. WaySound(n, t, inbox[n][t], 0, overrun)
        BY DEF NetworkInv, WayInv
      <4> QED
        BY <2>0, <4>1 DEF WaySound
    <3>4. {} \cup {} \cup wait = wait
      OBVIOUS
    <3> HIDE DEF wait
    <3>5. WaySound(n, t, inbox[n][t], 0, overrun)'
      BY <1>4, <2>0, <3>1, <3>2, <3>3, <3>4 DEF WaySound, Before, wait
    <3> QED
      BY <2>1, <3>5
  <2>2. CASE i = m
    <3> DEFINE come == NumbersIn(inbox[m][t], n)
               way == NumbersOf(arrived[m], 0, t)
               rest == NumbersOf(w, 0, t)
    <3>1. WaySound(m, t, inbox[m][t], 0, overrun)
      BY <1>1 DEF NetworkInv, WayInv
    <3>2. /\ Before(come, way) /\ come \cup way \subseteq 1 .. published[n][t]
          /\ come \cup way # {} /\ m \notin broken => link
      BY <1>1, <3>1 DEF WaySound
    <3>3. rest \subseteq way
      BY <1>2
    <3>4. NumbersIn(out'[n][t], n) = {}
      BY <1>4, <2>0, NoNumbers
    <3>5. m \notin broken' => come \cup rest = {}
      BY <1>1, <1>2, <3>2, <3>3
    <3>6. published[n][t] \in Nat
      BY DEF NetworkInv, NetworkTypeOK
    <3>7. Before(come, rest) /\ come \cup rest \subseteq 1 .. published[n][t]
      BY <3>2, <3>3 DEF Before
    <3>8. m \notin broken' => Latest(come \cup rest, published[n][t])
      BY <3>5, <3>6, LatestNone
    <3> HIDE DEF come, rest
    <3>9. come \cup rest \cup {} = come \cup rest
      OBVIOUS
    <3>10. WaySound(m, t, inbox[m][t], 0, overrun)'
      BY <1>1, <1>4, <3>4, <3>5, <3>7, <3>8, <3>9 DEF WaySound, Before, come, rest
    <3> QED
      BY <2>2, <3>10
  <2> QED
    BY <1>1, <2>1, <2>2
<1>10. LinkInv'
  <2>1. ~started[m] => ~peer[m] /\ arrived[m] = <<>> /\ inbox[m] = Empty /\ ~link
    BY <1>1 DEF NetworkInv, LinkInv
  <2>2. m \notin burst /\ started[m] => (PeerInTheEnd(peer[m], arrived[m], 0) <=> link)
    BY <1>1 DEF NetworkInv, LinkInv
  <2>3. m \notin burst' /\ started[m] => ~PeerInTheEnd(peer[m], w, 0)
    BY <1>1, <1>2, <1>4, <2>2
  <2> QED
    BY <1>1, <1>2, <1>4, <2>1, <2>3 DEF LinkInv
<1> QED
  BY <1>5, <1>6, <1>7, <1>8, <1>9, <1>10 DEF NetworkInv

\* A message that its node puts into one of its own queues.
LEMMA OwnMessage ==
  ASSUME NEW n \in Nodes, NEW t \in Topics, NEW pub \in Nat, NEW q \in Seq(Message),
         Ascending(q), NumbersIn(q, n) \subseteq 1 .. pub, \A i \in DOMAIN q : q[i].topic = t
  PROVE  LET x == [from |-> n, topic |-> t, seq |-> pub + 1]
             w == Append(q, x) IN
         /\ w \in Seq(Message) /\ Ascending(w)
         /\ \A i \in DOMAIN w : w[i].topic = t
         /\ (\A i \in DOMAIN q : q[i].from = n) => \A i \in DOMAIN w : w[i].from = n
         /\ NumbersIn(w, n) = NumbersIn(q, n) \cup {pub + 1}
         /\ \A m : m # n => NumbersIn(w, m) = NumbersIn(q, m)
         /\ Latest(NumbersIn(q, n), pub) => Latest(NumbersIn(w, n), pub + 1)
<1> DEFINE x == [from |-> n, topic |-> t, seq |-> pub + 1]
           w == Append(q, x)
<1>1. x \in Message /\ x.from = n /\ x.topic = t /\ x.seq = pub + 1
  BY DEF Message
<1>2. /\ Latest(NumbersIn(q, n), pub) => Latest(NumbersIn(q, n) \cup {pub + 1}, pub + 1)
      /\ \A y \in NumbersIn(q, n) : y < pub + 1
  BY LatestExtended
<1> HIDE DEF x
<1>3. \A m : NumbersIn(w, m) = NumbersIn(q, m) \cup (IF x.from = m THEN {x.seq} ELSE {})
  BY <1>1, NumbersAppended
<1>4. Ascending(w)
  BY <1>1, <1>2, AscendingAppended
<1>5. w \in Seq(Message) /\ (\A i \in DOMAIN w : w[i].topic = t)
  BY <1>1
<1>6. (\A i \in DOMAIN q : q[i].from = n) => \A i \in DOMAIN w : w[i].from = n
  BY <1>1
<1> HIDE DEF w
<1>7. NumbersIn(w, n) = NumbersIn(q, n) \cup {pub + 1} /\ \A m : m # n => NumbersIn(w, m) = NumbersIn(q, m)
  BY <1>1, <1>3
<1> QED
  BY <1>2, <1>4, <1>5, <1>6, <1>7 DEF w, x

LEMMA PublishKeeps ==
  ASSUME RegistryTypeOK, NetworkInv, NEW n \in Nodes, NEW t \in Topics, Publish(n, t)
  PROVE  NetworkInv'
<1> DEFINE m == Other(n)
           pub == published[n][t]
           x == [from |-> n, topic |-> t, seq |-> pub + 1]
           q == inbox[n][t]
           o == out[n][t]
           u == unread[n][t]
<1> USE DEF registryVars, nodeVars, kvVars, linkVars, ghosts
<1>1. m \in Nodes /\ m # n /\ Nodes = {n, m} /\ Other(m) = n
  BY OtherNode
<1>2. /\ pub \in Nat /\ q \in Seq(Message) /\ o \in Seq(Message) /\ u \in Nat
      /\ InboxSound(n, t, q, overrun) /\ OutSound(n, t, o)
  BY DEF NetworkInv, NetworkTypeOK, QueuesInv
<1>3. /\ UNCHANGED <<registryVars, linkVars, ghosts>> /\ started[n]
      /\ published' = [published EXCEPT ![n][t] = pub + 1]
      /\ out' = IF t \in networked[n] THEN [out EXCEPT ![n][t] = Pushed(o, Len(o), x)] ELSE out
      /\ inbox' = IF t \in subscribed[n] THEN [inbox EXCEPT ![n][t] = Pushed(q, u, x)] ELSE inbox
  BY DEF Publish, InUse, Waiting, Running, NetworkInv, NetworkTypeOK
<1>14. /\ unread' = IF t \in subscribed[n] THEN [unread EXCEPT ![n][t] = InRing(u)] ELSE unread
       /\ overrun \subseteq overrun'
       /\ t \in subscribed[n] /\ u + 1 = SLOTS => Local(n, t) \in overrun'
       /\ t \in networked[n] /\ Len(o) + 1 = SLOTS => Networked(n, t) \in overrun'
  BY DEF Publish, NetworkInv, NetworkTypeOK
<1>15. unread' \in [Nodes -> [Topics -> Nat]]
  <2>1. InRing(u) \in Nat /\ unread \in [Nodes -> [Topics -> Nat]]
    BY <1>2, InRingType DEF NetworkInv, NetworkTypeOK
  <2>2. [unread EXCEPT ![n][t] = InRing(u)] \in [Nodes -> [Topics -> Nat]]
    <3> HIDE DEF u
    <3> QED
      BY <2>1
  <2>3. unread' = unread \/ unread' = [unread EXCEPT ![n][t] = InRing(u)]
    BY <1>14
  <2> HIDE DEF u
  <2> QED
    BY <2>1, <2>2, <2>3, Zenon
<1>4. /\ published' \in [Nodes -> [Topics -> Nat]] /\ published'[n][t] = pub + 1
      /\ \A i \in Nodes, v \in Topics : i # n \/ v # t => published'[i][v] = published[i][v]
  BY <1>2, <1>3 DEF NetworkInv, NetworkTypeOK
<1>5. /\ out'[n][t] = IF t \in networked[n] THEN Pushed(o, Len(o), x) ELSE o
      /\ \A i \in Nodes, v \in Topics : i # n \/ v # t => out'[i][v] = out[i][v]
      /\ inbox'[n][t] = IF t \in subscribed[n] THEN Pushed(q, u, x) ELSE q
      /\ \A i \in Nodes, v \in Topics : i # n \/ v # t => inbox'[i][v] = inbox[i][v]
  <2> HIDE DEF x, q, o, u
  <2> QED
    BY <1>3 DEF NetworkInv, NetworkTypeOK, q, o
<1>6. /\ InboxSound(n, t, inbox[n][t], overrun)' /\ inbox'[n][t] \in Seq(Message)
      /\ NumbersIn(inbox'[n][t], m) \subseteq NumbersIn(q, m)
      /\ Local(n, t) \notin overrun' => NumbersIn(inbox'[n][t], m) = NumbersIn(q, m)
  <2>0. /\ Ascending(q) /\ \A i \in DOMAIN q : q[i].topic = t
        /\ q # <<>> => t \in subscribed[n]
        /\ NumbersIn(q, n) \subseteq 1 .. pub /\ (Local(n, t) \notin overrun' => Latest(NumbersIn(q, n), pub))
    BY <1>2, <1>14 DEF InboxSound
  <2>1. CASE t \in subscribed[n] /\ u + 1 # SLOTS
    <3> DEFINE w == Append(q, x)
    <3>1. /\ w \in Seq(Message) /\ Ascending(w)
          /\ \A i \in DOMAIN w : w[i].topic = t
          /\ \A i : i # n => NumbersIn(w, i) = NumbersIn(q, i)
          /\ NumbersIn(w, n) = NumbersIn(q, n) \cup {pub + 1}
          /\ Latest(NumbersIn(q, n), pub) => Latest(NumbersIn(w, n), pub + 1)
      <4> HIDE DEF pub, q
      <4> QED
        BY <1>2, <2>0, OwnMessage
    <3>2. inbox'[n][t] = w
      BY <1>5, <2>1 DEF Pushed
    <3>3. NumbersIn(w, n) \subseteq 1 .. pub + 1
      <4> HIDE DEF w, pub, q
      <4> QED
        BY <1>2, <2>0, <3>1
    <3> HIDE DEF w
    <3> QED
      BY <1>1, <1>3, <1>4, <2>0, <2>1, <3>1, <3>2, <3>3 DEF InboxSound
  <2>2. CASE t \in subscribed[n] /\ u + 1 = SLOTS
    <3> DEFINE w == SubSeq(q, 1, Len(q) - u)
    <3>1. inbox'[n][t] = w /\ Local(n, t) \in overrun'
      BY <1>5, <1>14, <2>2 DEF Pushed
    <3>2. /\ w \in Seq(Message) /\ DOMAIN w \subseteq DOMAIN q /\ (\A i \in DOMAIN w : w[i] = q[i])
          /\ (Ascending(q) => Ascending(w)) /\ \A i : NumbersIn(w, i) \subseteq NumbersIn(q, i)
      <4> HIDE DEF q, u
      <4> QED
        BY <1>2, QueueShortened
    <3> HIDE DEF w
    <3>3. /\ Ascending(w) /\ (\A i \in DOMAIN w : w[i].topic = t)
          /\ NumbersIn(w, n) \subseteq 1 .. pub + 1
      BY <1>2, <2>0, <3>2
    <3> HIDE DEF q, pub
    <3> QED
      BY <1>3, <1>4, <2>2, <3>1, <3>2, <3>3 DEF InboxSound
  <2>3. CASE t \notin subscribed[n]
    <3>1. inbox'[n][t] = q /\ q = <<>>
      BY <1>5, <2>0, <2>3
    <3>2. NumbersIn(q, n) = {}
      BY <3>1, NoNumbers
    <3>3. Latest(NumbersIn(q, n), pub + 1) /\ NumbersIn(q, n) \subseteq 1 .. pub + 1
      <4> HIDE DEF q, pub
      <4> QED
        BY <1>2, <3>2, LatestNone
    <3> HIDE DEF q
    <3> QED
      BY <1>2, <1>3, <1>4, <2>0, <3>1, <3>3, ZenonT(60) DEF InboxSound
  <2> QED
    BY <2>1, <2>2, <2>3
<1>7. /\ OutSound(n, t, out[n][t])' /\ out'[n][t] \in Seq(Message)
      /\ NumbersIn(out'[n][t], n) \subseteq NumbersIn(o, n) \cup (IF t \in networked[n] THEN {pub + 1} ELSE {})
      /\ t \in networked[n] /\ Networked(n, t) \notin overrun' =>
           NumbersIn(out'[n][t], n) = NumbersIn(o, n) \cup {pub + 1}
      /\ t \notin networked[n] => NumbersIn(o, n) = {}
  <2>0. /\ Ascending(o) /\ Latest(NumbersIn(o, n), pub)
        /\ \A i \in DOMAIN o : o[i].topic = t
        /\ \A i \in DOMAIN o : o[i].from = n
        /\ o # <<>> => t \in networked[n]
    BY <1>2 DEF OutSound
  <2>1. CASE t \in networked[n] /\ Len(o) + 1 # SLOTS
    <3> DEFINE w == Append(o, x)
    <3>0. NumbersIn(o, n) \subseteq 1 .. pub
      <4> HIDE DEF o, pub
      <4> QED
        BY <1>2, <2>0 DEF Latest
    <3>1. /\ w \in Seq(Message) /\ Ascending(w)
          /\ \A i \in DOMAIN w : w[i].topic = t
          /\ (\A i \in DOMAIN o : o[i].from = n) => \A i \in DOMAIN w : w[i].from = n
          /\ NumbersIn(w, n) = NumbersIn(o, n) \cup {pub + 1}
          /\ Latest(NumbersIn(w, n), pub + 1)
      <4> HIDE DEF pub, o
      <4> QED
        BY <1>2, <2>0, <3>0, OwnMessage
    <3>2. out'[n][t] = w
      BY <1>5, <2>1 DEF Pushed
    <3> HIDE DEF w
    <3> QED
      BY <1>1, <1>3, <1>4, <2>0, <2>1, <3>1, <3>2 DEF OutSound
  <2>2. CASE t \in networked[n] /\ Len(o) + 1 = SLOTS
    <3>1. out'[n][t] = <<>> /\ Networked(n, t) \in overrun'
      <4>1. out'[n][t] = SubSeq(o, 1, Len(o) - Len(o)) /\ Len(o) \in Nat
        BY <1>2, <1>5, <2>2 DEF Pushed
      <4>2. SubSeq(o, 1, Len(o) - Len(o)) = <<>>
        BY <1>2, <4>1, QueueShortened
      <4> QED
        BY <1>14, <2>2, <4>1, <4>2
    <3>2. NumbersIn(<<>>, n) = {} /\ Latest({}, pub + 1) /\ DOMAIN <<>> = {} /\ <<>> \in Seq(Message)
      BY <1>2, LatestNone, NoNumbers
    <3> QED
      BY <1>3, <1>4, <2>2, <3>1, <3>2, ZenonT(60) DEF OutSound, Ascending
  <2>3. CASE t \notin networked[n]
    <3>1. out'[n][t] = o /\ o = <<>>
      BY <1>5, <2>0, <2>3
    <3>2. Latest(NumbersIn(o, n), pub + 1) /\ NumbersIn(o, n) = {}
      <4>1. NumbersIn(o, n) = {}
        BY <3>1, NoNumbers
      <4> HIDE DEF o, pub
      <4> QED
        BY <1>2, <4>1, LatestNone
    <3> HIDE DEF o
    <3> QED
      BY <1>2, <1>3, <1>4, <2>0, <2>3, <3>1, <3>2, ZenonT(60) DEF OutSound
  <2> QED
    BY <2>1, <2>2, <2>3
<1> HIDE DEF x, u
<1>8. NetworkTypeOK'
  <2>1. out' \in [Nodes -> [Topics -> Seq(Message)]] /\ inbox' \in [Nodes -> [Topics -> Seq(Message)]]
    <3>1. out \in [Nodes -> [Topics -> Seq(Message)]] /\ inbox \in [Nodes -> [Topics -> Seq(Message)]]
      BY DEF NetworkInv, NetworkTypeOK
    <3>2. CASE t \in networked[n] /\ t \in subscribed[n]
      BY <1>3, <1>5, <1>6, <1>7, <3>1, <3>2
    <3>3. CASE t \in networked[n] /\ t \notin subscribed[n]
      BY <1>3, <1>5, <1>6, <1>7, <3>1, <3>3
    <3>4. CASE t \notin networked[n] /\ t \in subscribed[n]
      BY <1>3, <1>5, <1>6, <1>7, <3>1, <3>4
    <3>5. CASE t \notin networked[n] /\ t \notin subscribed[n]
      BY <1>3, <3>1, <3>5
    <3> QED
      BY <3>2, <3>3, <3>4, <3>5
  <2> QED
    BY <1>3, <1>4, <1>15, <2>1 DEF NetworkInv, NetworkTypeOK
<1>9. SubscribersHavePublisher'
  BY <1>3 DEF NetworkInv, SubscribersHavePublisher
<1>10. QueuesInv'
  <2> SUFFICES ASSUME NEW i \in Nodes, NEW v \in Topics
               PROVE  InboxSound(i, v, inbox[i][v], overrun)' /\ OutSound(i, v, out[i][v])'
    BY DEF QueuesInv
  <2>1. CASE i # n \/ v # t
    <3>1. InboxSound(i, v, inbox[i][v], overrun) /\ OutSound(i, v, out[i][v])
      BY DEF NetworkInv, QueuesInv
    <3>2. inbox'[i][v] = inbox[i][v] /\ out'[i][v] = out[i][v] /\ published'[i][v] = published[i][v]
      BY <1>4, <1>5, <2>1
    <3> QED
      BY <1>3, <1>14, <3>1, <3>2 DEF InboxSound, OutSound
  <2> QED
    BY <1>6, <1>7, <2>1
<1>11. WireInv'
  BY <1>3 DEF NetworkInv, WireInv, WireSound
<1>12. WayInv'
  <2> SUFFICES ASSUME NEW i \in Nodes, NEW v \in Topics PROVE WaySound(i, v, inbox[i][v], 0, overrun)'
    BY DEF WayInv
  <2>1. WaySound(i, v, inbox[i][v], 0, overrun)
    BY DEF NetworkInv, WayInv
  <2>2. CASE v # t
    <3>1. /\ inbox'[i][v] = inbox[i][v] /\ out'[Other(i)][v] = out[Other(i)][v]
          /\ published'[Other(i)][v] = published[Other(i)][v]
      <4>1. Other(i) \in Nodes
        BY OtherNode
      <4> QED
        BY <1>4, <1>5, <2>2, <4>1
    <3> QED
      BY <1>3, <1>14, <2>1, <3>1 DEF WaySound
  <2>3. CASE v = t /\ i = n
    <3> DEFINE come == NumbersIn(q, m)
               got == NumbersIn(inbox'[n][t], m)
               way == NumbersOf(arrived[n], 0, t)
               wait == NumbersIn(out[m][t], m)
               old == published[m][t]
    <3>1. /\ got \subseteq come /\ (Local(n, t) \notin overrun' => got = come) /\ out'[m][t] = out[m][t]
          /\ published'[m][t] = old /\ Other(n) = m
      BY <1>1, <1>4, <1>5, <1>6
    <3>2. /\ Before(come, way) /\ Before(come, wait) /\ Before(way, wait)
          /\ come \cup way \cup wait \subseteq 1 .. old
          /\ n \notin burst /\ {n, m} \cap broken = {} /\ {Local(n, t), Networked(m, t)} \cap overrun = {} =>
               Latest(come \cup way \cup wait, old)
          /\ come \cup way # {} /\ n \notin broken =>
               link /\ t \in networked[m] /\ (m \notin broken => peer[m])
      BY <2>1, <2>3, <3>1 DEF WaySound
    <3> HIDE DEF m, come, got, way, wait, old, q
    <3>3. /\ Before(got, way) /\ Before(got, wait) /\ Before(way, wait)
          /\ got \cup way \cup wait \subseteq 1 .. old
          /\ n \notin burst /\ {n, m} \cap broken = {} /\ {Local(n, t), Networked(m, t)} \cap overrun' = {} =>
               Latest(got \cup way \cup wait, old)
          /\ got \cup way # {} /\ n \notin broken =>
               link /\ t \in networked[m] /\ (m \notin broken => peer[m])
      BY <1>14, <3>1, <3>2 DEF Before
    <3>4. WaySound(n, t, inbox[n][t], 0, overrun)'
      BY <1>3, <3>1, <3>3 DEF WaySound, got, way, wait, old
    <3> QED
      BY <2>3, <3>4
  <2>4. CASE v = t /\ i = m
    <3> DEFINE come == NumbersIn(inbox[m][t], n)
               way == NumbersOf(arrived[m], 0, t)
               wait == NumbersIn(o, n)
               next == NumbersIn(out'[n][t], n)
               Whole(over) == m \notin burst /\ {m, n} \cap broken = {} /\ {Local(m, t), Networked(n, t)} \cap over = {}
               Open == m \notin broken => link /\ t \in networked[n] /\ (n \notin broken => peer[n])
    <3>1. inbox'[m][t] = inbox[m][t] /\ published'[n][t] = pub + 1
      BY <1>1, <1>4, <1>5
    <3>2. /\ Before(come, way) /\ Before(come, wait) /\ Before(way, wait)
          /\ come \cup way \cup wait \subseteq 1 .. pub
          /\ Whole(overrun) => Latest(come \cup way \cup wait, pub)
          /\ come \cup way # {} => Open
      BY <1>1, <2>1, <2>4 DEF WaySound
    <3>3. /\ next \subseteq wait \cup (IF t \in networked[n] THEN {pub + 1} ELSE {})
          /\ t \in networked[n] /\ Whole(overrun') => next = wait \cup {pub + 1}
          /\ t \notin networked[n] => wait = {}
          /\ Whole(overrun') => Whole(overrun)
      BY <1>7, <1>14
    <3> HIDE DEF come, way, wait, next, pub, m, o, q
    <3>4. /\ Before(come, next) /\ Before(way, next)
          /\ come \cup way \cup next \subseteq 1 .. pub + 1
      BY <1>2, <3>2, <3>3 DEF Before
    <3>5. Whole(overrun') => Latest(come \cup way \cup next, pub + 1)
      <4> HIDE DEF Whole
      <4> SUFFICES ASSUME Whole(overrun') PROVE Latest(come \cup way \cup next, pub + 1)
        OBVIOUS
      <4>1. CASE t \in networked[n]
        <5>1. come \cup way \cup next = (come \cup way \cup wait) \cup {pub + 1}
          BY <3>3, <4>1
        <5> QED
          BY <1>2, <3>2, <3>3, <5>1, LatestExtended
      <4>2. CASE t \notin networked[n]
        <5>1. come \cup way = {}
          BY <3>2, <3>3, <4>2 DEF Whole
        <5>2. next = {}
          BY <3>3, <4>2
        <5>3. come \cup way \cup next = {}
          BY <5>1, <5>2
        <5>4. Latest({}, pub + 1)
          BY <1>2, LatestNone
        <5> QED
          BY <5>3, <5>4
      <4> QED
        BY <4>1, <4>2
    <3>6. WaySound(m, t, inbox[m][t], 0, overrun)'
      BY <1>1, <1>3, <3>1, <3>2, <3>4, <3>5 DEF WaySound, come, way, next
    <3> QED
      BY <2>4, <3>6
  <2> QED
    BY <1>1, <2>2, <2>3, <2>4
<1>13. LinkInv'
  <2>1. ASSUME NEW i \in Nodes, ~started[i] PROVE inbox'[i] = inbox[i]
    BY <1>3, <2>1 DEF NetworkInv, NetworkTypeOK
  <2> QED
    BY <1>3, <2>1 DEF NetworkInv, LinkInv
<1> QED
  BY <1>8, <1>9, <1>10, <1>11, <1>12, <1>13 DEF NetworkInv

LEMMA ReadKeeps ==
  ASSUME NetworkInv, NEW n \in Nodes, NEW t \in Topics, ReadNext(n, t)
  PROVE  NetworkInv'
<1>1. /\ UNCHANGED <<registryVars, out, inbox, published, overrun, linkVars, ghosts>>
      /\ unread' = [unread EXCEPT ![n][t] = @ - 1] /\ unread[n][t] > 0
  BY DEF ReadNext
<1>2. unread' \in [Nodes -> [Topics -> Nat]]
  BY <1>1 DEF NetworkInv, NetworkTypeOK
<1> USE DEF registryVars, nodeVars, kvVars, linkVars, ghosts
<1>3. NetworkTypeOK' /\ SubscribersHavePublisher'
  BY <1>1, <1>2 DEF NetworkInv, NetworkTypeOK, SubscribersHavePublisher
<1>4. QueuesInv' /\ WireInv'
  BY <1>1 DEF NetworkInv, QueuesInv, InboxSound, OutSound, WireInv, WireSound
<1>5. WayInv'
  BY <1>1, ZenonT(60) DEF NetworkInv, WayInv, WaySound
<1>6. LinkInv'
  BY <1>1 DEF NetworkInv, LinkInv
<1> QED
  BY <1>3, <1>4, <1>5, <1>6 DEF NetworkInv

\* What network_tick handles it has fetched, and what it fetches it handles
\* unless it reaches the limit.
LEMMA HandledAndFetched ==
  ASSUME NEW len \in Nat, NEW k \in 0 .. len
  PROVE  /\ Handled(k) \in 0 .. len /\ Fetched(k) \in 0 .. len /\ Handled(k) <= Fetched(k)
         /\ k < LIMIT => Handled(k) = Fetched(k)
<1>1. LIMIT \in Nat /\ LIMIT > 0 /\ k \in Nat /\ k <= len
  BY NetworkAssumption
<1>2. Fetched(k) = IF k < LIMIT THEN k ELSE LIMIT
  <2> DEFINE S == {k, LIMIT}
             l == IF k < LIMIT THEN k ELSE LIMIT
  <2>1. l \in S /\ \A y \in S : l <= y
    BY <1>1
  <2>2. \A x \in S : (\A y \in S : x <= y) => x = l
    BY <1>1
  <2> HIDE DEF S, l
  <2>3. Min(S) = l
    BY <2>1, <2>2 DEF Min
  <2> QED
    BY <2>3 DEF Fetched, S, l
<1> QED
  BY <1>1, <1>2 DEF Handled

\* Fewer events ahead, fewer messages ahead.
LEMMA FewerAhead ==
  ASSUME NEW es \in Seq(Event), NEW h \in Nat, NEW f \in Nat, h <= f, NEW t
  PROVE  NumbersOf(es, f, t) \subseteq NumbersOf(es, h, t)
<1>1. \A i \in DOMAIN es : i > f => i > h
  OBVIOUS
<1> QED
  BY <1>1 DEF NumbersOf

LEMMA OrderIsOfNetworked ==
  ASSUME RegistryTypeOK, NEW n \in Nodes, NEW order \in SetToSeqs(networked[n]), NEW t \in ToSet(order)
  PROVE  t \in networked[n]
<1> DEFINE S == networked[n]
<1>1. order \in [1 .. Cardinality(S) -> S]
  BY DEF SetToSeqs
<1> HIDE DEF S
<1>2. t \in S
  BY <1>1 DEF ToSet
<1> QED
  BY <1>2 DEF S

LEMMA TickKeeps ==
  ASSUME RegistryTypeOK, RegistryInv, NetworkInv, NEW n \in Nodes,
         NEW order \in SetToSeqs(networked[n]), NEW k \in 0 .. Len(arrived[n]),
         NetworkTick(n, order, k)
  PROVE  NetworkInv'
<1> DEFINE m == Other(n)
           es == arrived[n]
           h == Handled(k)
           f == Fetched(k)
           tail == SubSeq(es, f + 1, Len(es))
           p == AfterEvents(n, h).peer
           boxes == AfterEvents(n, h).inbox
           us == AfterEvents(n, h).unread
           over == AfterEvents(n, h).overrun
           sent == Transmitted(n, order)
           Goes(t) == peer[n] /\ link /\ t \in ToSet(order)
<1>1. m \in Nodes /\ m # n /\ Nodes = {n, m} /\ Other(m) = n
  BY OtherNode
<1>2. es \in Seq(Event) /\ Len(es) \in Nat /\ WireSound(n, es, broken)
  <2>1. es \in Seq(Event) /\ WireSound(n, es, broken)
    BY DEF NetworkInv, NetworkTypeOK, WireInv
  <2> HIDE DEF es
  <2> QED
    BY <2>1
<1>3. h \in 0 .. Len(es) /\ f \in 0 .. Len(es) /\ h <= f /\ (k < LIMIT => h = f)
  BY <1>2, HandledAndFetched
<1>4. HandledTo(n, h, p, boxes, us, over)
  BY <1>3, AfterEventsSound
<1>5. /\ WireSound(n, tail, broken)
      /\ \A t : NumbersOf(tail, 0, t) = NumbersOf(es, f, t)
      /\ \A r : PeerInTheEnd(r, tail, 0) <=> PeerInTheEnd(r, es, f)
  <2> HIDE DEF es, f
  <2> QED
    BY <1>2, <1>3, TailSound
<1>6. tail \in Seq(Event)
  <2> HIDE DEF es, f
  <2> QED
    BY <1>2, <1>3, TailOfEvents
<1>7. /\ sent \in Seq(Event) /\ WireSound(m, sent, broken)
      /\ \A t \in Topics : NumbersOf(sent, 0, t) =
           NumbersOf(arrived[m], 0, t) \cup (IF Goes(t) THEN NumbersIn(out[n][t], n) ELSE {})
      /\ \A r : PeerInTheEnd(r, sent, 0) <=> PeerInTheEnd(r, arrived[m], 0)
  BY TransmittedSound
<1>8. ~link => sent = arrived[m]
  BY DEF Transmitted
<1>9. /\ started[n] /\ UNCHANGED <<registryVars, link, started, published, broken>>
      /\ burst' = IF k >= LIMIT THEN burst \cup {n} ELSE burst
  BY DEF NetworkTick, Ticking, Waiting, Running
<1> HIDE DEF h, f, es, m
<1>10. /\ arrived'[n] = tail /\ arrived'[m] = sent
       /\ DOMAIN arrived' = Nodes /\ arrived' = [i \in Nodes |-> arrived'[i]]
  <2>1. arrived' = [arrived EXCEPT ![n] = tail, ![m] = sent]
    BY DEF NetworkTick, m, es, f
  <2>2. arrived \in [Nodes -> Seq(Event)]
    BY DEF NetworkInv, NetworkTypeOK
  <2> HIDE DEF tail, sent
  <2> QED
    BY <1>1, <2>1, <2>2
<1>11. /\ peer'[n] = p /\ peer'[m] = peer[m] /\ inbox'[n] = boxes /\ inbox'[m] = inbox[m]
       /\ peer' = [i \in Nodes |-> peer'[i]] /\ inbox' = [i \in Nodes |-> inbox'[i]]
  <2>1. peer' = [peer EXCEPT ![n] = p] /\ inbox' = [inbox EXCEPT ![n] = boxes]
    BY DEF NetworkTick, h
  <2>2. DOMAIN peer = Nodes /\ DOMAIN inbox = Nodes
    BY DEF NetworkInv, NetworkTypeOK
  <2>3. peer'[n] = p
    BY <1>1, <2>1, <2>2, Zenon
  <2>4. peer'[m] = peer[m]
    BY <1>1, <2>1, <2>2, Zenon
  <2>5. inbox'[n] = boxes /\ inbox'[m] = inbox[m]
    BY <1>1, <2>1, <2>2
  <2>6. peer' = [i \in Nodes |-> peer'[i]] /\ inbox' = [i \in Nodes |-> inbox'[i]]
    BY <1>1, <2>1, <2>2
  <2> QED
    BY <2>3, <2>4, <2>5, <2>6
<1>21. overrun' = over /\ unread' = [unread EXCEPT ![n] = us]
  BY DEF NetworkTick, h
<1> HIDE DEF p, boxes, us, over, tail, sent
<1>12. /\ \A t \in Topics : out'[n][t] = IF t \in ToSet(order) THEN <<>> ELSE out[n][t]
       /\ out'[m] = out[m]
       /\ out' \in [Nodes -> [Topics -> Seq(Message)]]
  <2>1. out' = [out EXCEPT ![n] = [t \in Topics |-> IF t \in ToSet(order) THEN <<>> ELSE out[n][t]]]
    BY DEF NetworkTick, NetworkInv, NetworkTypeOK
  <2>2. out \in [Nodes -> [Topics -> Seq(Message)]] /\ <<>> \in Seq(Message)
    BY DEF NetworkInv, NetworkTypeOK
  <2> QED
    BY <1>1, <2>1, <2>2
<1>13. /\ boxes \in [Topics -> Seq(Message)] /\ p \in BOOLEAN
       /\ us \in [Topics -> Nat] /\ overrun \subseteq overrun'
       /\ \A t \in Topics : InboxSound(n, t, boxes[t], overrun') /\ WaySound(n, t, boxes[t], h, overrun')
       /\ n \notin broken /\ peer[n] => p
  BY <1>4, <1>21 DEF HandledTo
<1>14. PeerInTheEnd(p, es, h) <=> PeerInTheEnd(peer[n], es, 0)
  BY <1>4 DEF HandledTo, es
<1>15. NetworkTypeOK'
  <2>1. arrived' \in [Nodes -> Seq(Event)]
    BY <1>1, <1>6, <1>7, <1>10
  <2>2. inbox' \in [Nodes -> [Topics -> Seq(Message)]]
    <3>1. inbox[m] \in [Topics -> Seq(Message)]
      BY <1>1 DEF NetworkInv, NetworkTypeOK
    <3> QED
      BY <1>1, <1>11, <1>13, <3>1
  <2>3. peer' \in [Nodes -> BOOLEAN]
    <3>1. peer[m] \in BOOLEAN
      BY <1>1 DEF NetworkInv, NetworkTypeOK
    <3>2. \A i \in Nodes : peer'[i] \in BOOLEAN
      BY <1>1, <1>11, <1>13, <3>1, Zenon
    <3> QED
      BY <1>11, <3>2
  <2>4. burst' \subseteq Nodes
    BY <1>9 DEF NetworkInv, NetworkTypeOK
  <2>5. unread' \in [Nodes -> [Topics -> Nat]]
    BY <1>13, <1>21 DEF NetworkInv, NetworkTypeOK
  <2> QED
    BY <1>9, <1>12, <2>1, <2>2, <2>3, <2>4, <2>5 DEF NetworkInv, NetworkTypeOK
<1>16. SubscribersHavePublisher'
  BY <1>9 DEF NetworkInv, SubscribersHavePublisher, registryVars, nodeVars
<1>17. QueuesInv'
  <2> SUFFICES ASSUME NEW i \in Nodes, NEW t \in Topics
               PROVE  InboxSound(i, t, inbox[i][t], overrun)' /\ OutSound(i, t, out[i][t])'
    BY DEF QueuesInv
  <2>1. InboxSound(i, t, inbox'[i][t], overrun')
    <3>1. InboxSound(m, t, inbox[m][t], overrun)
      BY <1>1 DEF NetworkInv, QueuesInv
    <3>2. InboxSound(m, t, inbox[m][t], overrun')
      BY <1>13, <3>1 DEF InboxSound
    <3> QED
      BY <1>1, <1>11, <1>13, <3>2
  <2>2. OutSound(i, t, out'[i][t])
    <3>1. OutSound(i, t, out[i][t]) /\ OutSound(i, t, <<>>)
      BY EmptyQueue DEF NetworkInv, QueuesInv
    <3> QED
      BY <1>1, <1>12, <3>1
  <2> QED
    BY <1>9, <2>1, <2>2 DEF InboxSound, OutSound, registryVars, nodeVars
<1>18. WireInv'
  <2>1. WireSound(n, arrived[n], broken)'
    BY <1>5, <1>9, <1>10 DEF WireSound, registryVars, kvVars
  <2>2. WireSound(m, arrived[m], broken)'
    BY <1>7, <1>9, <1>10 DEF WireSound, registryVars, kvVars
  <2> QED
    BY <1>1, <2>1, <2>2 DEF WireInv
<1>19. WayInv'
  <2> SUFFICES ASSUME NEW i \in Nodes, NEW t \in Topics PROVE WaySound(i, t, inbox[i][t], 0, overrun)'
    BY DEF WayInv
  <2>1. CASE i = n
    <3> DEFINE come == NumbersIn(boxes[t], m)
               way == NumbersOf(es, h, t)
               rest == NumbersOf(es, f, t)
               wait == NumbersIn(out[m][t], m)
    <3>1. WaySound(n, t, boxes[t], h, overrun') /\ Other(n) = m /\ arrived[n] = es
      BY <1>13 DEF m, es
    <3>2. /\ Before(come, way) /\ Before(come, wait) /\ Before(way, wait)
          /\ come \cup way \cup wait \subseteq 1 .. published[m][t]
          /\ n \notin burst /\ {n, m} \cap broken = {} /\ {Local(n, t), Networked(m, t)} \cap overrun' = {} =>
               Latest(come \cup way \cup wait, published[m][t])
          /\ come \cup way # {} /\ n \notin broken =>
               link /\ t \in networked[m] /\ (m \notin broken => peer[m])
      BY <3>1 DEF WaySound
    <3>3. rest \subseteq way
      BY <1>2, <1>3, FewerAhead
    <3>4. n \notin burst' => rest = way /\ n \notin burst
      BY <1>2, <1>3, <1>9, NetworkAssumption
    <3>5. NumbersOf(arrived'[n], 0, t) = rest /\ NumbersIn(inbox'[n][t], m) = come /\ NumbersIn(out'[m][t], m) = wait
      BY <1>5, <1>10, <1>11, <1>12
    <3> HIDE DEF come, way, rest, wait
    <3>6. /\ Before(come, rest) /\ Before(come, wait) /\ Before(rest, wait)
          /\ come \cup rest \cup wait \subseteq 1 .. published[m][t]
          /\ n \notin burst' /\ {n, m} \cap broken = {} /\ {Local(n, t), Networked(m, t)} \cap overrun' = {} =>
               Latest(come \cup rest \cup wait, published[m][t])
          /\ come \cup rest # {} /\ n \notin broken =>
               link /\ t \in networked[m] /\ (m \notin broken => peer[m])
      BY <3>2, <3>3, <3>4 DEF Before
    <3>7. WaySound(n, t, inbox[n][t], 0, overrun)'
      BY <1>9, <1>11, <3>1, <3>5, <3>6 DEF WaySound, registryVars, nodeVars
    <3> QED
      BY <2>1, <3>7
  <2>2. CASE i = m
    <3> DEFINE come == NumbersIn(inbox[m][t], n)
               way == NumbersOf(arrived[m], 0, t)
               more == NumbersOf(sent, 0, t)
               wait == NumbersIn(out[n][t], n)
               left == NumbersIn(out'[n][t], n)
               pub == published[n][t]
               Whole == m \notin burst /\ {m, n} \cap broken = {} /\ {Local(m, t), Networked(n, t)} \cap overrun = {}
    <3>1. WaySound(m, t, inbox[m][t], 0, overrun)
      BY <1>1 DEF NetworkInv, WayInv
    <3>2. /\ Before(come, way) /\ Before(come, wait) /\ Before(way, wait)
          /\ come \cup way \cup wait \subseteq 1 .. pub
          /\ Whole => Latest(come \cup way \cup wait, pub)
          /\ come \cup way # {} /\ m \notin broken =>
               link /\ t \in networked[n] /\ (n \notin broken => peer[n])
      BY <1>1, <3>1 DEF WaySound
    <3>3. more = way \cup (IF Goes(t) THEN wait ELSE {})
      BY <1>7
    <3>4. left = IF t \in ToSet(order) THEN {} ELSE wait
      BY <1>12, NoNumbers
    <3>5. pub \in Nat
      BY DEF NetworkInv, NetworkTypeOK
    <3>6. t \in ToSet(order) => t \in networked[n]
      BY OrderIsOfNetworked
    <3>7. (m \notin burst' => m \notin burst) /\ overrun \subseteq overrun'
      BY <1>9, <1>13
    <3> HIDE DEF come, way, more, wait, left, pub
    <3>8. /\ Before(come, more) /\ Before(come, left) /\ Before(more, left)
          /\ come \cup more \cup left \subseteq 1 .. pub
      BY <3>2, <3>3, <3>4 DEF Before
    <3>9. Whole => Latest(come \cup more \cup left, pub)
      <4>1. CASE Goes(t)
        <5>1. come \cup more \cup left = come \cup way \cup wait
          BY <3>3, <3>4, <4>1
        <5> QED
          BY <3>2, <5>1
      <4>2. CASE t \notin ToSet(order)
        <5>1. come \cup more \cup left = come \cup way \cup wait
          BY <3>3, <3>4, <4>2
        <5> QED
          BY <3>2, <5>1
      <4>3. CASE t \in ToSet(order) /\ ~(peer[n] /\ link)
        <5>1. Whole => come \cup way = {}
          BY <3>2, <4>3
        <5>2. more = way /\ left = {}
          BY <3>3, <3>4, <4>3
        <5>3. Whole => come \cup more \cup left = {}
          BY <5>1, <5>2
        <5>4. Latest({}, pub)
          BY <3>5, LatestNone
        <5> HIDE DEF Whole
        <5> QED
          BY <5>3, <5>4
      <4> QED
        BY <4>1, <4>2, <4>3
    <3>10. come \cup more # {} /\ m \notin broken =>
             link /\ t \in networked[n] /\ (n \notin broken => peer[n])
      BY <3>2, <3>3, <3>6
    <3>11. come \cup more # {} /\ m \notin broken =>
             link /\ t \in networked[n] /\ (n \notin broken => peer'[n])
      BY <1>11, <1>13, <3>10
    <3>12. WaySound(m, t, inbox[m][t], 0, overrun)'
      BY <1>1, <1>9, <1>10, <1>11, <3>7, <3>8, <3>9, <3>11
      DEF WaySound, registryVars, nodeVars, come, more, left, pub
    <3> QED
      BY <2>2, <3>12
  <2> QED
    BY <1>1, <2>1, <2>2
<1>20. LinkInv'
  <2>1. ~started[m] => ~peer[m] /\ arrived[m] = <<>> /\ inbox[m] = Empty /\ ~link
    BY <1>1 DEF NetworkInv, LinkInv
  <2>2. link => \A i \in Nodes : started[i]
    BY DEF NetworkInv, LinkInv
  <2>3. \A i \in Nodes \ burst : started[i] => (PeerInTheEnd(peer[i], arrived[i], 0) <=> link)
    BY DEF NetworkInv, LinkInv
  <2>4. m \notin burst' /\ started[m] => (PeerInTheEnd(peer'[m], arrived'[m], 0) <=> link)
    BY <1>1, <1>7, <1>9, <1>10, <1>11, <2>3
  <2>5. n \notin burst' => (PeerInTheEnd(peer'[n], arrived'[n], 0) <=> link)
    <3> SUFFICES ASSUME n \notin burst' PROVE PeerInTheEnd(p, tail, 0) <=> link
      BY <1>10, <1>11
    <3>1. k < LIMIT /\ n \notin burst
      BY <1>9, NetworkAssumption
    <3>2. PeerInTheEnd(p, tail, 0) <=> PeerInTheEnd(p, es, h)
      BY <1>3, <1>5, <3>1
    <3>3. PeerInTheEnd(peer[n], es, 0) <=> link
      BY <1>9, <2>3, <3>1 DEF es
    <3> QED
      BY <1>14, <3>2, <3>3
  <2> QED
    BY <1>1, <1>8, <1>9, <1>10, <1>11, <2>1, <2>2, <2>4, <2>5 DEF LinkInv
<1> QED
  BY <1>15, <1>16, <1>17, <1>18, <1>19, <1>20 DEF NetworkInv

-----------------------------------------------------------------------------
(* Order and loss                                                          *)

LEMMA NetworkStarts == NetworkInit => NetworkInv
<1> SUFFICES ASSUME NetworkInit PROVE NetworkInv
  OBVIOUS
<1> USE DEF NetworkInit
<1>1. NetworkTypeOK
  <2>1. <<>> \in Seq(Message) /\ <<>> \in Seq(Event)
    OBVIOUS
  <2>2. Empty \in [Topics -> Seq(Message)]
    BY <2>1 DEF Empty
  <2> QED
    BY <2>1, <2>2 DEF NetworkTypeOK, NoneUnread
<1>2. SubscribersHavePublisher
  BY DEF SubscribersHavePublisher, RegistryInit
<1>3. \A n \in Nodes, t \in Topics : inbox[n][t] = <<>> /\ out[n][t] = <<>> /\ arrived[n] = <<>>
  BY DEF Empty
<1>4. QueuesInv
  BY <1>1, <1>3, EmptyQueue DEF QueuesInv
<1>5. WireInv
  <2>1. DOMAIN <<>> = {}
    OBVIOUS
  <2> QED
    BY <2>1 DEF WireInv, WireSound
<1>6. WayInv
  <2> SUFFICES ASSUME NEW n \in Nodes, NEW t \in Topics PROVE WaySound(n, t, inbox[n][t], 0, overrun)
    BY DEF WayInv
  <2>1. Other(n) \in Nodes
    BY OtherNode
  <2>2. /\ NumbersIn(inbox[n][t], Other(n)) = {} /\ NumbersOf(arrived[n], 0, t) = {}
        /\ NumbersIn(out[Other(n)][t], Other(n)) = {}
    BY <1>3, <2>1, NoNumbers
  <2>3. Latest({}, published[Other(n)][t]) /\ {} \cup {} \cup {} = {}
    <3>1. published[Other(n)][t] \in Nat
      BY <1>1, <2>1 DEF NetworkTypeOK
    <3> QED
      BY <3>1, LatestNone
  <2> QED
    BY <2>2, <2>3 DEF WaySound, Before
<1>7. LinkInv
  BY DEF LinkInv
<1> QED
  BY <1>1, <1>2, <1>4, <1>5, <1>6, <1>7 DEF NetworkInv

LEMMA NetworkKeeps ==
  RegistryTypeOK /\ RegistryInv /\ NetworkInv /\ [NetworkNext]_vars => NetworkInv'
<1> SUFFICES ASSUME RegistryTypeOK, RegistryInv, NetworkInv, [NetworkNext]_vars PROVE NetworkInv'
  OBVIOUS
<1>0. SubscribersHavePublisher
  BY DEF NetworkInv
<1>1. CASE Serve
  BY <1>1, ServeKeeps
<1>2. CASE Connect
  BY <1>2, ConnectKeeps
<1>3. ASSUME NEW n \in Nodes, NEW c \in Due(n), Reuse(n, c[2], c[3]) \/ Lookup(n, c[2], c[3]), UNCHANGED netVars
      PROVE  NetworkInv'
  <2>1. c[2] \in Topics /\ c[3] \in Op
    BY DueCalls
  <2>2. ViewsGrow
    BY <1>0, <1>3, <2>1, CallsGrow
  <2> QED
    BY <1>3, <2>2, CallKeeps
<1>4. ASSUME NEW n \in Nodes, Incr(n) \/ Zadd(n) \/ Zscore(n) \/ Insert(n), UNCHANGED netVars
      PROVE  NetworkInv'
  <2>1. ViewsGrow
    BY <1>0, <1>4, CallsGrow
  <2> QED
    BY <1>4, <2>1, CallKeeps
<1>5. ASSUME NEW n \in Nodes, NodeRestart(n) PROVE NetworkInv'
  BY <1>5, RestartKeeps
<1>6. ASSUME NEW n \in Nodes, NEW t \in Topics, Publish(n, t) PROVE NetworkInv'
  BY <1>6, PublishKeeps
<1>9. ASSUME NEW n \in Nodes, NEW t \in Topics, ReadNext(n, t) PROVE NetworkInv'
  BY <1>9, ReadKeeps
<1>7. ASSUME NEW n \in Nodes, NEW order \in SetToSeqs(networked[n]), NEW k \in 0 .. Len(arrived[n]),
             NetworkTick(n, order, k)
      PROVE  NetworkInv'
  BY <1>7, TickKeeps
<1>8. CASE UNCHANGED vars
  <2>1. UNCHANGED netVars /\ UNCHANGED registryVars
    BY <1>8 DEF vars
  <2>2. ViewsGrow
    BY <1>0, <2>1 DEF ViewsGrow, SubscribersHavePublisher, registryVars, nodeVars, kvVars
  <2> QED
    BY <2>1, <2>2, CallKeeps
<1> QED
  BY <1>1, <1>2, <1>3, <1>4, <1>5, <1>6, <1>7, <1>8, <1>9 DEF NetworkNext

\* What a node has been given, what is on its way to it and what waits to be
\* sent are three consecutive parts of what the other node has published, until
\* a connection ends, network_tick reaches its limit or a ring is filled up; and
\* the events on their way say how the connection stands.
THEOREM NetworkInvariant == NetworkSpec => []NetworkInv
<1>1. NetworkSpec => []RegistryTypeOK /\ []RegistryInv
  BY NetworkImplementsRegistry, RegistryTypeCorrect, RegistryInvariant, PTL
<1> QED
  BY <1>1, NetworkStarts, NetworkKeeps, PTL DEF NetworkSpec

\* Local subscribers get only messages of their topic, those of one publisher
\* in the order of Publisher::publish and none twice, however the nodes restart,
\* connect and forward the same topics to each other.
THEOREM ForwardingKeepsOrder == NetworkSpec => []ForwardedInOrder
<1>1. NetworkInv => ForwardedInOrder
  BY DEF NetworkInv, QueuesInv, InboxSound, Ascending, ForwardedInOrder
<1> QED
  BY <1>1, NetworkInvariant, PTL

\* A subscriber's messages of its own node, and those of the other node with
\* what is on its way and what waits to be sent, are the last ones published
\* without a gap, and ctx.peer says how the connection stands, unless a
\* connection has ended, Network::tick has thrown away the event at which it
\* stops, or a put has filled up the ring of a subscriber.
THEOREM LossesOnlyAtLimit == NetworkSpec => []LossOnlyAtLimit
<1>1. NetworkInv => PeerMatchesLink
  <2> SUFFICES ASSUME NetworkInv, NEW n \in Nodes \ burst, started[n], arrived[n] = <<>>
               PROVE  peer[n] = link
    BY DEF PeerMatchesLink
  <2>1. PeerInTheEnd(peer[n], arrived[n], 0) <=> link
    BY DEF NetworkInv, LinkInv
  <2>2. peer[n] <=> link
    BY <2>1, NoSignals
  <2>3. peer[n] \in BOOLEAN /\ link \in BOOLEAN
    BY DEF NetworkInv, NetworkTypeOK
  <2> QED
    BY <2>2, <2>3, Zenon
<1>2. NetworkInv => OwnMessagesReach
  BY DEF NetworkInv, QueuesInv, InboxSound, OwnMessagesReach
<1>3. NetworkInv => OthersMessagesReach
  BY DEF NetworkInv, WayInv, WaySound, OthersMessagesReach
<1>4. NetworkInv => LossOnlyAtLimit
  BY <1>1, <1>2, <1>3 DEF LossOnlyAtLimit
<1> QED
  BY <1>4, NetworkInvariant, PTL
==============================================================================
