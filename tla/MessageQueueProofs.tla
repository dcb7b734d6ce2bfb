------------------------- MODULE MessageQueueProofs -------------------------
(***************************************************************************)
(* For every ring size and every set of publishing threads: type           *)
(* correctness, and delivery in order without null messages for as long as *)
(* the queue is used within its limits.                                    *)
(***************************************************************************)
EXTENDS MessageQueue, ArithmeticLemmas, SequenceTheorems

\* The successor of a ring index is a ring index.
LEMMA SuccIndex == ASSUME NEW i \in Index PROVE Succ(i) \in Index
  BY NAssumption DEF Index, Succ

\* Every field keeps its type: both indices stay inside the ring, whatever
\* the interleaving of producers and consumer.
THEOREM TypeCorrect == Spec => []TypeOK
<1>1. Init => TypeOK
  <2> SUFFICES ASSUME Init PROVE TypeOK
    OBVIOUS
  <2>1. 0 \in Index /\ Null \in Value
    BY NAssumption DEF Index, Value
  <2>2. <<>> \in Seq(Value)
    OBVIOUS
  <2> QED
    BY <2>1, <2>2 DEF Init, TypeOK
<1>2. TypeOK /\ [Next]_vars => TypeOK'
  <2> SUFFICES ASSUME TypeOK, [Next]_vars PROVE TypeOK'
    OBVIOUS
  <2> USE DEF TypeOK
  <2>1. ASSUME NEW p \in Producers, PutStore(p) PROVE TypeOK'
    BY <2>1 DEF PutStore, Value, Message, consumerVars
  <2>2. ASSUME NEW p \in Producers, PutLoad(p) PROVE TypeOK'
    BY <2>2 DEF PutLoad, queueVars, consumerVars, historyVars
  <2>3. ASSUME NEW p \in Producers, PutAdvance(p) PROVE TypeOK'
    BY <2>3, SuccIndex DEF PutAdvance, consumerVars
  <2>4. CASE GetCheck
    BY <2>4 DEF GetCheck, queueVars, producerVars, historyVars
  <2>5. CASE GetRead
    BY <2>5 DEF GetRead, queueVars, producerVars, historyVars
  <2>6. CASE GetClear
    BY <2>6 DEF GetClear, Value, producerVars, historyVars
  <2>7. CASE GetAdvance
    BY <2>7, SuccIndex DEF GetAdvance, producerVars, historyVars
  <2>8. CASE NextCheck
    <3>1. Null \in Value /\ Append(received, elem) \in Seq(Value)
      BY DEF Value
    <3> QED
      BY <2>8, <3>1 DEF NextCheck, queueVars, producerVars, historyVars
  <2>9. CASE UNCHANGED vars
    BY <2>9 DEF vars, queueVars, producerVars, consumerVars, historyVars
  <2> QED
    BY <2>1, <2>2, <2>3, <2>4, <2>5, <2>6, <2>7, <2>8, <2>9 DEF Next, Put, Get
<1> QED
  BY <1>1, <1>2, PTL DEF Spec

\* The counters behind the indices are natural numbers.
LEMMA CountersNat ==
  ASSUME TypeOK
  PROVE  /\ Len(received) \in Nat
         /\ Gone \in Nat
         /\ Copied \in Nat
         /\ Gone <= Copied
  BY DEF TypeOK, Gone, Copied, Taken

\* The store into the slot under head_ touches no waiting message.
LEMMA PutStoreKeepsQueue ==
  ASSUME TypeOK, QueueInv, NEW p \in Producers, PutStore(p)
  PROVE  QueueInv'
<1> SUFFICES ASSUME WithinLimits' PROVE QueueInv'
  BY DEF QueueInv
<1>1. WithinLimits /\ \A q \in Producers : ppc[q] = "idle"
  BY DEF PutStore, WithinLimits
<1>2. OneProducer /\ IndicesCount /\ SlotsHoldWaiting /\ ~aborted
  BY <1>1 DEF QueueInv
<1>3. begun = nput /\ nput \in Nat
  BY <1>1, <1>2 DEF OneProducer, Busy, TypeOK
<1>4. /\ Gone' = Gone /\ Copied' = Copied /\ Taken' = Taken
      /\ nput' = nput /\ head_' = head_ /\ tail_' = tail_ /\ cpc' = cpc
      /\ received' = received /\ aborted' = aborted /\ elem' = elem
  BY DEF PutStore, consumerVars, Gone, Copied, Taken
<1>5. OneProducer'
  <2>1. ppc' = [ppc EXCEPT ![p] = "load"] /\ begun' = begun + 1 /\ head_ \in Index
    BY DEF PutStore, TypeOK
  <2>2. \A q \in Producers : ppc'[q] # "idle" => q = p
    BY <2>1, <1>1 DEF TypeOK
  <2>3. ppc'[p] = "load" /\ Busy'
    BY <2>1 DEF TypeOK, Busy
  <2>4. internal_'[head_] = begun + 1
    BY <2>1 DEF PutStore, TypeOK
  <2> QED
    BY <2>1, <2>2, <2>3, <2>4, <1>3, <1>4 DEF OneProducer
<1>6. IndicesCount'
  BY <1>2, <1>4 DEF IndicesCount
<1>7. SlotsHoldWaiting'
  <2>1. ASSUME NEW k \in (Copied + 1) .. nput PROVE internal_'[(k - 1) % N] = k
    <3>0. nput - Gone < N /\ Gone \in Nat /\ Copied \in Nat /\ Gone <= Copied
      BY <1>2, CountersNat DEF IndicesCount
    <3>1. k - 1 \in Nat /\ k - 1 < nput /\ nput - (k - 1) < N
      BY <3>0, <1>3, NAssumption
    <3>2. (k - 1) % N # head_
      <4>1. (k - 1) % N # nput % N
        BY <3>1, <1>3, ModInj, NAssumption
      <4> QED
        BY <4>1, <1>2 DEF IndicesCount
    <3>3. internal_[(k - 1) % N] = k /\ (k - 1) % N \in Index
      BY <1>2, <3>1, NAssumption DEF SlotsHoldWaiting, Index
    <3> QED
      BY <3>2, <3>3 DEF PutStore, TypeOK
  <2> QED
    BY <2>1, <1>2, <1>4 DEF SlotsHoldWaiting
<1> QED
  BY <1>1, <1>2, <1>4, <1>5, <1>6, <1>7 DEF QueueInv

\* Loading head_ changes nothing that the invariant speaks of.
LEMMA PutLoadKeepsQueue ==
  ASSUME TypeOK, QueueInv, NEW p \in Producers, PutLoad(p)
  PROVE  QueueInv'
<1> SUFFICES ASSUME WithinLimits' PROVE QueueInv'
  BY DEF QueueInv
<1>1. WithinLimits /\ Busy
  BY DEF PutLoad, WithinLimits, historyVars, Busy
<1>2. OneProducer /\ IndicesCount /\ SlotsHoldWaiting /\ ~aborted
  BY <1>1 DEF QueueInv
<1>3. /\ Gone' = Gone /\ Copied' = Copied /\ Taken' = Taken
      /\ nput' = nput /\ begun' = begun /\ head_' = head_ /\ tail_' = tail_
      /\ internal_' = internal_ /\ cpc' = cpc
      /\ received' = received /\ aborted' = aborted /\ elem' = elem
  BY DEF PutLoad, queueVars, consumerVars, historyVars, Gone, Copied, Taken
<1>4. OneProducer'
  <2>1. /\ ppc' = [ppc EXCEPT ![p] = "advance"]
        /\ reg' = [reg EXCEPT ![p] = head_]
        /\ ppc[p] # "idle"
    BY DEF PutLoad
  <2>2. \A q \in Producers : (ppc'[q] # "idle") = (ppc[q] # "idle")
    BY <2>1 DEF TypeOK
  <2>3. Busy' = Busy
    BY <2>2 DEF Busy
  <2>4. \A q \in Producers : ppc'[q] = "advance" => reg'[q] = head_
    BY <2>1, <1>2 DEF TypeOK, OneProducer
  <2> QED
    BY <2>2, <2>3, <2>4, <1>2, <1>3 DEF OneProducer
<1> QED
  BY <1>1, <1>2, <1>3, <1>4 DEF QueueInv, IndicesCount, SlotsHoldWaiting

\* Advancing head_ without meeting tail_ makes the new message visible.
LEMMA PutAdvanceKeepsQueue ==
  ASSUME TypeOK, QueueInv, NEW p \in Producers, PutAdvance(p)
  PROVE  QueueInv'
<1> SUFFICES ASSUME WithinLimits' PROVE QueueInv'
  BY DEF QueueInv
<1>1. WithinLimits /\ Succ(reg[p]) # tail_
  BY DEF PutAdvance, WithinLimits
<1>2. OneProducer /\ IndicesCount /\ SlotsHoldWaiting /\ ~aborted
  BY <1>1 DEF QueueInv
<1>3. /\ Gone' = Gone /\ Copied' = Copied /\ Taken' = Taken
      /\ nput' = nput + 1 /\ begun' = begun /\ tail_' = tail_
      /\ internal_' = internal_ /\ cpc' = cpc
      /\ received' = received /\ aborted' = aborted /\ elem' = elem
  BY DEF PutAdvance, consumerVars, Gone, Copied, Taken
<1>4. ppc[p] = "advance" /\ reg[p] = head_ /\ Busy /\ begun = nput + 1 /\ nput \in Nat
  BY <1>2 DEF PutAdvance, OneProducer, Busy, TypeOK
<1>5. head_' = (nput + 1) % N
  BY <1>2, <1>4, ModSucc, NAssumption DEF PutAdvance, IndicesCount, Succ
<1>6. OneProducer'
  <2>1. ppc' = [ppc EXCEPT ![p] = "idle"]
    BY DEF PutAdvance
  <2>2. \A q \in Producers : ppc'[q] = "idle"
    BY <2>1, <1>2, <1>4 DEF OneProducer, TypeOK
  <2>3. ~Busy'
    BY <2>2 DEF Busy
  <2> QED
    BY <2>2, <2>3, <1>3, <1>4 DEF OneProducer
<1>7. IndicesCount'
  <2>1. Gone \in Nat
    BY CountersNat
  <2>2. nput + 1 - Gone # N
    <3> SUFFICES ASSUME nput + 1 = Gone + N PROVE FALSE
      BY <2>1, <1>4, NAssumption
    <3>1. (Gone + N) % N = Gone % N
      BY <2>1, ModTurn, NAssumption
    <3> QED
      BY <3>1, <1>1, <1>2, <1>5 DEF IndicesCount, PutAdvance
  <2> QED
    BY <2>1, <2>2, <1>2, <1>3, <1>4, <1>5, NAssumption DEF IndicesCount
<1>8. SlotsHoldWaiting'
  <2>1. ASSUME NEW k \in (Copied + 1) .. (nput + 1) PROVE internal_[(k - 1) % N] = k
    <3>1. CASE k = nput + 1
      BY <3>1, <1>2, <1>4 DEF OneProducer, IndicesCount
    <3>2. CASE k # nput + 1
      BY <3>2, <1>2, <1>4, CountersNat DEF SlotsHoldWaiting
    <3> QED
      BY <3>1, <3>2
  <2> QED
    BY <2>1, <1>2, <1>3 DEF SlotsHoldWaiting
<1> QED
  BY <1>1, <1>2, <1>3, <1>6, <1>7, <1>8 DEF QueueInv

\* Finding tail_ # head_ means that a message is waiting.
LEMMA GetCheckKeepsQueue ==
  ASSUME TypeOK, QueueInv, GetCheck
  PROVE  QueueInv'
<1> SUFFICES ASSUME WithinLimits' PROVE QueueInv'
  BY DEF QueueInv
<1>1. WithinLimits
  BY DEF GetCheck, WithinLimits, historyVars
<1>2. OneProducer /\ IndicesCount /\ SlotsHoldWaiting /\ ~aborted
  BY <1>1 DEF QueueInv
<1>3. /\ cpc = "idle" /\ cpc' = "read"
      /\ UNCHANGED <<internal_, head_, tail_, ppc, reg, elem, aborted, received, begun, nput>>
  BY DEF GetCheck, queueVars, producerVars, historyVars
<1>4. Gone' = Gone /\ Copied' = Copied /\ ~Taken /\ ~Taken'
  BY <1>3 DEF Gone, Copied, Taken
<1>5. Gone < nput
  BY <1>2, CountersNat DEF GetCheck, IndicesCount, TypeOK
<1> QED
  BY <1>1, <1>2, <1>3, <1>4, <1>5
     DEF QueueInv, OneProducer, Busy, IndicesCount, SlotsHoldWaiting

\* The consumer copies the oldest waiting message.
LEMMA GetReadKeepsQueue ==
  ASSUME TypeOK, QueueInv, GetRead
  PROVE  QueueInv'
<1> SUFFICES ASSUME WithinLimits' PROVE QueueInv'
  BY DEF QueueInv
<1>1. WithinLimits
  BY DEF GetRead, WithinLimits, historyVars
<1>2. OneProducer /\ IndicesCount /\ SlotsHoldWaiting /\ ~aborted
  BY <1>1 DEF QueueInv
<1>3. /\ cpc = "read" /\ cpc' = "clear" /\ elem' = internal_[tail_]
      /\ UNCHANGED <<internal_, head_, tail_, ppc, reg, aborted, received, begun, nput>>
  BY DEF GetRead, queueVars, producerVars, historyVars
<1>4. /\ Gone = Len(received) /\ Gone' = Gone
      /\ Copied = Gone /\ Copied' = Gone + 1 /\ Taken' /\ Gone \in Nat
  BY <1>3, CountersNat DEF Gone, Copied, Taken
<1>5. Gone < nput /\ nput \in Nat
  BY <1>2, <1>3 DEF IndicesCount, TypeOK
<1>6. internal_[tail_] = Gone + 1
  <2>1. Gone + 1 \in (Copied + 1) .. nput /\ (Gone + 1) - 1 = Gone
    BY <1>4, <1>5
  <2>2. internal_[((Gone + 1) - 1) % N] = Gone + 1
    BY <2>1, <1>2 DEF SlotsHoldWaiting
  <2> QED
    BY <2>1, <2>2, <1>2 DEF IndicesCount
<1>7. SlotsHoldWaiting'
  BY <1>2, <1>3, <1>4, <1>6 DEF SlotsHoldWaiting
<1>8. IndicesCount'
  BY <1>2, <1>3, <1>4, <1>5 DEF IndicesCount
<1> QED
  BY <1>1, <1>2, <1>3, <1>7, <1>8 DEF QueueInv, OneProducer, Busy

\* Clearing the copied slot touches neither a waiting message nor the slot
\* that a producer is filling.
LEMMA GetClearKeepsQueue ==
  ASSUME TypeOK, QueueInv, GetClear
  PROVE  QueueInv'
<1> SUFFICES ASSUME WithinLimits' PROVE QueueInv'
  BY DEF QueueInv
<1>1. WithinLimits
  BY DEF GetClear, WithinLimits, historyVars
<1>2. OneProducer /\ IndicesCount /\ SlotsHoldWaiting /\ ~aborted
  BY <1>1 DEF QueueInv
<1>3. /\ cpc = "clear" /\ cpc' = "advance"
      /\ internal_' = [internal_ EXCEPT ![tail_] = Null]
      /\ UNCHANGED <<head_, tail_, ppc, reg, elem, aborted, received, begun, nput>>
  BY DEF GetClear, producerVars, historyVars
<1>4. /\ Gone' = Gone /\ Copied = Gone + 1 /\ Copied' = Copied
      /\ Taken /\ Taken' /\ Gone \in Nat
  BY <1>3, CountersNat DEF Gone, Copied, Taken
<1>5. /\ Gone < nput /\ nput \in Nat /\ nput - Gone < N
      /\ tail_ = Gone % N /\ head_ = nput % N
  BY <1>2, <1>3 DEF IndicesCount, TypeOK
<1>6. OneProducer'
  <2>1. head_ # tail_
    <3>1. Gone % N # nput % N
      BY <1>4, <1>5, ModInj, NAssumption
    <3> QED
      BY <3>1, <1>5
  <2>2. internal_'[head_] = internal_[head_]
    BY <2>1, <1>3 DEF TypeOK
  <2> QED
    BY <2>2, <1>2, <1>3 DEF OneProducer, Busy
<1>7. SlotsHoldWaiting'
  <2>1. ASSUME NEW k \in (Copied + 1) .. nput PROVE internal_'[(k - 1) % N] = k
    <3>1. k - 1 \in Nat /\ Gone < k - 1 /\ (k - 1) - Gone < N
      BY <1>4, <1>5, NAssumption
    <3>2. Gone % N # (k - 1) % N
      <4> DEFINE j == k - 1
      <4> HIDE DEF j
      <4>1. j \in Nat /\ Gone < j /\ j - Gone < N
        BY <3>1 DEF j
      <4>2. Gone % N # j % N
        BY <4>1, <1>4, ModInj, NAssumption
      <4> QED
        BY <4>2 DEF j
    <3>3. internal_[(k - 1) % N] = k /\ (k - 1) % N \in Index
      BY <1>2, <3>1, NAssumption DEF SlotsHoldWaiting, Index
    <3> QED
      BY <3>2, <3>3, <1>3, <1>5 DEF TypeOK
  <2> QED
    BY <2>1, <1>2, <1>3, <1>4 DEF SlotsHoldWaiting
<1>8. IndicesCount'
  BY <1>2, <1>3, <1>4 DEF IndicesCount
<1> QED
  BY <1>1, <1>2, <1>3, <1>6, <1>7, <1>8 DEF QueueInv

\* Advancing tail_ past the cleared slot.
LEMMA GetAdvanceKeepsQueue ==
  ASSUME TypeOK, QueueInv, GetAdvance
  PROVE  QueueInv'
<1> SUFFICES ASSUME WithinLimits' PROVE QueueInv'
  BY DEF QueueInv
<1>1. WithinLimits
  BY DEF GetAdvance, WithinLimits, historyVars
<1>2. OneProducer /\ IndicesCount /\ SlotsHoldWaiting /\ ~aborted
  BY <1>1 DEF QueueInv
<1>3. /\ cpc = "advance" /\ cpc' = "check" /\ tail_' = Succ(tail_)
      /\ UNCHANGED <<internal_, head_, ppc, reg, elem, aborted, received, begun, nput>>
  BY DEF GetAdvance, producerVars, historyVars
<1>4. /\ Gone' = Gone + 1 /\ Copied' = Copied
      /\ Taken /\ Taken' /\ Gone \in Nat
  BY <1>3, CountersNat DEF Gone, Copied, Taken
<1>5. Gone < nput /\ nput \in Nat
  BY <1>2, <1>3 DEF IndicesCount, TypeOK
<1>6. tail_' = (Gone + 1) % N
  BY <1>2, <1>3, <1>4, ModSucc, NAssumption DEF IndicesCount, Succ
<1>7. IndicesCount'
  BY <1>2, <1>3, <1>4, <1>5, <1>6, NAssumption DEF IndicesCount
<1> QED
  BY <1>1, <1>2, <1>3, <1>4, <1>7 DEF QueueInv, OneProducer, Busy, SlotsHoldWaiting

\* The message handed out is the next one, and it is not null.
LEMMA NextCheckKeepsQueue ==
  ASSUME TypeOK, QueueInv, NextCheck
  PROVE  QueueInv'
<1> SUFFICES ASSUME WithinLimits' PROVE QueueInv'
  BY DEF QueueInv
<1>1. WithinLimits
  BY DEF NextCheck, WithinLimits, historyVars
<1>2. OneProducer /\ IndicesCount /\ SlotsHoldWaiting /\ ~aborted
  BY <1>1 DEF QueueInv
<1>3. elem = Len(received) + 1 /\ elem # Null
  BY <1>2, CountersNat, NullAssumption DEF NextCheck, SlotsHoldWaiting, Taken
<1>4. /\ cpc = "check" /\ cpc' = "idle" /\ received' = Append(received, elem)
      /\ UNCHANGED <<internal_, head_, tail_, ppc, reg, aborted, begun, nput>>
  BY <1>3 DEF NextCheck, queueVars, producerVars, historyVars
<1>5. Len(received') = Len(received) + 1 /\ Len(received) \in Nat
  BY <1>4 DEF TypeOK
<1>6. /\ Gone' = Gone /\ Copied' = Copied /\ ~Taken'
  BY <1>4, <1>5 DEF Gone, Copied, Taken
<1>7. \A i \in 1 .. Len(received') : received'[i] = i
  BY <1>1, <1>3, <1>4, <1>5 DEF QueueInv, TypeOK
<1> QED
  BY <1>1, <1>2, <1>4, <1>6, <1>7
     DEF QueueInv, OneProducer, Busy, IndicesCount, SlotsHoldWaiting

\* Within its limits the ring's indices count puts and gets, and its slots
\* hold the waiting messages: the inductive invariant.
THEOREM QueueInvariant == Spec => []QueueInv
<1>1. Init => QueueInv
  <2> SUFFICES ASSUME Init PROVE QueueInv
    OBVIOUS
  <2>1. ~Busy /\ Gone = 0 /\ Copied = 0 /\ ~Taken /\ Len(received) = 0
    BY DEF Init, Busy, Gone, Copied, Taken
  <2>2. 0 % N = 0
    BY NAssumption
  <2> QED
    BY <2>1, <2>2, NAssumption
       DEF Init, QueueInv, OneProducer, IndicesCount, SlotsHoldWaiting
<1>2. TypeOK /\ QueueInv /\ [Next]_vars => QueueInv'
  <2> SUFFICES ASSUME TypeOK, QueueInv, [Next]_vars PROVE QueueInv'
    OBVIOUS
  <2>1. CASE UNCHANGED vars
    BY <2>1 DEF vars, queueVars, producerVars, consumerVars, historyVars, QueueInv,
       WithinLimits, OneProducer, Busy, IndicesCount, SlotsHoldWaiting, Gone, Copied, Taken
  <2> QED
    BY <2>1, PutStoreKeepsQueue, PutLoadKeepsQueue, PutAdvanceKeepsQueue,
       GetCheckKeepsQueue, GetReadKeepsQueue, GetClearKeepsQueue,
       GetAdvanceKeepsQueue, NextCheckKeepsQueue DEF Next, Put, Get
<1> QED
  BY <1>1, <1>2, TypeCorrect, PTL DEF Spec

\* Within its limits the queue delivers in order, for every ring size and
\* every set of publishing threads (MPSCQueue::get, Subscriber::next).
THEOREM DeliversInOrder == Spec => []InOrder
<1>1. QueueInv => InOrder
  BY DEF QueueInv, InOrder
<1> QED
  BY <1>1, QueueInvariant, PTL

\* Within its limits the assertion in Subscriber::next cannot fail.
THEOREM NeverHandsOutNull == Spec => []NoNullWithinLimits
<1>1. QueueInv => NoNullWithinLimits
  BY DEF QueueInv, NoNullWithinLimits
<1> QED
  BY <1>1, QueueInvariant, PTL

-----------------------------------------------------------------------------
(* The ring implements the abstract channel.                               *)

Upto(n) == [i \in 1 .. n |-> i]

\* The messages of the channel, seen through the refinement mapping.
LEMMA ChannelView ==
  ASSUME TypeOK, QueueInv, WithinLimits
  PROVE  /\ Copied \in Nat /\ nput \in Nat /\ Copied <= nput
         /\ Handed = Upto(Copied)
         /\ Handed \o Content = Upto(nput)
<1>1. OneProducer /\ IndicesCount /\ SlotsHoldWaiting /\ \A i \in 1 .. Len(received) : received[i] = i
  BY DEF QueueInv
<1>2. Copied \in Nat /\ nput \in Nat /\ Gone \in Nat /\ Gone <= Copied
  BY CountersNat DEF TypeOK
<1>3. Copied <= nput /\ nput - Copied < N /\ FrontIndex = Copied % N
  <2>1. CASE cpc \in {"clear", "advance"}
    <3>1. Gone = Len(received) /\ Copied = Gone + 1 /\ Gone < nput /\ FrontIndex = Succ(tail_)
      BY <1>1, <2>1 DEF IndicesCount, Gone, Copied, Taken, FrontIndex
    <3>2. Succ(tail_) = (Gone + 1) % N
      BY <1>1, <1>2, ModSucc, NAssumption DEF IndicesCount, Succ
    <3> QED
      BY <1>1, <1>2, <3>1, <3>2, NAssumption DEF IndicesCount
  <2>2. CASE cpc \notin {"clear", "advance"}
    <3>1. Copied = Gone /\ FrontIndex = tail_
      BY <2>2 DEF Gone, Copied, Taken, FrontIndex
    <3> QED
      BY <1>1, <3>1 DEF IndicesCount
  <2> QED
    BY <2>1, <2>2
<1>4. Handed = Upto(Copied)
  <2>1. received \in Seq(Value) /\ Len(received) \in Nat
    BY DEF TypeOK
  <2>2. received = Upto(Len(received))
    BY <1>1, <2>1 DEF Upto
  <2>3. CASE Taken
    <3>1. elem = Len(received) + 1 /\ Copied = Len(received) + 1 /\ Handed = Append(received, elem)
      BY <1>1, <2>3 DEF SlotsHoldWaiting, Copied, Handed
    <3>2. Append(received, elem) = Upto(Len(received) + 1)
      BY <1>1, <2>1, <3>1 DEF Upto
    <3> QED
      BY <3>1, <3>2
  <2>4. CASE ~Taken
    BY <2>1, <2>2, <2>4 DEF Copied, Handed
  <2> QED
    BY <2>3, <2>4
<1> DEFINE d == nput - Copied
<1>5. (head_ - FrontIndex + N) % N = d
  <2>1. d \in 0 .. N - 1 /\ Copied + d = nput
    BY <1>2, <1>3, NAssumption
  <2> HIDE DEF d
  <2>2. (((Copied + d) % N) - (Copied % N) + N) % N = d
    BY <1>2, <2>1, ModDistance, NAssumption
  <2> QED
    BY <1>1, <1>3, <2>1, <2>2 DEF IndicesCount
<1>6. Content = [i \in 1 .. d |-> Copied + i]
  <2>1. Content = [i \in 1 .. d |-> internal_[(FrontIndex + i - 1) % N]]
    BY <1>5 DEF Content
  <2>2. ASSUME NEW i \in 1 .. d PROVE internal_[(FrontIndex + i - 1) % N] = Copied + i
    <3> DEFINE j == i - 1
               k == Copied + i
    <3>1. j \in Nat /\ k \in (Copied + 1) .. nput /\ k - 1 = Copied + j
      BY <1>2
    <3>2. ((Copied % N) + j) % N = (Copied + j) % N
      <4> HIDE DEF j
      <4> QED
        BY <1>2, <3>1, ModPlus, NAssumption
    <3>3. FrontIndex + i - 1 = (Copied % N) + j
      BY <1>2, <1>3, NAssumption
    <3>4. internal_[(k - 1) % N] = k
      BY <1>1, <3>1 DEF SlotsHoldWaiting
    <3> QED
      BY <3>1, <3>2, <3>3, <3>4
  <2> QED
    BY <2>1, <2>2
<1>7. Upto(Copied) \o [i \in 1 .. d |-> Copied + i] = Upto(nput)
  <2> DEFINE h == Upto(Copied)
             c == [i \in 1 .. d |-> Copied + i]
  <2>1. d \in Nat /\ Copied + d = nput
    BY <1>2, <1>3
  <2>2. h \in Seq(Nat) /\ Len(h) = Copied /\ \A i \in 1 .. Copied : h[i] = i
    BY <1>2 DEF Upto
  <2>3. c \in Seq(Nat) /\ Len(c) = d /\ \A i \in 1 .. d : c[i] = Copied + i
    BY <1>2, <2>1
  <2> HIDE DEF h, c, d
  <2>4. /\ h \o c \in Seq(Nat) /\ Len(h \o c) = Len(h) + Len(c)
        /\ \A i \in 1 .. Len(h) + Len(c) : (h \o c)[i] = IF i <= Len(h) THEN h[i] ELSE c[i - Len(h)]
    BY <2>2, <2>3, ConcatProperties
  <2>5. \A i \in 1 .. nput : (h \o c)[i] = i
    BY <1>2, <2>1, <2>2, <2>3, <2>4
  <2>6. h \o c = Upto(nput)
    <3>1. Upto(nput) \in Seq(Nat) /\ Len(Upto(nput)) = nput /\ \A i \in 1 .. nput : Upto(nput)[i] = i
      BY <1>2 DEF Upto
    <3>2. Len(h \o c) = nput
      BY <2>1, <2>2, <2>3, <2>4
    <3> QED
      BY <2>4, <2>5, <3>1, <3>2, SeqEqual
  <2> QED
    BY <2>6 DEF h, c
<1> QED
  BY <1>2, <1>3, <1>4, <1>6, <1>7

\* Within the limits each step publishes the next message, delivers the next
\* one, or leaves the channel alone.
LEMMA ChannelStep ==
  ASSUME TypeOK, QueueInv, [Next]_vars, WithinLimits'
  PROVE  /\ WithinLimits
         /\ \/ nput' = nput + 1 /\ Copied' = Copied
            \/ nput' = nput /\ Copied' = Copied + 1
            \/ nput' = nput /\ Copied' = Copied
<1> USE DEF Copied, Taken, WithinLimits
<1>1. ASSUME NEW p \in Producers, Put(p)
      PROVE  WithinLimits /\ nput' \in {nput, nput + 1} /\ Copied' = Copied
  <2>1. CASE PutStore(p)
    BY <2>1 DEF PutStore, consumerVars
  <2>2. CASE PutLoad(p)
    BY <2>2 DEF PutLoad, consumerVars, historyVars
  <2>3. CASE PutAdvance(p)
    BY <2>3 DEF PutAdvance, consumerVars
  <2> QED
    BY <1>1, <2>1, <2>2, <2>3 DEF Put
<1>2. ASSUME GetCheck \/ GetRead \/ GetClear \/ GetAdvance
      PROVE  WithinLimits /\ nput' = nput /\ Copied' \in {Copied, Copied + 1}
  BY <1>2 DEF GetCheck, GetRead, GetClear, GetAdvance, queueVars, producerVars, historyVars, TypeOK
<1>3. ASSUME NextCheck PROVE WithinLimits /\ nput' = nput /\ Copied' = Copied
  <2>1. WithinLimits /\ nput' = nput /\ cpc = "check" /\ cpc' = "idle"
    BY <1>3 DEF NextCheck, historyVars
  <2>2. elem # Null
    BY <2>1, NullAssumption DEF QueueInv, SlotsHoldWaiting, TypeOK
  <2>3. Len(received') = Len(received) + 1
    BY <1>3, <2>2 DEF NextCheck, TypeOK
  <2> QED
    BY <2>1, <2>3
<1>4. ASSUME UNCHANGED vars PROVE WithinLimits /\ nput' = nput /\ Copied' = Copied
  BY <1>4 DEF vars, consumerVars, historyVars
<1> QED
  BY <1>1, <1>2, <1>3, <1>4 DEF Next, Get

\* MPSCQueue implements FifoChannel, for every ring size and every set of
\* publishing threads: as long as one thread at a time publishes and the ring
\* is not overrun, messages come out once and in the order of publication.
THEOREM QueueImplementsFifo == Spec => ImplementsFifo
<1>1. Init => Fifo!Init
  <2> SUFFICES ASSUME Init PROVE Fifo!Init
    OBVIOUS
  <2>1. ~Taken /\ Handed = <<>> /\ WithinLimits
    BY DEF Init, Taken, Handed, WithinLimits
  <2>2. (head_ - FrontIndex + N) % N = 0
    BY NAssumption DEF Init, FrontIndex
  <2>3. Content = <<>>
    BY <2>2 DEF Content
  <2> QED
    BY <2>1, <2>3 DEF Fifo!Init
<1>2. TypeOK /\ QueueInv /\ TypeOK' /\ QueueInv' /\ [Next]_vars => [Fifo!Next]_(Fifo!vars)
  <2> SUFFICES ASSUME TypeOK, QueueInv, TypeOK', QueueInv', [Next]_vars PROVE [Fifo!Next]_(Fifo!vars)
    OBVIOUS
  <2>1. CASE ~WithinLimits'
    BY <2>1 DEF Fifo!Next, Fifo!Fail
  <2>2. CASE WithinLimits'
    <3>1. WithinLimits /\ nput \in Nat /\ Copied \in Nat /\ Copied <= nput
          /\ Handed = Upto(Copied) /\ Handed \o Content = Upto(nput)
      BY <2>2, ChannelStep, ChannelView
    <3>2. nput' \in Nat /\ Copied' \in Nat /\ Copied' <= nput'
          /\ Handed' = Upto(Copied') /\ (Handed \o Content)' = Upto(nput')
      <4>1. (TypeOK /\ QueueInv /\ WithinLimits
               => nput \in Nat /\ Copied \in Nat /\ Copied <= nput
                  /\ Handed = Upto(Copied) /\ Handed \o Content = Upto(nput))'
        BY ChannelView, PTL
      <4> QED
        BY <2>2, <4>1
    <3>3. \A n \in Nat : Len(Upto(n)) = n /\ Append(Upto(n), n + 1) = Upto(n + 1)
      BY DEF Upto
    <3>4. CASE nput' = nput + 1 /\ Copied' = Copied
      BY <2>2, <3>1, <3>2, <3>3, <3>4 DEF Fifo!Next, Fifo!Send
    <3>5. CASE nput' = nput /\ Copied' = Copied + 1
      <4>1. Upto(nput)[Copied + 1] = Copied + 1 /\ Copied < nput
        BY <3>1, <3>2, <3>5 DEF Upto
      <4> QED
        BY <2>2, <3>1, <3>2, <3>3, <3>5, <4>1 DEF Fifo!Next, Fifo!Deliver
    <3>6. CASE nput' = nput /\ Copied' = Copied
      BY <2>2, <3>1, <3>2, <3>6 DEF Fifo!vars
    <3> QED
      BY <2>2, <3>4, <3>5, <3>6, ChannelStep
  <2> QED
    BY <2>1, <2>2
<1> QED
  BY <1>1, <1>2, TypeCorrect, QueueInvariant, PTL DEF Spec, ImplementsFifo, Fifo!Spec
=============================================================================
