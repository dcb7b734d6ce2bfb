---------------------------- MODULE MessageQueue ----------------------------
(***************************************************************************)
(* The queue between a Publisher and one Subscriber of the node's pub/sub  *)
(* system (include/core/MPSCQueue.h, used by Subscriber::push and          *)
(* Subscriber::next in include/core/Node.h).                               *)
(*                                                                         *)
(* The queue is a ring of N shared_ptr slots with two indices.  Neither    *)
(* put nor get takes a lock, so every access to a shared field is a step   *)
(* of its own: a producer stores into the slot under head_, loads head_    *)
(* again and writes it back incremented; the consumer compares the         *)
(* indices, copies the slot under tail_, clears it and advances tail_.     *)
(* (The copy of a shared_ptr itself is taken to be atomic.)                *)
(*                                                                         *)
(* Messages are numbered in the order in which their put begins.           *)
(***************************************************************************)
EXTENDS Integers, Sequences

CONSTANTS
  N,          \* number of slots: DEFAULT_QUEUE_SIZE (16 in the code)
  Producers,  \* the threads that publish on the topic
  Null,       \* an empty shared_ptr
  MaxMsgs     \* bound on the number of published messages

ASSUME NAssumption == N \in Nat \ {0}
ASSUME MaxMsgsAssumption == MaxMsgs \in Nat
ASSUME NullAssumption == Null \notin Nat

VARIABLES
  internal_, head_, tail_,   \* the fields of MPSCQueue
  ppc,        \* ppc[p]: where producer p is in put
  reg,        \* reg[p]: the value of head_ that p loaded
  cpc,        \* where the consumer is in get
  elem,       \* the consumer's local copy of the message
  aborted,    \* the assertion in Subscriber::next has failed
  \* History, not part of the program:
  begun,      \* number of puts begun
  nput,       \* number of puts completed
  received,   \* the messages handed to the consumer, in order
  overrun,    \* a put completed with N - 1 messages already waiting
  raced       \* two producers have been inside put at the same time

queueVars == <<internal_, head_, tail_>>
producerVars == <<ppc, reg>>
consumerVars == <<cpc, elem, aborted, received>>
historyVars == <<begun, nput, overrun, raced>>
vars == <<queueVars, producerVars, consumerVars, historyVars>>

Index == 0 .. N - 1
Message == Nat \ {0}
Value == Message \cup {Null}

Succ(i) == (i + 1) % N

TypeOK ==
  /\ internal_ \in [Index -> Value]
  /\ head_ \in Index
  /\ tail_ \in Index
  /\ ppc \in [Producers -> {"idle", "load", "advance"}]
  /\ reg \in [Producers -> Index]
  /\ cpc \in {"idle", "read", "clear", "advance", "check"}
  /\ elem \in Value
  /\ aborted \in BOOLEAN
  /\ begun \in Nat
  /\ nput \in Nat
  /\ received \in Seq(Value)
  /\ overrun \in BOOLEAN
  /\ raced \in BOOLEAN

Init ==
  /\ internal_ = [i \in Index |-> Null]
  /\ head_ = 0
  /\ tail_ = 0
  /\ ppc = [p \in Producers |-> "idle"]
  /\ reg = [p \in Producers |-> 0]
  /\ cpc = "idle"
  /\ elem = Null
  /\ aborted = FALSE
  /\ begun = 0
  /\ nput = 0
  /\ received = <<>>
  /\ overrun = FALSE
  /\ raced = FALSE

-----------------------------------------------------------------------------
(* put, called by Subscriber::push in the publishing thread                *)

\* internal_[head_] = val
PutStore(p) ==
  /\ ~aborted
  /\ begun < MaxMsgs
  /\ ppc[p] = "idle"
  /\ internal_' = [internal_ EXCEPT ![head_] = begun + 1]
  /\ begun' = begun + 1
  /\ ppc' = [ppc EXCEPT ![p] = "load"]
  /\ raced' = (raced \/ \E q \in Producers : ppc[q] # "idle")
  /\ UNCHANGED <<head_, tail_, reg, consumerVars, nput, overrun>>

\* head_ = (head_ + 1) % internal_.size(): the load ...
PutLoad(p) ==
  /\ ~aborted
  /\ ppc[p] = "load"
  /\ reg' = [reg EXCEPT ![p] = head_]
  /\ ppc' = [ppc EXCEPT ![p] = "advance"]
  /\ UNCHANGED <<queueVars, consumerVars, historyVars>>

\* Mutant: the advance of head_ is forgotten.
PutAdvanceForgotten(p) ==
  /\ ~aborted
  /\ ppc[p] = "advance"
  /\ ppc' = [ppc EXCEPT ![p] = "idle"]
  /\ nput' = nput + 1
  /\ UNCHANGED <<queueVars, reg, consumerVars, begun, overrun, raced>>

\* ... and the store.  There is no test for a full queue.
PutAdvance(p) ==
  /\ ~aborted
  /\ ppc[p] = "advance"
  /\ head_' = Succ(reg[p])
  /\ ppc' = [ppc EXCEPT ![p] = "idle"]
  /\ nput' = nput + 1
  /\ overrun' = (overrun \/ Succ(reg[p]) = tail_)
  /\ UNCHANGED <<internal_, tail_, reg, consumerVars, begun, raced>>

-----------------------------------------------------------------------------
(* get, called by Subscriber::next in the subscribing thread.  A get that  *)
(* finds the queue empty changes nothing.                                  *)

\* Mutant: the test for an empty queue is dropped.
GetCheckAlways ==
  /\ ~aborted
  /\ cpc = "idle"
  /\ cpc' = "read"
  /\ UNCHANGED <<queueVars, producerVars, elem, aborted, received, historyVars>>

\* if (tail_ != head_)
GetCheck ==
  /\ ~aborted
  /\ cpc = "idle"
  /\ tail_ # head_
  /\ cpc' = "read"
  /\ UNCHANGED <<queueVars, producerVars, elem, aborted, received, historyVars>>

\* Mutant: the consumer copies the newest message instead of the oldest.
GetReadNewest ==
  /\ ~aborted
  /\ cpc = "read"
  /\ elem' = internal_[(head_ + N - 1) % N]
  /\ cpc' = "clear"
  /\ UNCHANGED <<queueVars, producerVars, aborted, received, historyVars>>

\* Value elem = internal_[tail_]
GetRead ==
  /\ ~aborted
  /\ cpc = "read"
  /\ elem' = internal_[tail_]
  /\ cpc' = "clear"
  /\ UNCHANGED <<queueVars, producerVars, aborted, received, historyVars>>

\* internal_[tail_] = nullptr
GetClear ==
  /\ ~aborted
  /\ cpc = "clear"
  /\ internal_' = [internal_ EXCEPT ![tail_] = Null]
  /\ cpc' = "advance"
  /\ UNCHANGED <<head_, tail_, producerVars, elem, aborted, received, historyVars>>

\* tail_ = (tail_ + 1) % internal_.size()
GetAdvance ==
  /\ ~aborted
  /\ cpc = "advance"
  /\ tail_' = Succ(tail_)
  /\ cpc' = "check"
  /\ UNCHANGED <<internal_, head_, producerVars, elem, aborted, received, historyVars>>

\* next: a null message fails the assertion and ends the process.
NextCheck ==
  /\ ~aborted
  /\ cpc = "check"
  /\ cpc' = "idle"
  /\ elem' = Null
  /\ \/ /\ elem = Null
        /\ aborted' = TRUE
        /\ UNCHANGED received
     \/ /\ elem # Null
        /\ received' = Append(received, elem)
        /\ UNCHANGED aborted
  /\ UNCHANGED <<queueVars, producerVars, historyVars>>

-----------------------------------------------------------------------------
Put(p) == PutStore(p) \/ PutLoad(p) \/ PutAdvance(p)
Get == GetCheck \/ GetRead \/ GetClear \/ GetAdvance \/ NextCheck

Next == Get \/ \E p \in Producers : Put(p)

Spec == Init /\ [][Next]_vars

\* Every module's thread is ticked forever, and SubscriptionHandler::tick
\* drains the queue; a producer that has entered put leaves it.
FairSpec ==
  /\ Spec
  /\ WF_vars(Get)
  /\ \A p \in Producers : WF_vars(PutLoad(p) \/ PutAdvance(p))
-----------------------------------------------------------------------------
(* Properties                                                              *)

\* The queue has been used within its limits: one producer at a time, and
\* never more than N - 1 messages waiting.  The code enforces neither.
WithinLimits == ~raced /\ ~overrun

\* Within its limits the unlocked ring hands out every message once and in
\* the order of publication, whatever the interleaving of put and get.
InOrder ==
  WithinLimits => \A i \in 1 .. Len(received) : received[i] = i

\* Within its limits Subscriber::next never meets a null message, so that
\* the assertion "GOT NULL MSG FROM QUEUE" cannot end the process.
NoNullWithinLimits == WithinLimits => ~aborted

\* Within its limits every completed put is eventually received.
Delivered ==
  \A k \in 1 .. MaxMsgs :
    (nput >= k) ~> (Len(received) >= k \/ ~WithinLimits)

\* Subscriber::next asserts that it never meets a null message: nothing is
\* said there of how many threads publish on the topic.
NoNullMessage == ~aborted

\* The messages between the indices, oldest first, as seen by a consumer
\* that has already copied the one it is about to clear.
Taken == cpc \in {"clear", "advance", "check"}
FrontIndex == IF cpc \in {"clear", "advance"} THEN Succ(tail_) ELSE tail_
Content ==
  [i \in 1 .. ((head_ - FrontIndex + N) % N) |-> internal_[(FrontIndex + i - 1) % N]]
Handed == IF Taken THEN Append(received, elem) ELSE received

Fifo == INSTANCE FifoChannel WITH
          sent <- Handed \o Content, delivered <- Handed, reliable <- WithinLimits

\* The ring implements the abstract channel: the step that advances head_ is
\* Send, the step that copies the slot is Deliver, and only an overrun or a
\* race of two producers is Fail.
ImplementsFifo == Fifo!Spec
-----------------------------------------------------------------------------
(* The inductive invariant behind InOrder and NoNullWithinLimits.          *)

Busy == \E p \in Producers : ppc[p] # "idle"

\* Messages that have left the ring, and messages copied by the consumer.
Gone == Len(received) + (IF cpc = "check" THEN 1 ELSE 0)
Copied == Len(received) + (IF Taken THEN 1 ELSE 0)

\* At most one producer is inside put, and it owns the slot under head_.
OneProducer ==
  /\ \A p, q \in Producers : ppc[p] # "idle" /\ ppc[q] # "idle" => p = q
  /\ \A p \in Producers : ppc[p] = "advance" => reg[p] = head_
  /\ begun = nput + (IF Busy THEN 1 ELSE 0)
  /\ Busy => internal_[head_] = begun

\* The indices count puts and gets modulo the size of the ring.
IndicesCount ==
  /\ head_ = nput % N
  /\ tail_ = Gone % N
  /\ Gone <= nput
  /\ nput - Gone < N
  /\ cpc \in {"read", "clear", "advance"} => Gone < nput

\* Each waiting message lies in the slot of its number.
SlotsHoldWaiting ==
  /\ \A k \in (Copied + 1) .. nput : internal_[(k - 1) % N] = k
  /\ Taken => elem = Len(received) + 1

\* While the queue is used within its limits, its indices count puts and
\* gets and its slots hold exactly the waiting messages.
QueueInv ==
  WithinLimits =>
    /\ ~aborted
    /\ \A i \in 1 .. Len(received) : received[i] = i
    /\ OneProducer
    /\ IndicesCount
    /\ SlotsHoldWaiting
=============================================================================
