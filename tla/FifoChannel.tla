---------------------------- MODULE FifoChannel -----------------------------
(***************************************************************************)
(* What a subscription promises: messages come out in the order in which   *)
(* they were published, each exactly once, for as long as the channel is   *)
(* used as intended.  After a Fail nothing is promised any more.           *)
(***************************************************************************)
EXTENDS Naturals, Sequences

VARIABLES
  sent,       \* every message published so far
  delivered,  \* the messages handed to the subscriber
  reliable    \* the channel has been used as intended

vars == <<sent, delivered, reliable>>

Init ==
  /\ sent = <<>>
  /\ delivered = <<>>
  /\ reliable = TRUE

\* Messages are numbered by the publisher.
Send ==
  /\ reliable /\ reliable'
  /\ sent' = Append(sent, Len(sent) + 1)
  /\ UNCHANGED delivered

Deliver ==
  /\ reliable /\ reliable'
  /\ Len(delivered) < Len(sent)
  /\ delivered' = Append(delivered, sent[Len(delivered) + 1])
  /\ UNCHANGED sent

Fail == ~reliable'

Next == Send \/ Deliver \/ Fail

Spec == Init /\ [][Next]_vars
=============================================================================
