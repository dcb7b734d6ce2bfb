------------------------------ MODULE RingBuffer ------------------------------
(***************************************************************************)
(* The mutex-protected ring of include/common/RingBuffer.h, which carries  *)
(* camera frames and percepts between the perception thread and the person *)
(* tracker, and sentences to the text-to-speech thread.  Every operation   *)
(* holds the mutex throughout, so that each is one step.                   *)
(*                                                                         *)
(* The constructor rounds the size up to a power of two and keeps size - 1 *)
(* as mask.  The pointers are advanced modulo mask, not modulo size, while *)
(* the test for a full ring is made modulo size (with an AND): only mask   *)
(* slots are used, and the test misses the full ring whose take_ptr is 0.  *)
(***************************************************************************)
EXTENDS Integers, Sequences, SequencesExt

\* A ring is a record of the fields of the class.
Ring(mask, Values) ==
  [mask : {mask}, buffer : [0 .. mask -> Values], put_ptr : 0 .. mask - 1, take_ptr : 0 .. mask - 1]

NewRing(mask, blank) ==
  [mask |-> mask, buffer |-> [i \in 0 .. mask |-> blank], put_ptr |-> 0, take_ptr |-> 0]

IsEmpty(r) == r.take_ptr = r.put_ptr

\* ((put_ptr - take_ptr) & mask) == mask
IsFull(r) == (r.put_ptr - r.take_ptr) % (r.mask + 1) = r.mask

\* Mutant: a full ring is not refused.
PutUnchecked(r, val) ==
  [r EXCEPT !.buffer[r.put_ptr] = val, !.put_ptr = (@ + 1) % r.mask]

\* put_unsafe
PutUnsafe(r, val) ==
  IF IsFull(r) THEN r
  ELSE [r EXCEPT !.buffer[r.put_ptr] = val, !.put_ptr = (@ + 1) % r.mask]

\* put_all
PutAll(r, values) ==
  LET put[n \in 0 .. Len(values)] == IF n = 0 THEN r ELSE PutUnsafe(put[n - 1], values[n])
  IN  put[Len(values)]

Emptied(r) == [r EXCEPT !.take_ptr = r.put_ptr]

\* What try_take and take do to the pointer, and what they return.
Took(r) == [r EXCEPT !.take_ptr = (@ + 1) % r.mask]
First(r) == r.buffer[r.take_ptr]

\* The elements take_all collects, oldest first.
Waiting(r) ==
  [i \in 1 .. ((r.put_ptr - r.take_ptr) % r.mask) |-> r.buffer[(r.take_ptr + i - 1) % r.mask]]

=============================================================================
