--------------------------------- MODULE Nao ---------------------------------
(***************************************************************************)
(* The module onboard_nao (src/onboard_nao/nao.cpp), which turns messages  *)
(* into calls of NAOqi: speech, the handshake on the gamepad, trajectories *)
(* of the joints.  Sentences pass through a RingBuffer to a thread of      *)
(* their own, tts_runner, because saying one takes seconds; everything     *)
(* else happens in the thread that ticks the module.                       *)
(*                                                                         *)
(* NAOqi is external: a call returns or, where the handler catches it,     *)
(* throws.  Sentences are numbered in the order in which handlers put them.*)
(***************************************************************************)
EXTENDS RingBuffer, Vectors, FiniteSetsExt

CONSTANTS
  Mask,         \* size - 1 of tts_buffer, 15 in the code
  Actuators,    \* joints
  IdxRange,     \* number of values of ActCmds::idx, a uint8_t: 256 in the code
  MaxPoints,    \* bound on the timepoints of a trajectory
  MaxValues,    \* bound on the values of a timepoint
  MaxPuts       \* bound on the sentences put

\* (The numbers of values travel as uint8_t.)
ASSUME NaoAssumption ==
  {Mask, IdxRange} \subseteq Nat \ {0} /\ {MaxPoints, MaxPuts} \subseteq Nat /\ MaxValues \in 0 .. 255

VARIABLES
  tts_buffer,
  tts_over_network,
  handshake_state,
  worker,        \* the sentence that tts_runner says, 0 while it takes one
  process,       \* the process of the robot: "up" or "terminated"
  trajectory,    \* the last Trajectory sent, [timepoint -> sequence of joints]
  setAngles,     \* the calls of setAngles it led to, in order
  \* History:
  puts,          \* number of sentences put
  lost,          \* sentences refused or overwritten
  spoken         \* sentences said, in order

speechVars == <<tts_buffer, puts, lost>>
naoVars == <<speechVars, tts_over_network, handshake_state, worker, process, trajectory, setAngles, spoken>>

\* A timepoint lists joints, a trajectory timepoints; the value for a joint is
\* <<timepoint, place>>, so that all values differ.
Trajectories == UNION {[1 .. k -> BoundedSeq(Actuators, MaxValues)] : k \in 0 .. MaxPoints}

NaoInit ==
  /\ tts_buffer = NewRing(Mask, 0)
  /\ tts_over_network = FALSE
  /\ handshake_state = 0
  /\ worker = 0
  /\ process = "up"
  /\ trajectory = <<>> /\ setAngles = <<>>
  /\ puts = 0 /\ lost = {} /\ spoken = <<>>

-----------------------------------------------------------------------------
(* Speech                                                                  *)

\* k calls of tts_buffer.put
Say(k) ==
  LET new == PutAll(tts_buffer, [i \in 1 .. k |-> puts + i])
  IN  /\ puts + k <= MaxPuts
      /\ tts_buffer' = new
      /\ puts' = puts + k
      /\ lost' = lost \cup ((ToSet(Waiting(tts_buffer)) \cup (puts + 1 .. puts + k)) \ ToSet(Waiting(new)))

\* tts_settings
TtsSettings(over) ==
  /\ process = "up"
  /\ tts_over_network' = over
  /\ UNCHANGED <<speechVars, handshake_state, worker, process, trajectory, setAngles, spoken>>

\* tts_say: said here, or made into a file that is published.
TtsSay ==
  /\ process = "up"
  /\ ~tts_over_network
  /\ Say(1)
  /\ UNCHANGED <<tts_over_network, handshake_state, worker, process, trajectory, setAngles, spoken>>

\* tts_runner: take waits for a sentence.
TtsTake ==
  /\ process = "up"
  /\ worker = 0 /\ ~IsEmpty(tts_buffer)
  /\ worker' = First(tts_buffer)
  /\ tts_buffer' = Took(tts_buffer)
  /\ UNCHANGED <<tts_over_network, handshake_state, process, trajectory, setAngles, puts, lost, spoken>>

\* Mutant: the thread ends with the first sentence.
TtsDoneOnce ==
  /\ process = "up"
  /\ worker # 0 /\ spoken = <<>>
  /\ spoken' = Append(spoken, worker)
  /\ worker' = 0
  /\ UNCHANGED <<speechVars, tts_over_network, handshake_state, process, trajectory, setAngles>>

\* tts_runner: say returns.
TtsDone ==
  /\ process = "up"
  /\ worker # 0
  /\ spoken' = Append(spoken, worker)
  /\ worker' = 0
  /\ UNCHANGED <<speechVars, tts_over_network, handshake_state, process, trajectory, setAngles>>

\* GAMEPAD_B: the next step of the handshake, with a sentence.  NAOqi may throw
\* before the state is advanced and, in the last step, after it; the handler
\* then ends.
GamepadB(throws) ==
  /\ process = "up"
  /\ \/ /\ ~throws
        /\ handshake_state' = (handshake_state + 1) % 3
        /\ Say(1)
     \/ /\ throws
        /\ handshake_state' \in {handshake_state} \cup (IF handshake_state = 2 THEN {0} ELSE {})
        /\ UNCHANGED speechVars
  /\ UNCHANGED <<tts_over_network, worker, process, trajectory, setAngles, spoken>>

\* GAMEPAD_CIRCLE: two sentences, and between them an animation that may throw.
GamepadCircle(throws) ==
  /\ process = "up"
  /\ Say(IF throws THEN 1 ELSE 2)
  /\ UNCHANGED <<tts_over_network, handshake_state, worker, process, trajectory, setAngles, spoken>>

\* shutdown deletes the context; the destructor of tts_worker finds the thread
\* joinable and ends the process, whatever else is going on in it.
Shutdown ==
  /\ process = "up"
  /\ process' = "terminated"
  /\ UNCHANGED <<speechVars, tts_over_network, handshake_state, worker, trajectory, setAngles, spoken>>

-----------------------------------------------------------------------------
(* Trajectories                                                            *)

\* Trajectory::pack: counts, joints and values in arrays of their own.
Pack(t) ==
  [num_values |-> [i \in DOMAIN t |-> Len(t[i])],
   actuators |-> FlattenSeq(t),
   values |-> FlattenSeq([i \in DOMAIN t |-> [j \in DOMAIN t[i] |-> <<i, j>>]])]

\* p, when the first loop comes to timepoint i.
Offset(msg, i) ==
  LET p[k \in 0 .. Len(msg.num_values)] == IF k = 0 THEN 0 ELSE p[k - 1] + msg.num_values[k]
  IN  p[i - 1]

\* The commands that timepoint i adds to those of joint a, as <<timepoint, value>>.
CmdsAt(msg, a, i) ==
  LET p == Offset(msg, i)
      js == Sorted({j \in 1 .. msg.num_values[i] : msg.actuators[p + j] = a})
  IN  [k \in DOMAIN js |-> <<i, msg.values[p + js[k]]>>]

\* The first loop: cmds of one joint, in order.
CmdsOf(msg, a) == FlattenSeq([i \in DOMAIN msg.num_values |-> CmdsAt(msg, a, i)])

\* The joints in the order in which the first loop met them.
ActuatorCmds(msg) ==
  LET acts == msg.actuators
  IN  Among(acts, {k \in DOMAIN acts : \A l \in 1 .. k - 1 : acts[l] # acts[k]})

\* Mutant: a joint whose turn has not come is passed over for good.
NextIdxAll(idx, due) == [a \in Actuators |-> (idx[a] % IdxRange) + 1]

\* act.idx++ for the joints that were due, which wraps.  (Counted from 1, so
\* that it is the place in cmds: one more than in the code.)
NextIdx(idx, due) == [a \in Actuators |-> IF a \in ToSet(due) THEN (idx[a] % IdxRange) + 1 ELSE idx[a]]

\* The joints whose next command is for timepoint i.
Due(msg, idx, i) ==
  LET acts == ActuatorCmds(msg)
  IN  Among(acts, {k \in DOMAIN acts : /\ idx[acts[k]] # Len(CmdsOf(msg, acts[k])) + 1
                                       /\ CmdsOf(msg, acts[k])[idx[acts[k]]][1] = i})

\* One round of the second loop: every joint that is due moves on, in one call
\* of setAngles.  The arrays are resized to the number of values and keep what
\* is not overwritten.
Step(msg, s, i) ==
  LET due == Due(msg, s.idx, i)
      new == [k \in DOMAIN due |-> <<due[k], CmdsOf(msg, due[k])[s.idx[due[k]]][2]>>]
      array == [k \in 1 .. msg.num_values[i] |->
                  IF k \in DOMAIN new THEN new[k] ELSE IF k \in DOMAIN s.array THEN s.array[k] ELSE <<>>]
  IN  [idx |-> NextIdx(s.idx, due), array |-> array, calls |-> Append(s.calls, array)]

Calls(msg) ==
  LET n == Len(msg.num_values)
      turn[i \in 0 .. n] ==
        IF i = 0 THEN [idx |-> [a \in Actuators |-> 1], array |-> <<>>, calls |-> <<>>]
        ELSE Step(msg, turn[i - 1], i)
  IN  turn[n].calls

\* trajectory_cmd: blocks the thread of the module, not the one that speaks.
\* One trajectory is enough: nothing of it is left for the next.
TrajectoryCmd(t) ==
  /\ process = "up"
  /\ trajectory = <<>>
  /\ trajectory' = t
  /\ setAngles' = Calls(Pack(t))
  /\ UNCHANGED <<speechVars, tts_over_network, handshake_state, worker, process, spoken>>

NaoNext ==
  \/ \E over \in BOOLEAN : TtsSettings(over)
  \/ TtsSay \/ TtsTake \/ TtsDone
  \/ \E throws \in BOOLEAN : GamepadB(throws) \/ GamepadCircle(throws)
  \/ \E t \in Trajectories : TrajectoryCmd(t)
  \/ Shutdown

\* NAOqi's say returns, and the operating system runs the thread that speaks.
NaoSpec == NaoInit /\ [][NaoNext]_naoVars /\ WF_naoVars(TtsTake) /\ WF_naoVars(TtsDone)

-----------------------------------------------------------------------------
(* Properties                                                              *)

\* The sentences that were said, are being said and wait, oldest first.
Said == IF worker = 0 THEN spoken ELSE Append(spoken, worker)
Line == Said \o Waiting(tts_buffer)

\* The line stays as it is or the new sentences are put at its end.  Only when
\* there is no room, which is for Mask - 1 sentences, are new ones refused, or,
\* if take_ptr is 0 as well, all that wait lost.
LineGrows ==
  LET new == [i \in 1 .. puts' - puts |-> puts + i]
  IN  \/ Line' = Line \o new
      \/ /\ Len(Waiting(tts_buffer)) + Len(new) > Mask - 1
         /\ \E k \in 0 .. Len(new) :
              \/ Line' = Line \o SubSeq(new, 1, k)
              \/ tts_buffer.take_ptr = 0 /\ Line' = Said \o SubSeq(new, k + 1, Len(new))

\* Every step of a handler or of tts_runner leaves the line in order, so that
\* sentences are said in the order in which they were put, and none twice.
SentencesKeepOrder == [][LineGrows]_naoVars

\* A sentence that a handler put is said in the end, unless it was lost at the
\* limit or the module was shut down.
SentenceSaid ==
  \A s \in 1 .. MaxPuts :
    (puts >= s) ~> (s \in ToSet(spoken) \/ s \in lost \/ process = "terminated")

\* No timepoint gives a joint two values, and no joint has more commands than
\* act.idx can tell apart: after the last of these the index is 0 again, and the
\* joint stands still for the rest of the trajectory.
WellFormed(t) ==
  /\ \A i \in DOMAIN t : IsInjective(t[i])
  /\ \A a \in Actuators : Cardinality({i \in DOMAIN t : a \in ToSet(t[i])}) <= IdxRange

\* What Trajectory::pack flattens and trajectory_cmd sorts by joints comes to
\* the same as the trajectory: one call for every timepoint, with exactly its
\* joints and values, if no timepoint names a joint twice and no joint is named
\* by more than 256 timepoints.
TrajectoryFollowed ==
  WellFormed(trajectory) =>
    /\ Len(setAngles) = Len(trajectory)
    /\ \A i \in DOMAIN trajectory :
         ToSet(setAngles[i]) = {<<trajectory[i][j], <<i, j>>>> : j \in DOMAIN trajectory[i]}

-----------------------------------------------------------------------------
(* The inductive invariant behind SentencesKeepOrder.                      *)

\* What waits are sentences, never the blank that the ring was made with, so
\* that the thread cannot take it for having nothing to say.
NaoInv ==
  /\ tts_buffer \in Ring(Mask, Nat) /\ ToSet(Waiting(tts_buffer)) \subseteq Nat \ {0}
  /\ worker \in Nat /\ spoken \in Seq(Nat) /\ puts \in Nat

=============================================================================
