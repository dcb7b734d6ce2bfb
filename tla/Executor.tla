------------------------------- MODULE Executor -------------------------------
(***************************************************************************)
(* The executor (src/executor): FBT1 steps through its states Calibration, *)
(* Waiting, Greet and Observing, by itself or when the operator says Next, *)
(* Back or Confirm, and each state moves the robot (robot.h).  All run on  *)
(* one thread; operator commands, percepts and the names that the operator *)
(* types come between two ticks.                                           *)
(*                                                                         *)
(* Of the robot, the model has the right arm and whether the position that *)
(* move_to measures from is known.  Angles, the head, breathing and speech *)
(* are left out.  The tick counts at which a state acts are constants; a   *)
(* counter stops one above the last of them.  What Observing reasons about *)
(* is in module Observing; here it starts and plays its sequences.         *)
(***************************************************************************)
EXTENDS Integers, Sequences, SequencesExt

CONSTANTS
  Ids,             \* ids that the person tracker gives
  Names, NoName,
  REQUEST_AT, RESUME_AT, MOVE_AT,   \* Calibration: 50, 100, 200
  SHAKE_AT, NAME_AFTER,             \* Greet: 120, 30
  SWITCH_AFTER,                     \* Greet: 150
  POINT_AT, REST_AT, BACK_AT,       \* ShowBoxSequence: 100, 300, 330
  MaxInbox                          \* bound on the commands waiting in a subscriber's queue

ASSUME ExecutorAssumption ==
  /\ NoName \notin Names
  /\ Ids \subseteq Nat \ {0}
  /\ {REQUEST_AT, RESUME_AT, MOVE_AT, SHAKE_AT, NAME_AFTER, SWITCH_AFTER, MaxInbox} \subseteq Nat
  /\ {POINT_AT, REST_AT, BACK_AT} \subseteq Nat
  /\ REQUEST_AT < RESUME_AT /\ RESUME_AT < MOVE_AT /\ POINT_AT < REST_AT /\ REST_AT < BACK_AT

VARIABLES
  current_state,
  local,            \* the members that enter initialises, of the state that is active:
                    \* those of the others are not read before they are entered again
  move_stage,       \* Calibration
  person_switch_timer, already_greeted_ids,   \* Greet
  inbox,            \* "learn" commands in the queue of Greet's subscriber
  arm, position,    \* the robot's right arm, and whether current_pos is set
  calibrated,       \* all sensor sources are calibrated
  persons,          \* person objects of the world, <<id, name>>
  tracked,          \* those with status Tracked
  \* History:
  cut,              \* the operator left a state while the arm was raised
  skipped,          \* the operator left Calibration before it had a position
  lost,             \* a movement was measured from no position
  pressedEarly      \* the last greeting began before Greet, once entered, had read its commands

greetVars == <<person_switch_timer, already_greeted_ids, inbox>>
stateVars == <<current_state, local, move_stage, greetVars>>
robotVars == <<arm, position>>
worldVars == <<calibrated, persons, tracked>>
ghosts == <<cut, skipped, lost, pressedEarly>>
vars == <<stateVars, robotVars, worldVars, ghosts>>

Calibration == 0
Waiting == 1
Greet == 2
Observing == 3

\* given and ticked are history: where the operator typed newly_learned, and
\* whether the commands have been read since the state was entered.  enter
\* leaves newly_learned alone, but the start of a greeting clears it, and only
\* a greeting reads it.
Idle == [in_progress |-> FALSE, target |-> 0, counter |-> 0, confirm_counter |-> 0, confirm_flag |-> FALSE,
         newly_learned |-> NoName, given |-> "none", ticked |-> FALSE]

\* What enter initialises: the counter of Calibration, done of Waiting, the
\* members of Greet, the counter of Observing's sequence (-1: there is none).
Entered(s) ==
  CASE s = Calibration -> [counter |-> 0]
    [] s = Waiting -> [done |-> FALSE]
    [] s = Greet -> Idle
    [] s = Observing -> [sequence |-> -1]

\* The constructor of FBT1 enters Calibration.
ExecutorInit ==
  /\ current_state = Calibration
  /\ local = Entered(Calibration)
  /\ move_stage = 0
  /\ person_switch_timer = 0 /\ already_greeted_ids = {} /\ inbox = <<>>
  /\ arm = "rest" /\ position = "unset"
  /\ calibrated = FALSE /\ persons = {} /\ tracked = {}
  /\ cut = FALSE /\ skipped = FALSE /\ lost = FALSE /\ pressedEarly = FALSE

-----------------------------------------------------------------------------
(* Entering and leaving states                                             *)

\* Robot::move_to measures from current_pos and then takes the goal for the
\* new position, be it true or not.
MoveTo ==
  /\ position' = "set"
  /\ lost' = (lost \/ position = "unset")

\* goto_state: leave of the old state and enter of the new one.  Greet moves
\* on both occasions, and Observing clears the world.  An index out of range
\* is ignored, and -1 is one, as it is unsigned.
GotoState(s) ==
  /\ s \in Calibration .. Observing
  /\ current_state' = s
  /\ local' = Entered(s)
  /\ IF Greet \in {s, current_state} THEN MoveTo ELSE UNCHANGED <<position, lost>>
  /\ IF Observing \in {s, current_state} THEN persons' = {} /\ tracked' = {} ELSE UNCHANGED <<persons, tracked>>
  /\ cut' = (cut \/ arm # "rest")
  /\ skipped' = (skipped \/ (current_state = Calibration /\ move_stage = 0))
  /\ UNCHANGED <<move_stage, greetVars, arm, calibrated, pressedEarly>>

\* state_cmd
NextOrBack ==
  \E step \in {1, -1} : GotoState(current_state + step)

Confirm ==
  /\ \/ current_state = Waiting /\ local' = [done |-> TRUE]
     \/ current_state = Greet /\ local' = [local EXCEPT !.confirm_flag = TRUE]
  /\ UNCHANGED <<current_state, move_stage, greetVars, robotVars, worldVars, ghosts>>

-----------------------------------------------------------------------------
(* The ticks of the states                                                 *)

\* A counter that stops at a bound.
Upto(bound, n) == IF n < bound THEN n ELSE bound

\* Mutant: the second stage starts too late to see its mark.
CalibrationCounterLate(first) == IF first THEN MOVE_AT + 1 ELSE local.counter

\* counter, after the robot has turned
CalibrationCounter(first) == IF first THEN RESUME_AT ELSE local.counter

\* Mutant: the position is not taken from the calibration.
PositionAfterMissing(first) == position

\* Robot::calibration_done
PositionAfter(first) == IF first THEN "set" ELSE position

\* Calibration::tick: all sources are calibrated anew; when they are done the
\* robot knows where it is, turns, and after a while moves back.
CalibrationTick ==
  LET request == local.counter = REQUEST_AT
      done    == calibrated /\ ~request
      first   == done /\ move_stage = 0
      counter == CalibrationCounter(first)
      ready   == done /\ counter = MOVE_AT
  IN  /\ current_state = Calibration
      /\ calibrated' = (calibrated /\ ~request)
      /\ position' = IF ready THEN "set" ELSE PositionAfter(first)
      /\ lost' = (lost \/ (ready /\ position = "unset"))
      /\ move_stage' = IF done THEN 1 ELSE move_stage
      /\ current_state' = IF ready THEN Waiting ELSE Calibration
      /\ local' = IF ready THEN Entered(Waiting)
                   ELSE [counter |-> Upto(MOVE_AT + 1, counter + 1)]
      /\ cut' = (cut \/ (ready /\ arm # "rest"))
      /\ UNCHANGED <<greetVars, arm, persons, tracked, skipped, pressedEarly>>

\* Waiting::tick
WaitingTick ==
  /\ current_state = Waiting
  /\ local.done
  /\ GotoState(Greet)

\* Greet::tick begins: a greeting starts, with any unnamed person in sight who
\* has not been greeted.
Strangers == {p \in tracked : p[2] = NoName /\ p[1] \notin already_greeted_ids}
Begins == local.confirm_flag /\ ~local.in_progress /\ Strangers # {}

\* Between greetings it looks at one person after the other; when it turns to
\* the next, the tick ends before the commands are read.
Others == {p \in tracked : p[1] # local.target}
TurnsAway == ~Begins /\ ~local.in_progress /\ person_switch_timer > SWITCH_AFTER /\ Others # {}

GreetTurnsAway ==
  /\ current_state = Greet
  /\ TurnsAway
  /\ \E p \in Others : local' = [local EXCEPT !.target = p[1]]
  /\ person_switch_timer' = 0
  /\ UNCHANGED <<current_state, move_stage, already_greeted_ids, inbox, robotVars, worldVars, ghosts>>

\* terminal_cmd: the last of the "learn" commands counts.
AfterInbox(g) ==
  IF inbox = <<>> THEN g ELSE [g EXCEPT !.newly_learned = Last(inbox).name, !.given = Last(inbox).given]

NameKnown(g) == \E p \in persons : p[2] = g.newly_learned /\ g.newly_learned # NoName

\* Mutant: the hand is not lowered.
ArmAfterUp(g) ==
  IF g.in_progress /\ g.confirm_counter = 0 /\ g.counter = SHAKE_AT THEN "handshake" ELSE arm

\* handshake_up and handshake_down
ArmAfter(g) ==
  CASE g.in_progress /\ g.confirm_counter = 0 /\ g.counter = SHAKE_AT -> "handshake"
    [] g.in_progress /\ g.confirm_counter = 1 /\ g.confirm_flag -> "rest"
    [] OTHER -> arm

\* One step of a greeting: hello, my name is, what is yours, nice to meet you.
GreetingStep(g) ==
  CASE g.in_progress /\ g.confirm_counter = 0 /\ g.confirm_flag ->
         [g EXCEPT !.confirm_flag = FALSE, !.confirm_counter = 1]
    [] g.in_progress /\ g.confirm_counter = 1 /\ g.confirm_flag ->
         [g EXCEPT !.confirm_flag = FALSE, !.confirm_counter = 2, !.counter = 0]
    [] g.in_progress /\ g.confirm_counter = 2 /\ g.counter > NAME_AFTER /\ (NameKnown(g) \/ g.confirm_flag) ->
         [Idle EXCEPT !.target = g.target]
    [] OTHER -> g

GreetCounterEnd == (IF SHAKE_AT < NAME_AFTER THEN NAME_AFTER ELSE SHAKE_AT) + 1

\* Mutant: the name is kept.
BeginGreetingKeepsName(id) ==
  [Idle EXCEPT !.in_progress = TRUE, !.target = id, !.newly_learned = local.newly_learned, !.given = local.given]

BeginGreeting(id) == [Idle EXCEPT !.in_progress = TRUE, !.target = id]

\* The rest of Greet::tick.
GreetTick ==
  /\ current_state = Greet
  /\ ~TurnsAway
  /\ \E begun \in IF Begins THEN {BeginGreeting(p[1]) : p \in Strangers} ELSE {local} :
       LET g   == AfterInbox(begun)
           end == GreetingStep(g)
       IN  /\ local' = [end EXCEPT !.counter = Upto(GreetCounterEnd, @ + 1), !.ticked = TRUE]
           /\ arm' = ArmAfter(g)
           /\ already_greeted_ids' = already_greeted_ids \cup IF g.in_progress /\ ~end.in_progress THEN {g.target} ELSE {}
  /\ inbox' = <<>>
  /\ person_switch_timer' =
       IF Begins \/ local.in_progress THEN person_switch_timer ELSE Upto(SWITCH_AFTER + 1, person_switch_timer + 1)
  /\ pressedEarly' = IF Begins THEN ~local.ticked ELSE pressedEarly
  /\ UNCHANGED <<current_state, move_stage, position, worldVars, cut, skipped, lost>>

\* Observing::tick plays the sequence (ShowBoxSequence::tick).
ObservingTick ==
  /\ current_state = Observing
  /\ local.sequence >= 0
  /\ arm' = CASE local.sequence = POINT_AT -> "pointing"
              [] local.sequence = REST_AT -> "rest"
              [] OTHER -> arm
  /\ local' = [sequence |-> IF local.sequence = BACK_AT THEN -1 ELSE local.sequence + 1]
  /\ UNCHANGED <<current_state, move_stage, greetVars, position, worldVars, ghosts>>

\* FBT1::tick
Tick == CalibrationTick \/ WaitingTick \/ GreetTurnsAway \/ GreetTick \/ ObservingTick

-----------------------------------------------------------------------------
(* What comes from outside                                                 *)

\* Observing starts to tell somebody something, in the place of what it told.
StartSequence ==
  /\ current_state = Observing
  /\ local' = [sequence |-> 0]
  /\ UNCHANGED <<current_state, move_stage, greetVars, robotVars, worldVars, ghosts>>

\* The operator types "learn <name>".  The queue fills while Greet is not active.
Learn(n) ==
  /\ Len(inbox) < MaxInbox
  /\ inbox' = Append(inbox, [name |-> n, given |-> IF current_state = Greet THEN "here" ELSE "elsewhere"])
  /\ UNCHANGED <<current_state, local, move_stage, person_switch_timer, already_greeted_ids, robotVars, worldVars, ghosts>>

\* The cameras see the calibration marker.
SourcesCalibrate ==
  /\ ~calibrated
  /\ calibrated' = TRUE
  /\ UNCHANGED <<stateVars, robotVars, persons, tracked, ghosts>>

\* A person object is seen or lost.  A person who gets a name is a new one.
PersonSeen(p) ==
  /\ p \notin tracked
  /\ p[2] # NoName => \A q \in persons : q[2] = p[2] => q = p
  /\ persons' = persons \cup {p}
  /\ tracked' = tracked \cup {p}
  /\ UNCHANGED <<stateVars, robotVars, calibrated, ghosts>>

PersonLost(p) ==
  /\ p \in tracked
  /\ tracked' = tracked \ {p}
  /\ UNCHANGED <<stateVars, robotVars, calibrated, persons, ghosts>>

ExecutorNext ==
  \/ Tick \/ NextOrBack \/ Confirm \/ StartSequence \/ SourcesCalibrate
  \/ \E n \in Names : Learn(n)
  \/ \E p \in Ids \X (Names \cup {NoName}) : PersonSeen(p) \/ PersonLost(p)

ExecutorSpec == ExecutorInit /\ [][ExecutorNext]_vars

\* The module is ticked for ever, and the cameras see the marker, which stands
\* in front of the robot during calibration.
ExecutorFairSpec == ExecutorSpec /\ WF_vars(Tick) /\ WF_vars(SourcesCalibrate)

-----------------------------------------------------------------------------
(* Properties                                                              *)

\* The arm is raised only in a greeting before the name is asked for, or in a
\* sequence: whatever raises it also lowers it, unless the operator goes to
\* another state in between.
RaisedArmIsLowered ==
  arm # "rest" /\ ~cut =>
    \/ current_state = Greet /\ local.in_progress /\ local.confirm_counter <= 1
    \/ current_state = Observing /\ local.sequence >= 0

\* A name that was typed while another state was active, and waited in the
\* queue, is taken for the name of the person being greeted only if the
\* greeting began before Greet had read its commands.
NameOfThisGreeting ==
  current_state = Greet /\ local.in_progress /\ local.newly_learned # NoName /\ local.given = "elsewhere"
    => pressedEarly

\* Every movement starts from a known position, unless the operator has left
\* the calibration before it found one.
MovesFromKnownPosition == lost => skipped

\* The first calibration completes when the cameras have seen the marker, or
\* the operator goes on.  (A later one may wait for ever: move_stage is not
\* reset, and the mark MOVE_AT may pass before the cameras are done.)
CalibrationCompletes ==
  (current_state = Calibration /\ move_stage = 0) ~> (current_state # Calibration)

-----------------------------------------------------------------------------
(* The inductive invariants behind the three safety properties.            *)

GreetType ==
  [in_progress : BOOLEAN, target : Ids \cup {0}, counter : Nat, confirm_counter : 0 .. 2, confirm_flag : BOOLEAN,
   newly_learned : Names \cup {NoName}, given : {"none", "here", "elsewhere"}, ticked : BOOLEAN]

\* The members that local holds are those of the active state.
ExecutorTypeOK ==
  /\ current_state \in Calibration .. Observing
  /\ current_state = Calibration => local \in [counter : Nat]
  /\ current_state = Waiting => local \in [done : BOOLEAN]
  /\ current_state = Greet => local \in GreetType
  /\ current_state = Observing => local \in [sequence : Nat \cup {-1}]
  /\ move_stage \in {0, 1}
  /\ inbox \in Seq([name : Names, given : {"here", "elsewhere"}])
  /\ arm \in {"rest", "handshake", "pointing"}
  /\ position \in {"set", "unset"}
  /\ persons \subseteq Ids \X (Names \cup {NoName}) /\ tracked \subseteq persons
  /\ cut \in BOOLEAN /\ skipped \in BOOLEAN /\ lost \in BOOLEAN /\ pressedEarly \in BOOLEAN

\* The position is known once the first stage of the calibration is over, and
\* a state that is not the calibration was reached through that or by skipping.
PositionInv ==
  /\ move_stage # 0 => position = "set"
  /\ current_state # Calibration /\ position = "unset" => skipped

\* A sequence has lowered the arm when it is past the tick at which it does.
SequenceInv == current_state = Observing /\ ~cut /\ local.sequence > REST_AT => arm = "rest"

\* Once Greet has read its commands, those that wait were typed in Greet; a
\* greeting is in progress only after it has read them.
CommandsInv ==
  current_state = Greet =>
    /\ local.ticked => \A i \in DOMAIN inbox : inbox[i].given = "here"
    /\ local.in_progress => local.ticked
=============================================================================
