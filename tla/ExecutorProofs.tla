---------------------------- MODULE ExecutorProofs ----------------------------
(***************************************************************************)
(* Proofs about Executor: what the operator's commands, which may come at  *)
(* any moment and in any state, cannot upset.  Each safety property is     *)
(* proved from the type invariant and one invariant of its own.            *)
(*                                                                         *)
(* And about Observing, the state whose reasoning is modelled on its own:  *)
(* for any things, boxes and persons, any number of events in a tick and   *)
(* any number of sessions, the robot's picture of the table is right,      *)
(* persons who were there share it, informing helps, and the process dies  *)
(* only in the situations that FailsOnlyWhen lists.                        *)
(***************************************************************************)
EXTENDS Executor, Observing, SequenceTheorems, TLAPS

USE DEF Calibration, Waiting, Greet, Observing

-----------------------------------------------------------------------------
(* Types                                                                   *)

\* enter gives a state members of their types.
LEMMA EnteredType ==
  /\ Entered(Calibration) \in [counter : Nat]
  /\ Entered(Waiting) \in [done : BOOLEAN]
  /\ Entered(Greet) \in GreetType
  /\ Entered(Observing) \in [sequence : Nat \cup {-1}]
BY DEF Entered, Idle, GreetType

\* goto_state keeps the types.
LEMMA GotoStateType ==
  ASSUME ExecutorTypeOK, NEW s, GotoState(s) PROVE ExecutorTypeOK'
BY EnteredType DEF ExecutorTypeOK, GotoState, MoveTo, greetVars

\* One member at a time may be assigned.
LEMMA Assigned ==
  ASSUME NEW g \in GreetType
  PROVE  /\ \A x \in BOOLEAN : [g EXCEPT !.confirm_flag = x] \in GreetType
         /\ \A x \in 0 .. 2 : [g EXCEPT !.confirm_counter = x] \in GreetType
         /\ \A x \in Nat : [g EXCEPT !.counter = x] \in GreetType
         /\ \A x \in Ids \cup {0} : [g EXCEPT !.target = x] \in GreetType
         /\ \A x \in BOOLEAN : [g EXCEPT !.in_progress = x] \in GreetType
         /\ \A x \in BOOLEAN : [g EXCEPT !.ticked = x] \in GreetType
         /\ \A x \in Names \cup {NoName} : [g EXCEPT !.newly_learned = x] \in GreetType
         /\ \A x \in {"here", "elsewhere"} : [g EXCEPT !.given = x] \in GreetType
BY DEF GreetType

\* The last command that waits is one.
LEMMA LastCommand ==
  ASSUME NEW S, NEW q \in Seq(S), q # <<>> PROVE Len(q) \in DOMAIN q /\ Last(q) = q[Len(q)] /\ Last(q) \in S
<1>1. Len(q) \in 1 .. Len(q)
  BY EmptySeq, LenProperties
<1>2. q[Len(q)] \in S
  BY <1>1, ElementOfSeq
<1> QED
  BY <1>1, <1>2, LenProperties DEF Last

\* terminal_cmd keeps the types of Greet.
LEMMA AfterInboxType ==
  ASSUME NEW g \in GreetType, inbox \in Seq([name : Names, given : {"here", "elsewhere"}])
  PROVE  AfterInbox(g) \in GreetType
<1>1. CASE inbox = <<>>
  BY <1>1 DEF AfterInbox
<1>2. CASE inbox # <<>>
  <2>1. Last(inbox) \in [name : Names, given : {"here", "elsewhere"}]
    BY <1>2, LastCommand
  <2>2. Last(inbox).name \in Names \cup {NoName} /\ Last(inbox).given \in {"here", "elsewhere"}
    BY <2>1
  <2> DEFINE h == [g EXCEPT !.newly_learned = Last(inbox).name]
  <2>3. h \in GreetType
    BY <2>2, Assigned
  <2> HIDE DEF h
  <2>4. [h EXCEPT !.given = Last(inbox).given] \in GreetType
    BY <2>2, <2>3, Assigned
  <2> QED
    BY <1>2, <2>4 DEF AfterInbox, h
<1> QED
  BY <1>1, <1>2

\* A step of a greeting keeps the types of Greet.
LEMMA GreetingStepType ==
  ASSUME NEW g \in GreetType PROVE GreetingStep(g) \in GreetType
<1> DEFINE h == [g EXCEPT !.confirm_flag = FALSE]
           k == [h EXCEPT !.confirm_counter = 2]
<1>1. h \in GreetType
  BY Assigned
<1> HIDE DEF h
<1>2. [h EXCEPT !.confirm_counter = 1] \in GreetType /\ k \in GreetType
  <2>1. 1 \in 0 .. 2 /\ 2 \in 0 .. 2
    OBVIOUS
  <2> QED
    BY <1>1, <2>1, Assigned, Zenon
<1> HIDE DEF k
<1>3. [k EXCEPT !.counter = 0] \in GreetType
  BY <1>2, Assigned
<1>4. Idle \in GreetType /\ g.target \in Ids \cup {0}
  BY DEF GreetType, Idle
<1>5. [Idle EXCEPT !.target = g.target] \in GreetType
  BY <1>4, Assigned
<1>6. \/ GreetingStep(g) = g
      \/ GreetingStep(g) = [h EXCEPT !.confirm_counter = 1]
      \/ GreetingStep(g) = [k EXCEPT !.counter = 0]
      \/ GreetingStep(g) = [Idle EXCEPT !.target = g.target]
  <2>0. (0 # 1 /\ 0 # 2 /\ 1 # 2) /\ [h EXCEPT !.confirm_counter = 1] = [g EXCEPT !.confirm_flag = FALSE, !.confirm_counter = 1]
    BY DEF h
  <2>1. CASE g.in_progress /\ g.confirm_counter = 0 /\ g.confirm_flag
    BY <2>0, <2>1, Zenon DEF GreetingStep
  <2>2. CASE g.in_progress /\ g.confirm_counter = 1 /\ g.confirm_flag
    BY <2>0, <2>2, Zenon DEF GreetingStep, h, k
  <2>3. CASE g.in_progress /\ g.confirm_counter = 2 /\ g.counter > NAME_AFTER /\ (NameKnown(g) \/ g.confirm_flag)
    BY <2>0, <2>3, Zenon DEF GreetingStep
  <2> QED
    BY <2>1, <2>2, <2>3, Zenon DEF GreetingStep
<1> QED
  BY <1>2, <1>3, <1>5, <1>6

\* A greeting begins with members of their types.
LEMMA BeginGreetingType ==
  ASSUME NEW id \in Ids PROVE BeginGreeting(id) \in GreetType
<1> DEFINE h == [Idle EXCEPT !.in_progress = TRUE]
<1>1. Idle \in GreetType
  BY DEF GreetType, Idle
<1>2. h \in GreetType
  BY <1>1, Assigned
<1> HIDE DEF h
<1>3. [h EXCEPT !.target = id] \in GreetType
  BY <1>2, Assigned
<1> QED
  BY <1>3 DEF BeginGreeting, h

\* A counter that stops at a bound is a number.
LEMMA UptoType ==
  ASSUME NEW b \in Nat, NEW n \in Nat PROVE Upto(b, n) \in Nat
BY DEF Upto

\* The members of the active state and of the robot have their types.
THEOREM ExecutorTypeCorrect == ExecutorSpec => []ExecutorTypeOK
<1>1. ExecutorInit => ExecutorTypeOK
  <2> SUFFICES ASSUME ExecutorInit PROVE ExecutorTypeOK
    OBVIOUS
  <2>1. local \in [counter : Nat]
    BY EnteredType DEF ExecutorInit
  <2>2. inbox \in Seq([name : Names, given : {"here", "elsewhere"}])
    BY DEF ExecutorInit
  <2>3. cut \in BOOLEAN /\ skipped \in BOOLEAN /\ lost \in BOOLEAN /\ pressedEarly \in BOOLEAN
    BY DEF ExecutorInit
  <2> QED
    BY <2>1, <2>2, <2>3 DEF ExecutorInit, ExecutorTypeOK
<1>2. ExecutorTypeOK /\ [ExecutorNext]_vars => ExecutorTypeOK'
  <2> SUFFICES ASSUME ExecutorTypeOK, [ExecutorNext]_vars PROVE ExecutorTypeOK'
    OBVIOUS
  <2>1. CASE CalibrationTick
    <3>1. CalibrationCounter(TRUE) \in Nat /\ CalibrationCounter(FALSE) \in Nat
      BY <2>1, ExecutorAssumption DEF CalibrationTick, CalibrationCounter, ExecutorTypeOK
    <3>2. current_state' \in {Calibration, Waiting}
      BY <2>1 DEF CalibrationTick
    <3>3. current_state' = Calibration => local' \in [counter : Nat]
      <4>1. Upto(MOVE_AT + 1, CalibrationCounter(calibrated /\ ~(local.counter = REQUEST_AT) /\ move_stage = 0) + 1) \in Nat
        <5> DEFINE c == CalibrationCounter(calibrated /\ ~(local.counter = REQUEST_AT) /\ move_stage = 0)
        <5>1. c \in Nat
          BY <3>1, Zenon DEF CalibrationCounter
        <5> HIDE DEF c
        <5>2. MOVE_AT + 1 \in Nat /\ c + 1 \in Nat
          BY <5>1, ExecutorAssumption
        <5>3. Upto(MOVE_AT + 1, c + 1) \in Nat
          BY <5>2, UptoType
        <5> QED
          BY <5>3 DEF c
      <4> QED
        BY <2>1, <4>1 DEF CalibrationTick
    <3>4. current_state' = Waiting => local' \in [done : BOOLEAN]
      BY <2>1, EnteredType DEF CalibrationTick
    <3>5. move_stage' \in {0, 1} /\ position' \in {"set", "unset"}
      BY <2>1 DEF CalibrationTick, PositionAfter, ExecutorTypeOK
    <3>6. lost' \in BOOLEAN /\ cut' \in BOOLEAN
      BY <2>1 DEF CalibrationTick
    <3> QED
      BY <2>1, <3>2, <3>3, <3>4, <3>5, <3>6 DEF CalibrationTick, ExecutorTypeOK, greetVars
  <2>2. CASE WaitingTick
    BY <2>2, GotoStateType DEF WaitingTick
  <2>3. CASE GreetTurnsAway
    BY <2>3 DEF GreetTurnsAway, Others, ExecutorTypeOK, GreetType, robotVars, worldVars, ghosts
  <2>4. CASE GreetTick
    <3>1. PICK begun \in IF Begins THEN {BeginGreeting(p[1]) : p \in Strangers} ELSE {local} :
            /\ local' = [GreetingStep(AfterInbox(begun)) EXCEPT !.counter = Upto(GreetCounterEnd, @ + 1),
                                                               !.ticked = TRUE]
            /\ arm' = ArmAfter(AfterInbox(begun))
      BY <2>4 DEF GreetTick
    <3>2. begun \in GreetType
      <4>1. CASE Begins
        <5>1. PICK p \in Strangers : begun = BeginGreeting(p[1])
          BY <3>1, <4>1
        <5>2. p[1] \in Ids
          BY <5>1 DEF Strangers, ExecutorTypeOK
        <5> QED
          BY <5>1, <5>2, BeginGreetingType
      <4>2. CASE ~Begins
        BY <2>4, <3>1, <4>2 DEF GreetTick, ExecutorTypeOK
      <4> QED
        BY <4>1, <4>2
    <3>3. GreetingStep(AfterInbox(begun)) \in GreetType
      BY <3>2, AfterInboxType, GreetingStepType DEF ExecutorTypeOK
    <3> DEFINE end == GreetingStep(AfterInbox(begun))
               h   == [end EXCEPT !.counter = Upto(GreetCounterEnd, end.counter + 1)]
    <3>4. Upto(GreetCounterEnd, end.counter + 1) \in Nat
      <4>1. GreetCounterEnd \in Nat
        BY ExecutorAssumption DEF GreetCounterEnd
      <4> HIDE DEF end
      <4>2. end.counter + 1 \in Nat
        BY <3>3 DEF GreetType, end
      <4> QED
        BY <4>1, <4>2, UptoType
    <3>5. h \in GreetType
      BY <3>3, <3>4, Assigned
    <3>6. local' = [h EXCEPT !.ticked = TRUE]
      BY <3>1
    <3> HIDE DEF h
    <3>7. local' \in GreetType
      BY <3>5, <3>6, Assigned
    <3>8. arm' \in {"rest", "handshake", "pointing"}
      BY <3>1 DEF ArmAfter, ExecutorTypeOK
    <3>9. pressedEarly' \in BOOLEAN
      BY <2>4 DEF GreetTick, ExecutorTypeOK
    <3>10. inbox' \in Seq([name : Names, given : {"here", "elsewhere"}])
      BY <2>4 DEF GreetTick
    <3> QED
      BY <2>4, <3>7, <3>8, <3>9, <3>10 DEF GreetTick, ExecutorTypeOK, worldVars
  <2>5. CASE ObservingTick
    BY <2>5 DEF ObservingTick, ExecutorTypeOK, greetVars, worldVars, ghosts
  <2>6. CASE NextOrBack
    BY <2>6, GotoStateType DEF NextOrBack
  <2>7. CASE Confirm
    <3>1. current_state = Waiting => local' \in [done : BOOLEAN]
      <4>1. current_state = Waiting => current_state # Greet
        OBVIOUS
      <4>2. current_state = Waiting => local' = [done |-> TRUE]
        BY <2>7, <4>1, Zenon DEF Confirm
      <4>3. [done |-> TRUE] \in [done : BOOLEAN]
        OBVIOUS
      <4> QED
        BY <4>2, <4>3, Zenon
    <3>2. current_state = Greet => local' \in GreetType
      BY <2>7, Assigned DEF Confirm, ExecutorTypeOK
    <3> QED
      BY <2>7, <3>1, <3>2 DEF Confirm, ExecutorTypeOK, greetVars, robotVars, worldVars, ghosts
  <2>8. CASE StartSequence
    BY <2>8 DEF StartSequence, ExecutorTypeOK, greetVars, robotVars, worldVars, ghosts
  <2>9. CASE SourcesCalibrate
    BY <2>9 DEF SourcesCalibrate, ExecutorTypeOK, stateVars, greetVars, robotVars, ghosts
  <2>10. ASSUME NEW n \in Names, Learn(n) PROVE ExecutorTypeOK'
    BY <2>10 DEF Learn, ExecutorTypeOK, robotVars, worldVars, ghosts
  <2>11. ASSUME NEW p \in Ids \X (Names \cup {NoName}), PersonSeen(p) \/ PersonLost(p) PROVE ExecutorTypeOK'
    BY <2>11 DEF PersonSeen, PersonLost, ExecutorTypeOK, stateVars, greetVars, robotVars, ghosts
  <2>12. CASE UNCHANGED vars
    BY <2>12 DEF vars, ExecutorTypeOK, stateVars, greetVars, robotVars, worldVars, ghosts
  <2> QED
    BY <2>1, <2>2, <2>3, <2>4, <2>5, <2>6, <2>7, <2>8, <2>9, <2>10, <2>11, <2>12 DEF ExecutorNext, Tick
<1> QED
  BY <1>1, <1>2, PTL DEF ExecutorSpec

-----------------------------------------------------------------------------
(* Movements start from a known position                                   *)

\* The position is known after the first stage of the calibration.
THEOREM PositionInvariant == ExecutorSpec => [](PositionInv /\ MovesFromKnownPosition)
<1> DEFINE Inv == PositionInv /\ MovesFromKnownPosition
<1>1. ExecutorInit => Inv
  BY DEF ExecutorInit, PositionInv, MovesFromKnownPosition
<1>2. Inv /\ [ExecutorNext]_vars => Inv'
  <2> SUFFICES ASSUME Inv, [ExecutorNext]_vars PROVE Inv'
    OBVIOUS
  <2>1. ASSUME NEW s, GotoState(s) PROVE Inv'
    BY <2>1 DEF GotoState, MoveTo, PositionInv, MovesFromKnownPosition
  <2>2. CASE CalibrationTick
    <3> DEFINE done  == calibrated /\ local.counter # REQUEST_AT
               first == done /\ move_stage = 0
               ready == done /\ CalibrationCounter(first) = MOVE_AT
    <3>1. ready => position = "set"
      <4>1. first => CalibrationCounter(first) # MOVE_AT
        BY ExecutorAssumption DEF CalibrationCounter
      <4>2. ready => move_stage # 0
        BY <4>1
      <4> QED
        BY <4>2 DEF PositionInv
    <3>2. lost' <=> lost
      BY <2>2, <3>1 DEF CalibrationTick
    <3>3. move_stage' # 0 => position' = "set"
      BY <2>2, <3>1 DEF CalibrationTick, PositionAfter, PositionInv
    <3>4. current_state' # Calibration => position' = "set"
      BY <2>2 DEF CalibrationTick
    <3>5. skipped' = skipped
      BY <2>2 DEF CalibrationTick
    <3> QED
      BY <3>2, <3>3, <3>4, <3>5 DEF PositionInv, MovesFromKnownPosition
  <2>3. CASE UNCHANGED <<current_state, move_stage, position, lost, skipped>>
    BY <2>3 DEF PositionInv, MovesFromKnownPosition
  <2>4. CASE GreetTurnsAway \/ GreetTick \/ ObservingTick \/ Confirm \/ StartSequence \/ SourcesCalibrate
    BY <2>3, <2>4 DEF GreetTurnsAway, GreetTick, ObservingTick, Confirm, StartSequence, SourcesCalibrate,
                      stateVars, robotVars, ghosts
  <2>5. ASSUME NEW n \in Names, Learn(n) PROVE Inv'
    BY <2>3, <2>5 DEF Learn, robotVars, ghosts
  <2>6. ASSUME NEW p \in Ids \X (Names \cup {NoName}), PersonSeen(p) \/ PersonLost(p) PROVE Inv'
    BY <2>3, <2>6 DEF PersonSeen, PersonLost, stateVars, robotVars, ghosts
  <2>7. CASE UNCHANGED vars
    BY <2>3, <2>7 DEF vars, stateVars, robotVars, ghosts
  <2> QED
    BY <2>1, <2>2, <2>4, <2>5, <2>6, <2>7 DEF ExecutorNext, Tick, WaitingTick, NextOrBack
<1> QED
  BY <1>1, <1>2, PTL DEF ExecutorSpec

\* Every movement starts from a known position, unless the operator has left
\* the calibration before it found one (Robot::move_to, Calibration::tick).
THEOREM KnownPosition == ExecutorSpec => []MovesFromKnownPosition
BY PositionInvariant, PTL

-----------------------------------------------------------------------------
(* What a tick of Greet leaves of a greeting                               *)

\* terminal_cmd changes the name only.
LEMMA AfterInboxKeeps ==
  ASSUME NEW g \in GreetType
  PROVE  /\ AfterInbox(g).in_progress = g.in_progress
         /\ AfterInbox(g).confirm_counter = g.confirm_counter
         /\ AfterInbox(g).confirm_flag = g.confirm_flag
         /\ inbox = <<>> => AfterInbox(g) = g
         /\ inbox # <<>> => AfterInbox(g).given = Last(inbox).given
<1>1. CASE inbox = <<>>
  BY <1>1 DEF AfterInbox
<1>2. CASE inbox # <<>>
  BY <1>2 DEF AfterInbox, GreetType
<1> QED
  BY <1>1, <1>2

\* A step of a greeting keeps the name as long as the greeting goes on, and
\* ends it, or asks for the name, only on a confirmation.
LEMMA GreetingStepKeeps ==
  ASSUME NEW g \in GreetType
  PROVE  /\ GreetingStep(g).in_progress =>
              /\ g.in_progress
              /\ GreetingStep(g).newly_learned = g.newly_learned
              /\ GreetingStep(g).given = g.given
         /\ g.in_progress /\ g.confirm_counter <= 1 /\ ~(g.confirm_counter = 1 /\ g.confirm_flag) =>
              GreetingStep(g).in_progress /\ GreetingStep(g).confirm_counter <= 1
<1>0. 0 # 1 /\ 0 # 2 /\ 1 # 2
  OBVIOUS
<1>1. CASE g.in_progress /\ g.confirm_counter = 0 /\ g.confirm_flag
  <2>1. GreetingStep(g) = [g EXCEPT !.confirm_flag = FALSE, !.confirm_counter = 1]
    BY <1>0, <1>1, Zenon DEF GreetingStep
  <2> QED
    BY <1>1, <2>1 DEF GreetType
<1>2. CASE g.in_progress /\ g.confirm_counter = 1 /\ g.confirm_flag
  <2>1. GreetingStep(g) = [g EXCEPT !.confirm_flag = FALSE, !.confirm_counter = 2, !.counter = 0]
    BY <1>0, <1>2, Zenon DEF GreetingStep
  <2> QED
    BY <1>2, <2>1 DEF GreetType
<1>3. CASE g.in_progress /\ g.confirm_counter = 2 /\ g.counter > NAME_AFTER /\ (NameKnown(g) \/ g.confirm_flag)
  <2>1. GreetingStep(g) = [Idle EXCEPT !.target = g.target]
    BY <1>0, <1>3, Zenon DEF GreetingStep
  <2>2. ~GreetingStep(g).in_progress
    BY <2>1 DEF Idle
  <2> QED
    BY <1>3, <2>2
<1>4. CASE /\ ~(g.in_progress /\ g.confirm_counter = 0 /\ g.confirm_flag)
           /\ ~(g.in_progress /\ g.confirm_counter = 1 /\ g.confirm_flag)
           /\ ~(g.in_progress /\ g.confirm_counter = 2 /\ g.counter > NAME_AFTER /\ (NameKnown(g) \/ g.confirm_flag))
  <2>1. GreetingStep(g) = g
    BY <1>4, Zenon DEF GreetingStep
  <2> QED
    BY <2>1
<1> QED
  BY <1>1, <1>2, <1>3, <1>4, Zenon

\* What a tick of Greet makes of the members, in the terms of the above.
LEMMA GreetTickIs ==
  ASSUME ExecutorTypeOK, GreetTick
  PROVE  \E begun \in GreetType :
           /\ IF Begins THEN begun.newly_learned = NoName ELSE begun = local
           /\ AfterInbox(begun) \in GreetType
           /\ GreetingStep(AfterInbox(begun)) \in GreetType
           /\ arm' = ArmAfter(AfterInbox(begun))
           /\ local'.in_progress = GreetingStep(AfterInbox(begun)).in_progress
           /\ local'.confirm_counter = GreetingStep(AfterInbox(begun)).confirm_counter
           /\ local'.newly_learned = GreetingStep(AfterInbox(begun)).newly_learned
           /\ local'.given = GreetingStep(AfterInbox(begun)).given
           /\ local'.ticked
<1>1. PICK begun \in IF Begins THEN {BeginGreeting(p[1]) : p \in Strangers} ELSE {local} :
        /\ local' = [GreetingStep(AfterInbox(begun)) EXCEPT !.counter = Upto(GreetCounterEnd, @ + 1), !.ticked = TRUE]
        /\ arm' = ArmAfter(AfterInbox(begun))
  BY DEF GreetTick
<1>2. begun \in GreetType /\ IF Begins THEN begun.newly_learned = NoName ELSE begun = local
  <2>1. CASE Begins
    <3>1. PICK p \in Strangers : begun = BeginGreeting(p[1])
      BY <1>1, <2>1
    <3>2. p[1] \in Ids
      BY <3>1 DEF Strangers, ExecutorTypeOK
    <3>3. BeginGreeting(p[1]).newly_learned = NoName
      BY DEF BeginGreeting, Idle
    <3> QED
      BY <2>1, <3>1, <3>2, <3>3, BeginGreetingType
  <2>2. CASE ~Begins
    BY <1>1, <2>2 DEF GreetTick, ExecutorTypeOK
  <2> QED
    BY <2>1, <2>2
<1>3. AfterInbox(begun) \in GreetType /\ GreetingStep(AfterInbox(begun)) \in GreetType
  BY <1>2, AfterInboxType, GreetingStepType DEF ExecutorTypeOK
<1>4. ASSUME NEW e \in GreetType, NEW n, local' = [e EXCEPT !.counter = n, !.ticked = TRUE]
      PROVE  /\ local'.in_progress = e.in_progress /\ local'.confirm_counter = e.confirm_counter
             /\ local'.newly_learned = e.newly_learned /\ local'.given = e.given /\ local'.ticked
  BY <1>4 DEF GreetType
<1> DEFINE end == GreetingStep(AfterInbox(begun))
<1>5. /\ local'.in_progress = end.in_progress /\ local'.confirm_counter = end.confirm_counter
      /\ local'.newly_learned = end.newly_learned /\ local'.given = end.given /\ local'.ticked
  BY <1>1, <1>3, <1>4
<1> QED
  BY <1>1, <1>2, <1>3, <1>5

-----------------------------------------------------------------------------
(* Whoever raises the arm lowers it                                        *)

\* The arm stays with the greeting or the sequence that raised it.
THEOREM ArmInvariant == ExecutorSpec => [](SequenceInv /\ RaisedArmIsLowered)
<1> DEFINE Inv == SequenceInv /\ RaisedArmIsLowered
<1>1. ExecutorInit => Inv
  BY DEF ExecutorInit, SequenceInv, RaisedArmIsLowered
<1>2. ExecutorTypeOK /\ Inv /\ [ExecutorNext]_vars => Inv'
  <2> SUFFICES ASSUME ExecutorTypeOK, Inv, [ExecutorNext]_vars PROVE Inv'
    OBVIOUS
  <2>1. ASSUME NEW s, GotoState(s) PROVE Inv'
    BY <2>1 DEF GotoState, SequenceInv, RaisedArmIsLowered
  <2>2. CASE CalibrationTick
    <3>1. /\ current_state = Calibration /\ current_state' \in {Calibration, Waiting}
          /\ arm' = arm /\ (~cut' => ~cut)
      BY <2>2 DEF CalibrationTick
    <3> QED
      BY <3>1 DEF SequenceInv, RaisedArmIsLowered
  <2>3. CASE GreetTurnsAway
    <3>1. current_state = Greet /\ current_state' = Greet /\ ~local.in_progress /\ arm' = arm /\ cut' = cut
      BY <2>3 DEF GreetTurnsAway, TurnsAway, robotVars, ghosts
    <3> QED
      BY <3>1 DEF SequenceInv, RaisedArmIsLowered
  <2>4. CASE GreetTick
    <3>1. PICK begun \in GreetType :
            /\ IF Begins THEN begun.newly_learned = NoName ELSE begun = local
            /\ AfterInbox(begun) \in GreetType
            /\ arm' = ArmAfter(AfterInbox(begun))
            /\ local'.in_progress = GreetingStep(AfterInbox(begun)).in_progress
            /\ local'.confirm_counter = GreetingStep(AfterInbox(begun)).confirm_counter
      BY <2>4, GreetTickIs
    <3> DEFINE g == AfterInbox(begun)
    <3>2. current_state = Greet /\ current_state' = Greet /\ cut' = cut
      BY <2>4 DEF GreetTick
    <3>3. arm' # "rest" /\ ~cut =>
            g.in_progress /\ g.confirm_counter <= 1 /\ ~(g.confirm_counter = 1 /\ g.confirm_flag)
      <4> SUFFICES ASSUME arm' # "rest", ~cut
                   PROVE  g.in_progress /\ g.confirm_counter <= 1 /\ ~(g.confirm_counter = 1 /\ g.confirm_flag)
        OBVIOUS
      <4>1. CASE g.in_progress /\ g.confirm_counter = 0 /\ g.counter = SHAKE_AT
        BY <4>1
      <4>2. CASE g.in_progress /\ g.confirm_counter = 1 /\ g.confirm_flag
        <5>1. ArmAfter(g) = "rest"
          BY <4>2 DEF ArmAfter
        <5> QED
          BY <3>1, <5>1
      <4>3. CASE /\ ~(g.in_progress /\ g.confirm_counter = 0 /\ g.counter = SHAKE_AT)
                 /\ ~(g.in_progress /\ g.confirm_counter = 1 /\ g.confirm_flag)
        <5>1. arm' = arm
          BY <3>1, <4>3 DEF ArmAfter
        <5>2. local.in_progress /\ local.confirm_counter <= 1
          BY <3>2, <5>1 DEF RaisedArmIsLowered
        <5>3. begun = local
          BY <3>1, <5>2 DEF Begins
        <5>4. g.in_progress = local.in_progress /\ g.confirm_counter = local.confirm_counter
          BY <5>3, AfterInboxKeeps
        <5> QED
          BY <4>3, <5>2, <5>4
      <4> QED
        BY <4>1, <4>2, <4>3
    <3>4. arm' # "rest" /\ ~cut => local'.in_progress /\ local'.confirm_counter <= 1
      BY <3>1, <3>3, GreetingStepKeeps
    <3> QED
      BY <3>2, <3>4 DEF SequenceInv, RaisedArmIsLowered
  <2>5. CASE ObservingTick
    <3>1. /\ local.sequence \in Nat
          /\ local'.sequence = IF local.sequence = BACK_AT THEN -1 ELSE local.sequence + 1
      BY <2>5 DEF ObservingTick, ExecutorTypeOK
    <3>2. /\ local.sequence = POINT_AT => arm' = "pointing"
          /\ local.sequence = REST_AT => arm' = "rest"
          /\ local.sequence # POINT_AT /\ local.sequence # REST_AT => arm' = arm
      BY <2>5, ExecutorAssumption DEF ObservingTick
    <3>3. current_state = Observing /\ current_state' = Observing /\ cut' = cut
      BY <2>5 DEF ObservingTick, ghosts
    <3>4. POINT_AT \in Nat /\ REST_AT \in Nat /\ BACK_AT \in Nat /\ POINT_AT < REST_AT /\ REST_AT < BACK_AT
      BY ExecutorAssumption
    <3>5. SequenceInv'
      BY <3>1, <3>2, <3>3, <3>4 DEF SequenceInv
    <3>6. RaisedArmIsLowered'
      BY <3>1, <3>2, <3>3, <3>4 DEF SequenceInv, RaisedArmIsLowered
    <3> QED
      BY <3>5, <3>6
  <2>6. CASE StartSequence
    BY <2>6, ExecutorAssumption DEF StartSequence, SequenceInv, RaisedArmIsLowered, robotVars, ghosts
  <2>7. CASE Confirm
    <3>1. current_state' = current_state /\ arm' = arm /\ cut' = cut /\ current_state # Observing
      BY <2>7 DEF Confirm, robotVars, ghosts
    <3>2. current_state = Greet =>
            local'.in_progress = local.in_progress /\ local'.confirm_counter = local.confirm_counter
      BY <2>7 DEF Confirm, ExecutorTypeOK, GreetType
    <3> QED
      BY <3>1, <3>2 DEF SequenceInv, RaisedArmIsLowered
  <2>8. CASE UNCHANGED <<current_state, local, arm, cut>>
    BY <2>8 DEF SequenceInv, RaisedArmIsLowered
  <2>9. CASE SourcesCalibrate
    BY <2>8, <2>9 DEF SourcesCalibrate, stateVars, robotVars, ghosts
  <2>10. ASSUME NEW n \in Names, Learn(n) PROVE Inv'
    BY <2>8, <2>10 DEF Learn, robotVars, ghosts
  <2>11. ASSUME NEW p \in Ids \X (Names \cup {NoName}), PersonSeen(p) \/ PersonLost(p) PROVE Inv'
    BY <2>8, <2>11 DEF PersonSeen, PersonLost, stateVars, robotVars, ghosts
  <2>12. CASE UNCHANGED vars
    BY <2>8, <2>12 DEF vars, stateVars, robotVars, ghosts
  <2> QED
    BY <2>1, <2>2, <2>3, <2>4, <2>5, <2>6, <2>7, <2>9, <2>10, <2>11, <2>12 DEF ExecutorNext, Tick, WaitingTick, NextOrBack
<1> QED
  BY <1>1, <1>2, ExecutorTypeCorrect, PTL DEF ExecutorSpec

\* The arm is raised only in a greeting before the name is asked for, or in a
\* sequence, unless the operator left that state (Greet::tick,
\* ShowBoxSequence::tick).
THEOREM ArmIsLowered == ExecutorSpec => []RaisedArmIsLowered
BY ArmInvariant, PTL

-----------------------------------------------------------------------------
(* The name a greeting takes                                               *)

\* Once Greet has read its commands, those that wait were typed in Greet.
THEOREM CommandsInvariant == ExecutorSpec => [](CommandsInv /\ NameOfThisGreeting)
<1> DEFINE Inv == CommandsInv /\ NameOfThisGreeting
<1>1. ExecutorInit => Inv
  BY DEF ExecutorInit, CommandsInv, NameOfThisGreeting
<1>2. ExecutorTypeOK /\ Inv /\ [ExecutorNext]_vars => Inv'
  <2> SUFFICES ASSUME ExecutorTypeOK, Inv, [ExecutorNext]_vars PROVE Inv'
    OBVIOUS
  <2>1. ASSUME NEW s, GotoState(s) PROVE Inv'
    <3>1. current_state' = Greet => ~local'.in_progress /\ ~local'.ticked
      BY <2>1 DEF GotoState, Entered, Idle
    <3> QED
      BY <3>1 DEF CommandsInv, NameOfThisGreeting
  <2>2. CASE CalibrationTick
    BY <2>2 DEF CalibrationTick, CommandsInv, NameOfThisGreeting
  <2>3. CASE GreetTurnsAway
    <3>1. /\ current_state' = current_state /\ inbox' = inbox /\ pressedEarly' = pressedEarly
          /\ current_state = Greet
          /\ local'.in_progress = local.in_progress /\ local'.ticked = local.ticked
          /\ local'.newly_learned = local.newly_learned /\ local'.given = local.given
      BY <2>3 DEF GreetTurnsAway, ghosts, ExecutorTypeOK, GreetType
    <3> QED
      BY <3>1 DEF CommandsInv, NameOfThisGreeting
  <2>4. CASE GreetTick
    <3>1. PICK begun \in GreetType :
            /\ IF Begins THEN begun.newly_learned = NoName ELSE begun = local
            /\ AfterInbox(begun) \in GreetType
            /\ local'.in_progress = GreetingStep(AfterInbox(begun)).in_progress
            /\ local'.newly_learned = GreetingStep(AfterInbox(begun)).newly_learned
            /\ local'.given = GreetingStep(AfterInbox(begun)).given
            /\ local'.ticked
      BY <2>4, GreetTickIs
    <3> DEFINE g == AfterInbox(begun)
    <3>2. /\ current_state = Greet /\ current_state' = Greet /\ inbox' = <<>>
          /\ pressedEarly' = IF Begins THEN ~local.ticked ELSE pressedEarly
      BY <2>4 DEF GreetTick
    <3>3. CommandsInv'
      BY <3>1, <3>2 DEF CommandsInv
    <3>4. ASSUME local'.in_progress, local'.newly_learned # NoName, local'.given = "elsewhere"
          PROVE  pressedEarly'
      <4>1. g.in_progress /\ g.newly_learned # NoName /\ g.given = "elsewhere"
        BY <3>1, <3>4, GreetingStepKeeps
      <4>2. begun.in_progress
        BY <4>1, AfterInboxKeeps
      <4>3. CASE inbox = <<>>
        <5>1. g = begun
          BY <4>3, AfterInboxKeeps
        <5>2. ~Begins /\ begun = local
          BY <3>1, <4>1, <5>1
        <5> QED
          BY <3>2, <4>1, <5>1, <5>2 DEF NameOfThisGreeting
      <4>4. CASE inbox # <<>>
        <5>1. Last(inbox).given = "elsewhere"
          BY <4>1, <4>4, AfterInboxKeeps
        <5>2. Len(inbox) \in DOMAIN inbox /\ Last(inbox) = inbox[Len(inbox)]
          BY <4>4, LastCommand DEF ExecutorTypeOK
        <5>3. ~local.ticked
          BY <3>2, <5>1, <5>2 DEF CommandsInv
        <5>4. Begins
          BY <3>1, <3>2, <4>2, <5>3 DEF CommandsInv
        <5> QED
          BY <3>2, <5>3, <5>4
      <4> QED
        BY <4>3, <4>4
    <3> QED
      BY <3>3, <3>4 DEF NameOfThisGreeting
  <2>5. CASE ObservingTick \/ StartSequence
    BY <2>5 DEF ObservingTick, StartSequence, CommandsInv, NameOfThisGreeting
  <2>6. CASE Confirm
    <3>1. current_state' = current_state /\ inbox' = inbox /\ pressedEarly' = pressedEarly
      BY <2>6 DEF Confirm, greetVars, ghosts
    <3>2. current_state = Greet =>
            /\ local'.in_progress = local.in_progress /\ local'.ticked = local.ticked
            /\ local'.newly_learned = local.newly_learned /\ local'.given = local.given
      BY <2>6 DEF Confirm, ExecutorTypeOK, GreetType
    <3> QED
      BY <3>1, <3>2 DEF CommandsInv, NameOfThisGreeting
  <2>7. ASSUME NEW n \in Names, Learn(n) PROVE Inv'
    <3>1. current_state' = current_state /\ local' = local /\ pressedEarly' = pressedEarly
      BY <2>7 DEF Learn, ghosts
    <3>2. ASSUME current_state = Greet, local.ticked PROVE \A i \in DOMAIN inbox' : inbox'[i].given = "here"
      <4> DEFINE c == [name |-> n, given |-> "here"]
      <4>1. inbox' = Append(inbox, c)
        BY <2>7, <3>2 DEF Learn
      <4>2. inbox \in Seq([name : Names, given : {"here", "elsewhere"}]) /\ c \in [name : Names, given : {"here", "elsewhere"}]
        BY DEF ExecutorTypeOK
      <4>3. \A i \in DOMAIN inbox : inbox[i].given = "here"
        BY <3>2 DEF CommandsInv
      <4>4. /\ DOMAIN Append(inbox, c) = 1 .. Len(inbox) + 1
            /\ \A i \in 1 .. Len(inbox) + 1 : Append(inbox, c)[i] = IF i <= Len(inbox) THEN inbox[i] ELSE c
        BY <4>2, AppendProperties, LenProperties
      <4>5. DOMAIN inbox = 1 .. Len(inbox) /\ Len(inbox) \in Nat
        BY <4>2, LenProperties
      <4> HIDE DEF c
      <4>6. c.given = "here"
        BY DEF c
      <4> QED
        BY <4>1, <4>3, <4>4, <4>5, <4>6
    <3> QED
      BY <3>1, <3>2 DEF CommandsInv, NameOfThisGreeting
  <2>8. CASE UNCHANGED <<current_state, local, inbox, pressedEarly>>
    BY <2>8 DEF CommandsInv, NameOfThisGreeting
  <2>9. CASE SourcesCalibrate
    BY <2>8, <2>9 DEF SourcesCalibrate, stateVars, greetVars, ghosts
  <2>10. ASSUME NEW p \in Ids \X (Names \cup {NoName}), PersonSeen(p) \/ PersonLost(p) PROVE Inv'
    BY <2>8, <2>10 DEF PersonSeen, PersonLost, stateVars, greetVars, ghosts
  <2>11. CASE UNCHANGED vars
    BY <2>8, <2>11 DEF vars, stateVars, greetVars, ghosts
  <2> QED
    BY <2>1, <2>2, <2>3, <2>4, <2>5, <2>6, <2>7, <2>9, <2>10, <2>11 DEF ExecutorNext, Tick, WaitingTick, NextOrBack
<1> QED
  BY <1>1, <1>2, ExecutorTypeCorrect, PTL DEF ExecutorSpec

\* A name that was typed while another state was active is taken for that of
\* the person being greeted only if the greeting began before Greet had read
\* its commands (Greet::terminal_cmd, Greet::enter).
THEOREM NameIsOfThisGreeting == ExecutorSpec => []NameOfThisGreeting
BY CommandsInvariant, PTL

-----------------------------------------------------------------------------
(* The Observing state                                                     *)

\* A list of objects in any order that a tick of the world reports.
LEMMA OrdersType ==
  ASSUME NEW order \in Orders
  PROVE  \E n \in Nat : /\ order \in [1 .. n -> Objects]
                        /\ \A i, j \in 1 .. n : order[i] = order[j] => i = j
<1>1. PICK os \in SUBSET Objects : order \in SetToSeqs(os) /\ Cardinality(os) \in 1 .. MaxEvents
  BY DEF Orders
<1>2. Cardinality(os) \in Nat
  BY <1>1, ObservingAssumption
<1>3. /\ order \in [1 .. Cardinality(os) -> os]
      /\ \A i, j \in 1 .. Cardinality(os) : i # j => order[i] # order[j]
  BY <1>1 DEF SetToSeqs
<1> QED
  BY <1>2, <1>3

\* The things, the boxes and the persons are objects.
LEMMA ObjectKinds ==
  /\ Storables \subseteq Objects /\ Boxes \subseteq Objects /\ People \subseteq Objects
  /\ Cubes \subseteq Storables /\ Things \subseteq Storables
BY DEF Objects, Storables

-----------------------------------------------------------------------------
(* Type correctness                                                        *)

\* A step of the external library keeps facts and beliefs well typed.
LEMMA PerformDoType ==
  ASSUME ObservingTypeOK, NEW add \in SUBSET In, NEW del \in SUBSET In, PerformDo(add, del)
  PROVE  facts' \subseteq In /\ beliefs' \in [People -> SUBSET In]
BY DEF PerformDo, ObservingTypeOK

\* So does setting the domain up anew.
LEMMA SetupDomainType ==
  ASSUME ObservingTypeOK, SetupDomain
  PROVE  /\ facts' \subseteq In /\ beliefs' \in [People -> SUBSET In]
         /\ placed' \in [Storables -> SUBSET Boxes] /\ muddled' \subseteq Storables /\ missed' \subseteq People
BY DEF SetupDomain, Nowhere, ObservingTypeOK

\* A transformer takes the first event off the list.
LEMMA TransformType ==
  ASSUME ObservingTypeOK, NEW type, NEW o, Transform(type, o)
  PROVE  /\ active' = active /\ status' = status /\ sequence' = sequence /\ sessions' = sessions
         /\ events' \in Seq(Event)
         /\ active /\ crashed = "no"
         /\ events # <<>> /\ Head(events) = [type |-> type, obj |-> o] /\ events' = Tail(events)
BY DEF ObservingTypeOK, Transform

\* Informing a person keeps the types.
LEMMA InformType ==
  ASSUME ObservingTypeOK, NEW p \in People, NEW s \in Storables, NEW b \in Boxes, NEW x \in Boxes, Inform(p, s, b, x)
  PROVE  ObservingTypeOK'
<1>1. facts' \subseteq In /\ beliefs' \in [People -> SUBSET In]
  BY PerformDoType DEF Inform, In
<1>2. sequence' \in Telling
  BY DEF Inform, Telling
<1> QED
  BY <1>1, <1>2 DEF Inform, observingGhosts, ObservingTypeOK

\* Every step keeps the types.
LEMMA ObservingTypeStep == ObservingTypeOK /\ [ObservingNext]_observingVars => ObservingTypeOK'
<1> SUFFICES ASSUME ObservingTypeOK, [ObservingNext]_observingVars PROVE ObservingTypeOK'
  OBVIOUS
<1>1. CASE Enter
  <2>1. /\ facts' \subseteq In /\ beliefs' \in [People -> SUBSET In]
        /\ placed' \in [Storables -> SUBSET Boxes] /\ muddled' \subseteq Storables /\ missed' \subseteq People
    BY <1>1, SetupDomainType DEF Enter, Reset
  <2>2. <<>> \in Seq(Event)
    OBVIOUS
  <2> QED
    BY <1>1, <2>1, <2>2 DEF Enter, Reset, ClearWorld, ObservingTypeOK
<1>2. CASE Leave
  <2>1. <<>> \in Seq(Event)
    OBVIOUS
  <2> QED
    BY <1>2, <2>1 DEF Leave, ClearWorld, domainVars, observingGhosts, ObservingTypeOK
<1>3. CASE SequenceDone
  BY <1>3 DEF SequenceDone, domainVars, observingGhosts, ObservingTypeOK
<1>4. ASSUME NEW order \in Orders, WorldTick(order) PROVE ObservingTypeOK'
  <2>1. PICK n \in Nat : order \in [1 .. n -> Objects]
    BY OrdersType
  <2>2. \A o \in Objects : EventOf(o) \in EventTypes
    BY DEF EventOf, EventTypes, ObservingTypeOK
  <2>3. events' \in Seq(Event)
    BY <1>4, <2>1, <2>2 DEF WorldTick, Event
  <2>4. status' \in [Objects -> {"unseen", "Tracked", "Lost"}]
    BY <1>4 DEF WorldTick, ObservingTypeOK
  <2> QED
    BY <1>4, <2>3, <2>4 DEF WorldTick, domainVars, observingGhosts, ObservingTypeOK
<1>5. ASSUME NEW o \in Objects, ObjectNew(o) PROVE ObservingTypeOK'
  BY <1>5, TransformType, SetupDomainType DEF ObjectNew, AddObject, ObservingTypeOK
<1>6. ASSUME NEW p \in People, PersonAppears(p) PROVE ObservingTypeOK'
  BY <1>6, TransformType DEF PersonAppears, domainVars, ObservingTypeOK
<1>7. ASSUME NEW p \in People, PersonDisappears(p) PROVE ObservingTypeOK'
  BY <1>7, TransformType DEF PersonDisappears, domainVars, ObservingTypeOK
<1>8. ASSUME NEW s \in Storables, StorableAppears(s) PROVE ObservingTypeOK'
  <2>1. placed' \in [Storables -> SUBSET Boxes]
    BY <1>8 DEF StorableAppears, ObservingTypeOK
  <2>2. facts' \subseteq In /\ beliefs' \in [People -> SUBSET In]
    <3>1. s \in DOMAIN current_container => <<s, current_container[s]>> \in In
      BY DEF In, ObservingTypeOK
    <3> QED
      BY <1>8, <3>1, PerformDoType DEF StorableAppears, domainVars, ObservingTypeOK
  <2>3. /\ DOMAIN current_container' \subseteq Storables
        /\ current_container' \in [DOMAIN current_container' -> Boxes]
    BY <1>8 DEF StorableAppears, Without, ObservingTypeOK
  <2> QED
    BY <1>8, <2>1, <2>2, <2>3, TransformType DEF StorableAppears, ObservingTypeOK
<1>9. ASSUME NEW s \in Storables, NEW bs \in SUBSET Boxes, StorableDisappears(s, bs)
      PROVE  ObservingTypeOK'
  <2>1. placed' \in [Storables -> SUBSET Boxes] /\ muddled' \subseteq Storables
    BY <1>9 DEF StorableDisappears, ObservingTypeOK
  <2>2. facts' \subseteq In /\ beliefs' \in [People -> SUBSET In]
    <3>1. {s} \X bs \subseteq In
      BY DEF In
    <3>2. CASE PerformDo({s} \X bs, {})
      <4>1. {} \in SUBSET In /\ {s} \X bs \in SUBSET In
        BY <3>1
      <4> QED
        BY <3>2, <4>1, PerformDoType
    <3>3. CASE UNCHANGED domainVars
      BY <3>3 DEF domainVars, ObservingTypeOK
    <3> QED
      BY <1>9, <3>2, <3>3 DEF StorableDisappears
  <2>3. /\ DOMAIN current_container' \subseteq Storables
        /\ current_container' \in [DOMAIN current_container' -> Boxes]
    <3>1. CASE UNCHANGED current_container
      BY <3>1 DEF ObservingTypeOK
    <3>2. ASSUME NEW b \in bs,
                 current_container' =
                   [x \in DOMAIN current_container \cup {s} |-> IF x = s THEN b ELSE current_container[x]]
          PROVE  /\ DOMAIN current_container' \subseteq Storables
                 /\ current_container' \in [DOMAIN current_container' -> Boxes]
      BY <3>2 DEF ObservingTypeOK
    <3> QED
      BY <1>9, <3>1, <3>2 DEF StorableDisappears
  <2> QED
    BY <1>9, <2>1, <2>2, <2>3, TransformType DEF StorableDisappears, ObservingTypeOK
<1>10. ASSUME NEW p \in People, NEW b \in Boxes, IntentionTrigger(p, b) PROVE ObservingTypeOK'
  BY <1>10, InformType DEF IntentionTrigger, InformAboutBox, WronglyIn, PlaceOf
<1>11. ASSUME NEW p \in People, NEW s \in Cubes, GoalStatementTrigger(p, s) PROVE ObservingTypeOK'
  BY <1>11, InformType, ObjectKinds DEF GoalStatementTrigger, InformAboutCube, WrongBoxes, PlaceOf
<1>12. ASSUME NEW p \in People, NEW t \in Things, IntentionTriggerComplementary(p, t)
       PROVE  ObservingTypeOK'
  <2> DEFINE s == Matching[t]
  <2>1. s \in Storables
    BY <1>12, ObservingAssumption DEF IntentionTriggerComplementary
  <2>2. PICK b \in WrongBoxes(p, s) :
          \/ crashed' = "read" /\ UNCHANGED <<sequence, beliefs>>
          \/ \E x \in PlaceOf(s) :
               /\ sequence' = [by |-> "attention", agent |-> p, obj |-> s, box |-> x]
               /\ beliefs' \in {beliefs, [beliefs EXCEPT ![p] = (@ \ {<<s, b>>}) \cup {<<s, x>>}]}
               /\ UNCHANGED crashed
    BY <1>12 DEF IntentionTriggerComplementary, InformAboutObject
  <2> HIDE DEF s
  <2>3. /\ beliefs' \in [People -> SUBSET In]
        /\ sequence' \in Telling \cup {None}
        /\ crashed' \in {crashed, "read"}
    <3>1. CASE crashed' = "read" /\ UNCHANGED <<sequence, beliefs>>
      BY <3>1 DEF ObservingTypeOK
    <3>2. ASSUME NEW x \in PlaceOf(s),
                 sequence' = [by |-> "attention", agent |-> p, obj |-> s, box |-> x],
                 beliefs' \in {beliefs, [beliefs EXCEPT ![p] = (@ \ {<<s, b>>}) \cup {<<s, x>>}]}
          PROVE  /\ beliefs' \in [People -> SUBSET In]
                 /\ sequence' \in Telling
      <4>1. x \in Boxes /\ <<s, x>> \in In
        BY <2>1 DEF PlaceOf, In
      <4>2. beliefs' \in [People -> SUBSET In]
        BY <3>2, <4>1 DEF ObservingTypeOK
      <4> QED
        BY <2>1, <3>2, <4>1, <4>2 DEF Telling
    <3> QED
      BY <2>2, <3>1, <3>2
  <2> QED
    BY <1>12, <2>3 DEF IntentionTriggerComplementary, observingGhosts, ObservingTypeOK
<1>13. CASE UNCHANGED observingVars
  BY <1>13 DEF observingVars, ObservingTypeOK
<1> QED
  BY <1>1, <1>2, <1>3, <1>4, <1>5, <1>6, <1>7, <1>8, <1>9, <1>10, <1>11, <1>12, <1>13 DEF ObservingNext

LEMMA ObservingTypeInit == ObservingInit => ObservingTypeOK
<1>1. DOMAIN <<>> = {} /\ <<>> \in [{} -> Boxes] /\ <<>> \in Seq(Event)
  OBVIOUS
<1> QED
  <2> SUFFICES ASSUME ObservingInit PROVE ObservingTypeOK
    OBVIOUS
  <2>1. status \in [Objects -> {"unseen", "Tracked", "Lost"}]
    BY DEF ObservingInit
  <2>2. beliefs \in [People -> SUBSET In] /\ placed \in [Storables -> SUBSET Boxes]
    BY DEF ObservingInit, Nowhere
  <2>3. DOMAIN current_container = {} /\ current_container \in [DOMAIN current_container -> Boxes]
    BY <1>1 DEF ObservingInit
  <2> QED
    BY <1>1, <2>1, <2>2, <2>3 DEF ObservingInit, ObservingTypeOK

\* Every variable keeps its type, for any number of objects and sessions.
THEOREM ObservingTypeCorrect == ObservingSpec => []ObservingTypeOK
BY ObservingTypeInit, ObservingTypeStep, PTL DEF ObservingSpec

-----------------------------------------------------------------------------
(* The events of a tick                                                    *)

\* The event that waits for an object has one of the three types.
LEMMA PendingTypes ==
  ASSUME ObservingTypeOK, NEW x
  PROVE  /\ Pending(x) => x \in Objects
         /\ Pending(x) <=> PendingAs("NewObject", x) \/ PendingAs("Appear", x) \/ PendingAs("Disappear", x)
<1>1. \A i \in DOMAIN events : events[i] \in Event
  BY DEF ObservingTypeOK
<1>2. ASSUME NEW i \in DOMAIN events
      PROVE  /\ events[i].obj \in Objects /\ events[i].type \in EventTypes
             /\ events[i] = [type |-> events[i].type, obj |-> events[i].obj]
  BY <1>1 DEF Event
<1> QED
  BY <1>2 DEF Pending, PendingAs, EventTypes

\* No object has events of two types.
LEMMA PendingUnique ==
  ASSUME EventsInv, NEW x, NEW t1, NEW t2, PendingAs(t1, x), PendingAs(t2, x)
  PROVE  t1 = t2
<1>1. PICK i \in DOMAIN events : events[i] = [type |-> t1, obj |-> x]
  BY DEF PendingAs
<1>2. PICK j \in DOMAIN events : events[j] = [type |-> t2, obj |-> x]
  BY DEF PendingAs
<1>3. i = j
  BY <1>1, <1>2 DEF EventsInv
<1> QED
  BY <1>1, <1>2, <1>3

\* A transformer removes the event of one object, and leaves the others.
LEMMA TransformPending ==
  ASSUME ObservingTypeOK, EventsInv, NEW type, NEW o, Transform(type, o)
  PROVE  /\ o \in Objects /\ PendingAs(type, o)
         /\ \A x : Pending(x)' <=> Pending(x) /\ x # o
         /\ \A t, x : PendingAs(t, x)' <=> PendingAs(t, x) /\ x # o
         /\ \A i, j \in DOMAIN events' : events'[i].obj = events'[j].obj => i = j
<1>1. /\ events \in Seq(Event) /\ events # <<>>
      /\ events[1] = [type |-> type, obj |-> o]
  BY DEF ObservingTypeOK, Transform
<1>2. /\ events' \in Seq(Event) /\ DOMAIN events = 1 .. Len(events) /\ Len(events) \in Nat \ {0}
      /\ DOMAIN events' = 1 .. (Len(events) - 1)
      /\ \A i \in DOMAIN events' : events'[i] = events[i + 1]
  BY <1>1 DEF Transform
<1>3. events[1] \in Event
  BY <1>1, <1>2
<1>4. o \in Objects
  BY <1>1, <1>3 DEF Event
<1>5. PendingAs(type, o)
  BY <1>1, <1>2 DEF PendingAs
<1>6. \A i \in DOMAIN events : i # 1 => (i - 1 \in DOMAIN events' /\ events'[i - 1] = events[i])
  BY <1>2
<1>7. \A i \in DOMAIN events' : i + 1 \in DOMAIN events /\ i + 1 # 1
  BY <1>2
<1>8. \A i \in DOMAIN events : events[i].obj = o <=> i = 1
  BY <1>1, <1>2 DEF EventsInv
<1>9. ASSUME NEW x PROVE Pending(x)' <=> Pending(x) /\ x # o
  BY <1>2, <1>6, <1>7, <1>8 DEF Pending
<1>10. ASSUME NEW t, NEW x PROVE PendingAs(t, x)' <=> PendingAs(t, x) /\ x # o
  <2>1. \A i \in DOMAIN events : events[i] = [type |-> t, obj |-> x] => (i = 1 <=> x = o)
    BY <1>8
  <2> QED
    BY <1>2, <1>6, <1>7, <2>1 DEF PendingAs
<1>11. \A i, j \in DOMAIN events' : events'[i].obj = events'[j].obj => i = j
  BY <1>2, <1>7 DEF EventsInv
<1> QED
  BY <1>4, <1>5, <1>9, <1>10, <1>11

\* What a transformer does to the objects in sight: only its own object comes or goes.
LEMMA TransformVisible ==
  ASSUME ObservingTypeOK, EventsInv, NEW type, NEW o, Transform(type, o)
  PROVE  /\ \A x : x # o => (Visible(x)' <=> Visible(x))
         /\ Visible(o) <=> type = "Disappear"
         /\ Visible(o)' <=> type # "Disappear"
<1>1. /\ o \in Objects /\ PendingAs(type, o) /\ Pending(o)
      /\ \A x : Pending(x)' <=> Pending(x) /\ x # o
      /\ \A x : PendingAs("Disappear", x)' <=> PendingAs("Disappear", x) /\ x # o
  BY TransformPending DEF Pending, PendingAs
<1>2. PendingAs("Disappear", o) <=> type = "Disappear"
  BY <1>1, PendingUnique
<1>3. status[o] = "Tracked" <=> type # "Disappear"
  BY <1>1, <1>2, PendingTypes, PendingUnique DEF EventsInv
<1>4. status' = status
  BY DEF Transform
<1> QED
  BY <1>1, <1>2, <1>3, <1>4 DEF Visible

\* Between two ticks the objects in sight are those that are tracked.
LEMMA QuietVisible ==
  ASSUME Quiet, NEW x
  PROVE  ~Pending(x) /\ (\A t : ~PendingAs(t, x)) /\ (Visible(x) <=> status[x] = "Tracked")
BY DEF Quiet, Pending, PendingAs, Visible

-----------------------------------------------------------------------------
(* The inductive invariant                                                 *)

\* A tick of the world puts events on the list and leaves what is in sight, as
\* far as the transformers know, as it was.
LEMMA WorldTickEvents ==
  ASSUME ObservingTypeOK, EventsInv, NEW order \in Orders, WorldTick(order)
  PROVE  EventsInv' /\ \A x \in Objects : Visible(x)' <=> Visible(x)
<1>1. PICK n \in Nat : /\ order \in [1 .. n -> Objects]
                       /\ \A i, j \in 1 .. n : order[i] = order[j] => i = j
  BY OrdersType
<1>2. /\ events' = [i \in 1 .. n |-> [type |-> EventOf(order[i]), obj |-> order[i]]]
      /\ UNCHANGED <<active, known, crashed>> /\ Quiet
  BY <1>1 DEF WorldTick
<1> DEFINE Told == {order[i] : i \in 1 .. n}
<1>3. status' = [o \in Objects |->
         IF o \notin Told THEN status[o] ELSE IF EventOf(o) = "Disappear" THEN "Lost" ELSE "Tracked"]
  <2>1. ToSet(order) = Told
    BY <1>1 DEF ToSet
  <2> QED
    BY <2>1 DEF WorldTick
<1>4. \A i \in 1 .. n : events'[i].type = EventOf(order[i]) /\ events'[i].obj = order[i]
  BY <1>2
<1>5. \A x : Pending(x)' <=> x \in Told
  BY <1>2, <1>4 DEF Pending
<1>6. ASSUME NEW t, NEW x PROVE PendingAs(t, x)' <=> x \in Told /\ t = EventOf(x)
  <2>1. \A i \in 1 .. n : events'[i] = [type |-> t, obj |-> x] <=> (order[i] = x /\ EventOf(order[i]) = t)
    BY <1>2
  <2> QED
    BY <1>2, <2>1 DEF PendingAs
<1>7. \A i, j \in DOMAIN events' : events'[i].obj = events'[j].obj => i = j
  BY <1>1, <1>2, <1>4
<1> HIDE DEF Told
<1>8. ASSUME NEW x \in Objects
      PROVE  /\ EventOf(x) = "NewObject" <=> status[x] = "unseen"
             /\ EventOf(x) = "Disappear" <=> status[x] = "Tracked"
             /\ EventOf(x) = "Appear" <=> status[x] = "Lost"
             /\ status[x] \in {"unseen", "Tracked", "Lost"}
  BY DEF EventOf, ObservingTypeOK
<1>9. \A x \in Objects : Visible(x)' <=> Visible(x)
  BY <1>2, <1>3, <1>5, <1>6, <1>8, QuietVisible DEF Visible
<1>10. Working => known' = {o \in Objects : status'[o] # "unseen" /\ ~PendingAs("NewObject", o)'}
  <2>1. Working => known' = {o \in Objects : status[o] # "unseen"}
    BY <1>2, QuietVisible DEF EventsInv
  <2>2. \A x \in Objects : status'[x] # "unseen" /\ ~PendingAs("NewObject", x)' <=> status[x] # "unseen"
    BY <1>3, <1>6, <1>8
  <2> QED
    BY <2>1, <2>2
<1> QED
  BY <1>2, <1>3, <1>6, <1>7, <1>8, <1>9, <1>10 DEF EventsInv, Working

\* What EventsInv says after a transformer that adds what it adds to known.
LEMMA TransformEvents ==
  ASSUME ObservingTypeOK, EventsInv, NEW type, NEW o, Transform(type, o),
         known' = IF type = "NewObject" THEN known \cup {o} ELSE known
  PROVE  EventsInv'
<1>1. /\ o \in Objects /\ PendingAs(type, o)
      /\ \A t, x : PendingAs(t, x)' <=> PendingAs(t, x) /\ x # o
      /\ \A i, j \in DOMAIN events' : events'[i].obj = events'[j].obj => i = j
      /\ status' = status /\ active /\ crashed = "no"
  BY TransformPending DEF Transform
<1>2. known = {x \in Objects : status[x] # "unseen" /\ ~PendingAs("NewObject", x)}
  BY <1>1 DEF EventsInv, Working
<1>3. PendingAs("NewObject", o) <=> type = "NewObject"
  BY <1>1, PendingUnique
<1>4. type = "NewObject" => status[o] = "Tracked"
  BY <1>1 DEF EventsInv
<1>5. known' = {x \in Objects : status'[x] # "unseen" /\ ~PendingAs("NewObject", x)'}
  BY <1>1, <1>2, <1>3, <1>4
<1> QED
  BY <1>1, <1>5 DEF EventsInv

\* The object of an event other than the first one is known.
LEMMA ToldIsKnown ==
  ASSUME ObservingTypeOK, EventsInv, NEW type \in {"Appear", "Disappear"}, NEW o, Transform(type, o)
  PROVE  o \in known
<1>1. o \in Objects /\ PendingAs(type, o) /\ Working
  BY TransformPending DEF Transform, Working
<1>2. ~PendingAs("NewObject", o)
  BY <1>1, PendingUnique
<1>3. status[o] # "unseen"
  BY <1>1 DEF EventsInv
<1> QED
  BY <1>1, <1>2, <1>3 DEF EventsInv

\* Telling a person where a thing is does not change what holds.
LEMMA InformKeepsFacts ==
  ASSUME ObservingTypeOK, NEW p, NEW s, NEW b, NEW x,
         <<s, x>> \in facts, <<s, b>> \notin facts, Inform(p, s, b, x)
  PROVE  /\ facts' = facts
         /\ \A q \in People : beliefs'[q] = IF q \in present THEN (beliefs[q] \ {<<s, b>>}) \cup {<<s, x>>}
                                                              ELSE beliefs[q]
         /\ \A q \in People : beliefs[q] = facts => beliefs'[q] = facts
BY DEF Inform, PerformDo, ObservingTypeOK

LEMMA InformInductive ==
  ASSUME ObservingInv, ObservingTypeOK', NEW p, NEW s, NEW b, NEW x,
         <<s, x>> \in facts, <<s, b>> \notin facts, Inform(p, s, b, x)
  PROVE  ObservingInv'
<1>1. facts' = facts /\ \A q \in People : beliefs[q] = facts => beliefs'[q] = facts
  BY InformKeepsFacts DEF ObservingInv
<1>2. UNCHANGED <<active, status, events, known, present, current_container, crashed, placed, muddled, missed, sessions>>
  BY DEF Inform, observingGhosts
<1>3. EventsInv'
  BY <1>2 DEF ObservingInv, EventsInv, PendingAs, Working
<1>4. AgentsInv'
  BY <1>1, <1>2 DEF ObservingInv, ObservingTypeOK, AgentsInv, Visible, Pending, PendingAs, Working
<1>5. PlacesInv'
  BY <1>1, <1>2 DEF ObservingInv, PlacesInv, PlaceOf, Visible, Pending, PendingAs, Working
<1>6. SessionInv'
  BY <1>2 DEF ObservingInv, SessionInv, HasProposition
<1> QED
  BY <1>3, <1>4, <1>5, <1>6 DEF ObservingInv

\* What the invariant says holds at first.
LEMMA ObservingInvInit == ObservingTypeOK /\ ObservingInit => ObservingInv
<1> SUFFICES ASSUME ObservingTypeOK, ObservingInit PROVE ObservingInv
  OBVIOUS
<1>1. DOMAIN events = {} /\ DOMAIN current_container = {}
  BY DEF ObservingInit
<1>2. EventsInv
  BY <1>1 DEF ObservingInit, EventsInv, PendingAs, Working
<1>3. AgentsInv
  BY DEF ObservingInit, AgentsInv, Working
<1>4. PlacesInv
  BY DEF ObservingInit, PlacesInv, PlaceOf, Nowhere, Working
<1>5. SessionInv
  BY <1>1 DEF ObservingInit, SessionInv
<1> QED
  BY <1>2, <1>3, <1>4, <1>5 DEF ObservingInv

\* Entering the state and leaving it.
LEMMA EnterInductive ==
  ASSUME ObservingInv, ObservingTypeOK', Enter PROVE ObservingInv'
<1>1. /\ active' = TRUE /\ known' = {} /\ present' = {} /\ facts' = {} /\ missed' = {} /\ events' = <<>>
      /\ current_container' = current_container /\ sessions' = sessions + 1
      /\ status' = [o \in Objects |-> "unseen"] /\ placed' = [s \in Storables |-> {}]
  BY DEF Enter, Reset, SetupDomain, ClearWorld, Nowhere
<1>2. \A t, x : ~Pending(x)' /\ ~PendingAs(t, x)'
  BY <1>1 DEF Pending, PendingAs
<1>3. EventsInv'
  BY <1>1, <1>2 DEF EventsInv
<1>4. AgentsInv'
  BY <1>1, <1>2, ObjectKinds DEF AgentsInv, Visible
<1>5. PlacesInv'
  BY <1>1 DEF PlacesInv, PlaceOf
<1>6. SessionInv'
  BY <1>1 DEF ObservingInv, ObservingTypeOK, SessionInv
<1> QED
  BY <1>3, <1>4, <1>5, <1>6 DEF ObservingInv

LEMMA LeaveInductive ==
  ASSUME ObservingInv, ObservingTypeOK', Leave PROVE ObservingInv'
<1>1. /\ active' = FALSE /\ events' = <<>>
      /\ UNCHANGED <<known, present, facts, beliefs, current_container, crashed, placed, muddled, missed, sessions>>
  BY DEF Leave, ClearWorld, domainVars, observingGhosts
<1>2. \A t, x : ~PendingAs(t, x)'
  BY <1>1 DEF PendingAs
<1>3. EventsInv'
  BY <1>1, <1>2 DEF EventsInv, Working
<1>4. AgentsInv'
  BY <1>1 DEF ObservingInv, AgentsInv, Working
<1>5. PlacesInv'
  BY <1>1 DEF ObservingInv, PlacesInv, PlaceOf, Working
<1>6. SessionInv'
  BY <1>1 DEF ObservingInv, SessionInv, HasProposition
<1> QED
  BY <1>3, <1>4, <1>5, <1>6 DEF ObservingInv

\* A tick of the world.
LEMMA WorldTickInductive ==
  ASSUME ObservingInv, ObservingTypeOK', NEW order \in Orders, WorldTick(order) PROVE ObservingInv'
<1>1. EventsInv' /\ \A x \in Objects : Visible(x)' <=> Visible(x)
  BY WorldTickEvents DEF ObservingInv
<1>2. UNCHANGED <<active, known, present, facts, beliefs, current_container, crashed, placed, muddled, missed, sessions>>
  BY DEF WorldTick, domainVars, observingGhosts
<1>3. AgentsInv'
  BY <1>1, <1>2, ObjectKinds DEF ObservingInv, AgentsInv, Working
<1>4. PlacesInv'
  BY <1>1, <1>2, ObjectKinds DEF ObservingInv, PlacesInv, PlaceOf, Working
<1>5. SessionInv'
  BY <1>2 DEF ObservingInv, SessionInv, HasProposition
<1> QED
  BY <1>1, <1>3, <1>4, <1>5 DEF ObservingInv

\* A new object: the domain is set up anew, so that nothing is anywhere.
LEMMA ObjectNewInductive ==
  ASSUME ObservingInv, ObservingTypeOK', NEW o \in Objects, ObjectNew(o) PROVE ObservingInv'
<1>1. /\ Transform("NewObject", o) /\ ObservingTypeOK /\ EventsInv /\ Working /\ UNCHANGED <<active, sessions>>
      /\ known' = known \cup {o} /\ present' = present \cup ({o} \cap People)
      /\ facts' = {} /\ beliefs' = [p \in People |-> {}] /\ placed' = [s \in Storables |-> {}]
      /\ missed' = (known' \cap People) \ present'
      /\ UNCHANGED <<current_container, crashed>>
  BY DEF ObjectNew, Transform, AddObject, SetupDomain, Nowhere, ObservingInv, Working
<1>2. EventsInv'
  BY <1>1, TransformEvents
<1>3. (\A x : x # o => (Visible(x)' <=> Visible(x))) /\ Visible(o)'
  BY <1>1, TransformVisible
<1>4. AgentsInv'
  <2>1. present = {p \in People : Visible(p)}
    BY <1>1 DEF ObservingInv, AgentsInv
  <2>2. present' = {p \in People : Visible(p)'}
    BY <1>1, <1>3, <2>1
  <2> QED
    BY <1>1, <2>2 DEF ObservingTypeOK, AgentsInv
<1>5. PlacesInv'
  BY <1>1 DEF PlacesInv, PlaceOf
<1>6. SessionInv'
  BY <1>1 DEF ObservingInv, SessionInv, HasProposition, Working
<1> QED
  BY <1>2, <1>4, <1>5, <1>6 DEF ObservingInv

\* A person comes back or goes.
LEMMA PersonInductive ==
  ASSUME ObservingInv, ObservingTypeOK', NEW p \in People, PersonAppears(p) \/ PersonDisappears(p)
  PROVE  ObservingInv'
<1> PICK type \in {"Appear", "Disappear"} :
      /\ Transform(type, p)
      /\ type = "Appear" => PersonAppears(p)
      /\ type = "Disappear" => PersonDisappears(p)
  BY DEF PersonAppears, PersonDisappears
<1>1. /\ ObservingTypeOK /\ EventsInv /\ Working /\ p \in known
      /\ UNCHANGED <<active, known, facts, beliefs, current_container, placed, muddled, sessions>>
  BY ToldIsKnown DEF Transform, PersonAppears, PersonDisappears, domainVars, ObservingInv, Working
<1>2. /\ type = "Appear" => present' = present \cup {p} /\ missed' = missed
      /\ type = "Disappear" => present' = present \ {p} /\ missed' = missed \cup {p}
      /\ crashed' = crashed
  BY <1>1 DEF PersonAppears, PersonDisappears
<1>3. EventsInv'
  BY <1>1, TransformEvents
<1>4. /\ \A x : x # p => (Visible(x)' <=> Visible(x))
      /\ Visible(p) <=> type = "Disappear"
      /\ Visible(p)' <=> type # "Disappear"
  BY <1>1, TransformVisible
<1>5. AgentsInv'
  <2>1. /\ present = {q \in People : Visible(q)}
        /\ (known \cap People) \ present \subseteq missed
        /\ \A q \in present \ missed : beliefs[q] = facts
    BY <1>1 DEF ObservingInv, AgentsInv
  <2>2. present' = {q \in People : Visible(q)'}
    BY <1>2, <1>4, <2>1
  <2>3. type = "Appear" => p \in missed
    BY <1>1, <1>4, <2>1
  <2>4. (known' \cap People) \ present' \subseteq missed'
    BY <1>1, <1>2, <2>1
  <2>5. \A q \in present' \ missed' : beliefs'[q] = facts'
    BY <1>1, <1>2, <2>1, <2>3
  <2> QED
    BY <2>2, <2>4, <2>5 DEF AgentsInv
<1>6. PlacesInv'
  <2>1. \A s \in Storables : s # p /\ (Visible(s)' <=> Visible(s))
    BY <1>4, ObservingAssumption
  <2> QED
    BY <1>1, <1>2, <2>1 DEF ObservingInv, PlacesInv, PlaceOf, Working
<1>7. SessionInv'
  BY <1>1 DEF ObservingInv, SessionInv, HasProposition, Working
<1> QED
  BY <1>3, <1>5, <1>6, <1>7 DEF ObservingInv

\* A thing appears again: it is taken out of the box that current_container names.
LEMMA StorableAppearsInductive ==
  ASSUME ObservingInv, ObservingTypeOK', NEW s \in Storables, StorableAppears(s) PROVE ObservingInv'
<1> DEFINE b == current_container[s]
<1>1. /\ Transform("Appear", s) /\ ObservingTypeOK /\ EventsInv /\ Working
      /\ UNCHANGED <<active, known, present, muddled, missed, sessions>>
      /\ placed' = [placed EXCEPT ![s] = {}]
  BY DEF StorableAppears, Transform, ObservingInv, Working
<1>2. EventsInv'
  BY <1>1, TransformEvents
<1>3. /\ \A x : x # s => (Visible(x)' <=> Visible(x))
      /\ Visible(s)'
  BY <1>1, TransformVisible
<1>4. \A p \in People : Visible(p)' <=> Visible(p)
  BY <1>3, ObservingAssumption
<1>5. \A p \in People : beliefs[p] = facts /\ p \in present => beliefs'[p] = facts'
  BY DEF StorableAppears, PerformDo, domainVars
<1>6. AgentsInv'
  BY <1>1, <1>4, <1>5 DEF ObservingInv, ObservingTypeOK, AgentsInv, Working
<1>7. SessionInv'
  BY <1>1 DEF StorableAppears, Without, ObservingInv, SessionInv, HasProposition, Working
<1>8. CASE crashed' # "no"
  BY <1>2, <1>6, <1>7, <1>8 DEF ObservingInv, PlacesInv, Working
<1>9. CASE crashed' = "no"
  <2>1. PlaceOf(s)' \subseteq PlaceOf(s) \ (IF s \in DOMAIN current_container THEN {b} ELSE {})
    BY <1>9 DEF StorableAppears, PlaceOf, PerformDo, domainVars
  <2>2. s \notin muddled => PlaceOf(s)' = {}
    BY <1>1, <2>1 DEF ObservingInv, PlacesInv, Working
  <2>3. ASSUME NEW x \in Storables, x # s
        PROVE  /\ PlaceOf(x)' = PlaceOf(x) /\ placed'[x] = placed[x]
               /\ x \in DOMAIN current_container => x \in DOMAIN current_container' /\ current_container'[x] = current_container[x]
    BY <1>1, <1>9, <2>3 DEF StorableAppears, PlaceOf, PerformDo, domainVars, Without, ObservingTypeOK
  <2>4. placed'[s] = {}
    BY <1>1 DEF ObservingTypeOK
  <2>5. PlacesInv'
    BY <1>1, <1>3, <1>9, <2>2, <2>3, <2>4 DEF ObservingInv, PlacesInv, Working
  <2> QED
    BY <1>2, <1>6, <1>7, <2>5 DEF ObservingInv
<1> QED
  BY <1>8, <1>9

\* A thing disappears, maybe in boxes.
LEMMA StorableDisappearsInductive ==
  ASSUME ObservingInv, ObservingTypeOK', NEW s \in Storables, NEW bs \in SUBSET Boxes, StorableDisappears(s, bs)
  PROVE  ObservingInv'
<1>1. /\ Transform("Disappear", s) /\ ObservingTypeOK /\ EventsInv /\ Working
      /\ UNCHANGED <<active, known, present, missed, sessions>>
      /\ placed' = [placed EXCEPT ![s] = bs]
  BY DEF StorableDisappears, Transform, ObservingInv, Working
<1>2. EventsInv'
  BY <1>1, TransformEvents
<1>3. /\ \A x : x # s => (Visible(x)' <=> Visible(x))
      /\ Visible(s) /\ ~Visible(s)'
  BY <1>1, TransformVisible
<1>4. \A p \in People : Visible(p)' <=> Visible(p)
  BY <1>3, ObservingAssumption
<1>5. \A p \in People : beliefs[p] = facts /\ p \in present => beliefs'[p] = facts'
  BY DEF StorableDisappears, PerformDo, domainVars
<1>6. AgentsInv'
  BY <1>1, <1>4, <1>5 DEF ObservingInv, ObservingTypeOK, AgentsInv, Working
<1>7. CASE crashed' # "no"
  <2>1. UNCHANGED current_container
    BY <1>1, <1>7 DEF StorableDisappears, Working
  <2>2. SessionInv'
    BY <1>1, <2>1 DEF ObservingInv, SessionInv, HasProposition, Working
  <2> QED
    BY <1>2, <1>6, <1>7, <2>2 DEF ObservingInv, PlacesInv, Working
<1>8. CASE crashed' = "no"
  <2>1. /\ facts' = facts \cup ({s} \X bs)
        /\ \A b \in bs : HasProposition(s, b)
        /\ bs = {} \/ s \in DOMAIN current_container => UNCHANGED current_container
        /\ bs # {} /\ s \notin DOMAIN current_container =>
             \E b \in bs : current_container' =
               [x \in DOMAIN current_container \cup {s} |-> IF x = s THEN b ELSE current_container[x]]
    BY <1>8 DEF StorableDisappears, PerformDo
  <2>2. SessionInv'
    BY <1>1, <2>1 DEF ObservingInv, SessionInv, HasProposition, Working
  <2>3. ASSUME NEW x \in Storables, x # s
        PROVE  /\ PlaceOf(x)' = PlaceOf(x) /\ placed'[x] = placed[x]
               /\ x \in DOMAIN current_container => x \in DOMAIN current_container' /\ current_container'[x] = current_container[x]
    BY <1>1, <2>1, <2>3 DEF PlaceOf, ObservingTypeOK
  <2>4. placed'[s] = bs /\ PlaceOf(s)' = PlaceOf(s) \cup bs
    BY <1>1, <2>1 DEF PlaceOf, ObservingTypeOK
  <2>5. muddled \subseteq muddled' /\ (s \notin muddled' => \A b, c \in bs : s \notin DOMAIN current_container /\ b = c)
    BY DEF StorableDisappears
  <2>6. ASSUME s \notin muddled'
        PROVE  /\ PlaceOf(s)' = bs
               /\ \A b \in bs : s \in DOMAIN current_container' /\ b = current_container'[s]
    <3>1. PlaceOf(s) = {}
      BY <1>1, <1>3, <2>5, <2>6 DEF ObservingInv, PlacesInv, Working
    <3>2. ASSUME NEW b \in bs PROVE s \in DOMAIN current_container' /\ b = current_container'[s]
      BY <2>1, <2>5, <2>6, <3>2
    <3> QED
      BY <2>4, <3>1, <3>2
  <2>7. PlacesInv'
    BY <1>1, <1>3, <1>8, <2>3, <2>4, <2>5, <2>6 DEF ObservingInv, PlacesInv, Working
  <2> QED
    BY <1>2, <1>6, <2>2, <2>7 DEF ObservingInv
<1> QED
  BY <1>7, <1>8

\* A person with a false belief who is in sight was away.
LEMMA WrongMissed ==
  ASSUME ObservingInv, Quiet, NEW p \in People, status[p] = "Tracked"
  PROVE  p \in present /\ (beliefs[p] # facts => p \in missed)
<1>1. Visible(p) /\ Working
  BY QuietVisible DEF Quiet, Working
<1> QED
  BY <1>1 DEF ObservingInv, AgentsInv

LEMMA ComplementaryInductive ==
  ASSUME ObservingInv, ObservingTypeOK', NEW p \in People, NEW t \in Things, IntentionTriggerComplementary(p, t)
  PROVE  ObservingInv'
<1>1. /\ Quiet /\ status[p] = "Tracked" /\ InformAboutObject(p, Matching[t])
      /\ UNCHANGED <<active, status, events, known, present, facts, current_container, placed, muddled, missed, sessions>>
  BY DEF IntentionTriggerComplementary, observingGhosts
<1>2. p \in missed /\ crashed = "no"
  BY <1>1, WrongMissed DEF InformAboutObject, WrongBoxes, Quiet
<1>3. \A q \in People : q # p => beliefs'[q] = beliefs[q]
  <2> DEFINE s == Matching[t]
  <2>1. PICK b, x : beliefs' \in {beliefs, [beliefs EXCEPT ![p] = (@ \ {<<s, b>>}) \cup {<<s, x>>}]}
    BY <1>1 DEF InformAboutObject
  <2> HIDE DEF s
  <2>2. beliefs \in [People -> SUBSET In]
    BY DEF ObservingInv, ObservingTypeOK
  <2> QED
    BY <2>1, <2>2
<1>4. EventsInv'
  BY <1>1, <1>2 DEF ObservingInv, EventsInv, PendingAs, Working
<1>5. AgentsInv'
  BY <1>1, <1>2, <1>3 DEF ObservingInv, ObservingTypeOK, AgentsInv, Visible, Pending, PendingAs, Working
<1>6. PlacesInv'
  BY <1>1, <1>2 DEF ObservingInv, PlacesInv, PlaceOf, Visible, Pending, PendingAs, Working
<1>7. SessionInv'
  BY <1>1 DEF ObservingInv, SessionInv, HasProposition
<1> QED
  BY <1>4, <1>5, <1>6, <1>7 DEF ObservingInv

\* The invariant holds in every reachable state.
THEOREM ObservingInvariant == ObservingSpec => []ObservingInv
<1>1. ObservingInit => ObservingInv
  BY ObservingTypeInit, ObservingInvInit
<1>2. ObservingInv /\ [ObservingNext]_observingVars => ObservingInv'
  <2> SUFFICES ASSUME ObservingInv, [ObservingNext]_observingVars PROVE ObservingInv'
    OBVIOUS
  <2> ObservingTypeOK /\ ObservingTypeOK'
    BY ObservingTypeStep DEF ObservingInv
  <2>1. CASE SequenceDone
    BY <2>1 DEF SequenceDone, domainVars, observingGhosts, ObservingInv, EventsInv, AgentsInv, PlacesInv, SessionInv,
                Working, Visible, Pending, PendingAs, PlaceOf, HasProposition
  <2>2. ASSUME NEW p \in People, NEW b \in Boxes, IntentionTrigger(p, b) PROVE ObservingInv'
    BY <2>2, InformInductive DEF IntentionTrigger, InformAboutBox, WronglyIn, PlaceOf
  <2>3. ASSUME NEW p \in People, NEW s \in Cubes, GoalStatementTrigger(p, s) PROVE ObservingInv'
    BY <2>3, InformInductive DEF GoalStatementTrigger, InformAboutCube, WrongBoxes, PlaceOf
  <2>4. CASE UNCHANGED observingVars
    BY <2>4 DEF observingVars, ObservingInv, EventsInv, AgentsInv, PlacesInv, SessionInv,
                Working, Visible, Pending, PendingAs, PlaceOf, HasProposition
  <2> QED
    BY <2>1, <2>2, <2>3, <2>4, EnterInductive, LeaveInductive, WorldTickInductive, ObjectNewInductive, PersonInductive,
       StorableAppearsInductive, StorableDisappearsInductive, ComplementaryInductive DEF ObservingNext
<1> QED
  BY <1>1, <1>2, PTL DEF ObservingSpec

-----------------------------------------------------------------------------
(* What follows                                                            *)

\* RobotKnowsPlace: between two ticks the robot believes a thing to be where
\* it was last seen to vanish, and nowhere if it is in sight.
THEOREM RobotKnowsPlaceHolds == ObservingSpec => []RobotKnowsPlace
<1>1. ObservingInv => RobotKnowsPlace
  BY DEF ObservingInv, PlacesInv, RobotKnowsPlace, Quiet
<1> QED
  BY <1>1, ObservingInvariant, PTL

\* PresentAgentsKnow: the persons in sight attend, and those who never were
\* away believe what holds.
THEOREM PresentAgentsKnowHolds == ObservingSpec => []PresentAgentsKnow
<1>1. ObservingInv => PresentAgentsKnow
  <2> SUFFICES ASSUME ObservingInv, Quiet
               PROVE  /\ present = {p \in People : status[p] = "Tracked"}
                      /\ \A p \in present \ missed : beliefs[p] = facts
    BY DEF PresentAgentsKnow
  <2>1. \A p : Visible(p) <=> status[p] = "Tracked"
    BY QuietVisible
  <2> QED
    BY <2>1 DEF ObservingInv, AgentsInv, Working, Quiet
<1> QED
  BY <1>1, ObservingInvariant, PTL

\* FailsOnlyWhen: the process dies in the three situations only.
THEOREM FailsOnlyWhenHolds == ObservingSpec => []FailsOnlyWhen
<1>1. ObservingInit => FailsOnlyWhen
  BY DEF ObservingInit, FailsOnlyWhen
<1>2. ObservingInv /\ FailsOnlyWhen /\ [ObservingNext]_observingVars => FailsOnlyWhen'
  <2> SUFFICES ASSUME ObservingInv, FailsOnlyWhen, [ObservingNext]_observingVars, crashed' # "no" PROVE FailsOnlyWhen'
    BY DEF FailsOnlyWhen
  <2> ObservingTypeOK /\ EventsInv
    BY DEF ObservingInv
  <2>1. CASE UNCHANGED observingVars
    BY <2>1 DEF observingVars, FailsOnlyWhen, WrongBoxes
  <2>2. ASSUME NEW p \in People, PersonAppears(p) \/ PersonDisappears(p) PROVE FALSE
    BY <2>2, ToldIsKnown DEF PersonAppears, PersonDisappears, Transform
  <2>3. ASSUME NEW s \in Storables, StorableAppears(s) PROVE FailsOnlyWhen'
    <3>1. Working /\ crashed' = "take" /\ sessions' = sessions /\ sessions \in Nat
      BY <2>3 DEF StorableAppears, Transform, Working, ObservingTypeOK
    <3>2. s \in DOMAIN current_container /\ ~HasProposition(s, current_container[s])
      BY <2>3, <3>1 DEF StorableAppears, Working
    <3>3. sessions # 0 /\ sessions # 1
      BY <3>1, <3>2 DEF ObservingInv, SessionInv, Working
    <3> QED
      BY <3>1, <3>3 DEF FailsOnlyWhen
  <2>4. ASSUME NEW s \in Storables, NEW bs \in SUBSET Boxes, StorableDisappears(s, bs) PROVE FailsOnlyWhen'
    <3>1. Transform("Disappear", s) /\ crashed' = "put"
      BY <2>4 DEF StorableDisappears, Transform
    <3>2. PICK b \in bs : ~HasProposition(s, b) /\ status[b] # "unseen"
      BY <2>4, <3>1 DEF StorableDisappears, Transform
    <3>3. s \in known
      BY <3>1, ToldIsKnown
    <3>4. b \notin known /\ b \in Objects /\ b # s
      BY <3>2, <3>3, ObjectKinds, ObservingAssumption DEF HasProposition
    <3>5. PendingAs("NewObject", b)
      BY <3>1, <3>2, <3>4 DEF EventsInv, Working, Transform
    <3>6. PendingAs("NewObject", b)'
      BY <3>1, <3>4, <3>5, TransformPending
    <3>7. \E i \in DOMAIN events' : events'[i].type = "NewObject" /\ events'[i].obj = b
      BY <3>6 DEF PendingAs
    <3> QED
      BY <3>1, <3>7 DEF FailsOnlyWhen
  <2>5. ASSUME NEW p \in People, NEW t \in Things, IntentionTriggerComplementary(p, t) PROVE FailsOnlyWhen'
    <3> DEFINE s == Matching[t]
    <3>1. /\ crashed' = "read" /\ crashed = "no" /\ UNCHANGED <<facts, beliefs, present, placed>>
          /\ WrongBoxes(p, s) # {} /\ PlaceOf(s) = {} /\ s \in Storables
      BY <2>5, ObservingAssumption DEF IntentionTriggerComplementary, InformAboutObject, Quiet, observingGhosts
    <3>2. p \in present
      BY <2>5, WrongMissed DEF IntentionTriggerComplementary
    <3>3. placed[s] = {}
      BY <3>1 DEF ObservingInv, PlacesInv
    <3>4. WrongBoxes(p, s)' # {}
      BY <3>1 DEF WrongBoxes
    <3> QED
      BY <3>1, <3>2, <3>3, <3>4 DEF FailsOnlyWhen
  <2>6. ASSUME Enter \/ Leave \/ SequenceDone PROVE FALSE
    BY <2>6 DEF Enter, Leave, SequenceDone, Quiet
  <2>7. ASSUME NEW order \in Orders, WorldTick(order) PROVE FALSE
    BY <2>7 DEF WorldTick, Quiet
  <2>8. ASSUME NEW o \in Objects, ObjectNew(o) PROVE FALSE
    BY <2>8 DEF ObjectNew, Transform
  <2>9. ASSUME NEW p \in People, NEW b \in Boxes, IntentionTrigger(p, b) PROVE FALSE
    BY <2>9 DEF IntentionTrigger, InformAboutBox, Inform, Quiet
  <2>10. ASSUME NEW p \in People, NEW s \in Cubes, GoalStatementTrigger(p, s) PROVE FALSE
    BY <2>10 DEF GoalStatementTrigger, InformAboutCube, Inform, Quiet
  <2> QED
    BY <2>1, <2>2, <2>3, <2>4, <2>5, <2>6, <2>7, <2>8, <2>9, <2>10 DEF ObservingNext
<1> QED
  BY <1>1, <1>2, ObservingInvariant, PTL DEF ObservingSpec

\* One step of informing: the box that is shown is where the thing vanished,
\* the false belief is gone, and nobody got a new one.
LEMMA InformStep ==
  ASSUME ObservingInv, Quiet, NEW p \in People, status[p] = "Tracked", NEW s \in Storables, NEW b \in Boxes, NEW x \in Boxes,
         <<s, x>> \in facts, <<s, b>> \in beliefs[p] \ facts, Inform(p, s, b, x)
  PROVE  /\ sequence'.obj = s /\ sequence'.box = x /\ sequence'.agent = p
         /\ s \notin muddled => x \in placed[s]
         /\ \A q \in People : FalseBeliefs(q)' \subseteq FalseBeliefs(q)
         /\ FalseBeliefs(p)' # FalseBeliefs(p)
<1>1. sequence'.obj = s /\ sequence'.box = x /\ sequence'.agent = p
  BY DEF Inform
<1>2. s \notin muddled => x \in placed[s]
  BY DEF ObservingInv, PlacesInv, PlaceOf, Quiet
<1>3. /\ facts' = facts
      /\ \A q \in People : beliefs'[q] = IF q \in present THEN (beliefs[q] \ {<<s, b>>}) \cup {<<s, x>>}
                                                          ELSE beliefs[q]
  BY InformKeepsFacts DEF ObservingInv
<1>4. p \in present
  BY WrongMissed
<1>5. \A q \in People : FalseBeliefs(q)' \subseteq FalseBeliefs(q)
  BY <1>3 DEF FalseBeliefs
<1>6. <<s, b>> \in FalseBeliefs(p) /\ <<s, b>> \notin FalseBeliefs(p)'
  <2>1. x # b
    OBVIOUS
  <2>2. <<s, x>> # <<s, b>>
    BY <2>1
  <2> QED
    BY <1>3, <1>4, <2>2 DEF FalseBeliefs
<1> QED
  BY <1>1, <1>2, <1>5, <1>6

\* InformingHelps: whatever the robot starts to tell is right, and takes a
\* false belief away from the one it tells it to.
THEOREM InformingHelpsHolds == ObservingSpec => InformingHelps
<1> DEFINE Step == sequence' # sequence /\ sequence' # None /\ crashed' = "no" =>
             /\ sequence'.obj \notin muddled => sequence'.box \in placed[sequence'.obj]
             /\ \A p \in People :
                  /\ FalseBeliefs(p)' \subseteq FalseBeliefs(p)
                  /\ p = sequence'.agent /\ sequence'.by = "do" => FalseBeliefs(p)' # FalseBeliefs(p)
<1>1. ObservingInv /\ [ObservingNext]_observingVars => [Step]_observingVars
  <2> SUFFICES ASSUME ObservingInv, ObservingNext, sequence' # sequence, sequence' # None, crashed' = "no"
               PROVE  Step
    OBVIOUS
  <2>1. ASSUME NEW p \in People, NEW b \in Boxes, IntentionTrigger(p, b) PROVE Step
    <3>1. PICK s \in Storables, x \in Boxes :
            <<s, x>> \in facts /\ <<s, b>> \in beliefs[p] \ facts /\ Inform(p, s, b, x)
      BY <2>1 DEF IntentionTrigger, InformAboutBox, WronglyIn, PlaceOf
    <3> QED
      BY <2>1, <3>1, InformStep DEF IntentionTrigger
  <2>2. ASSUME NEW p \in People, NEW s \in Cubes, GoalStatementTrigger(p, s) PROVE Step
    <3>1. PICK b \in Boxes, x \in Boxes :
            <<s, x>> \in facts /\ <<s, b>> \in beliefs[p] \ facts /\ Inform(p, s, b, x)
      BY <2>2 DEF GoalStatementTrigger, InformAboutCube, WrongBoxes, PlaceOf
    <3> QED
      BY <2>2, <3>1, InformStep, ObjectKinds DEF GoalStatementTrigger
  <2>3. ASSUME NEW p \in People, NEW t \in Things, IntentionTriggerComplementary(p, t) PROVE Step
    <3> DEFINE s == Matching[t]
    <3>1. s \in Storables /\ crashed = "no" /\ facts' = facts
      BY <2>3, ObservingAssumption DEF IntentionTriggerComplementary, Quiet
    <3>2. PICK b \in WrongBoxes(p, s), x \in PlaceOf(s) :
            /\ sequence' = [by |-> "attention", agent |-> p, obj |-> s, box |-> x]
            /\ beliefs' \in {beliefs, [beliefs EXCEPT ![p] = (@ \ {<<s, b>>}) \cup {<<s, x>>}]}
      BY <2>3 DEF IntentionTriggerComplementary, InformAboutObject
    <3> HIDE DEF s
    <3>3. sequence'.obj = s /\ sequence'.box = x /\ sequence'.by # "do"
      BY <3>2
    <3>4. s \notin muddled => x \in placed[s]
      BY <3>1 DEF ObservingInv, PlacesInv
    <3>5. \A q \in People : beliefs'[q] \subseteq beliefs[q] \cup {<<s, x>>}
      <4>1. beliefs \in [People -> SUBSET In]
        BY DEF ObservingInv, ObservingTypeOK
      <4> QED
        BY <3>2, <4>1
    <3>6. \A q \in People : FalseBeliefs(q)' \subseteq FalseBeliefs(q)
      BY <3>1, <3>5 DEF FalseBeliefs, PlaceOf
    <3> QED
      BY <3>3, <3>4, <3>6
  <2> QED
    BY <2>1, <2>2, <2>3 DEF ObservingNext, Enter, Leave, SequenceDone, WorldTick, ObjectNew, PersonAppears, PersonDisappears,
       StorableAppears, StorableDisappears, Transform
<1> QED
  BY <1>1, ObservingInvariant, PTL DEF ObservingSpec, InformingHelps
=============================================================================
