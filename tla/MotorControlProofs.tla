------------------------- MODULE MotorControlProofs -------------------------
(***************************************************************************)
(* The theorems about MotorControl.  TurnInv says of every stage of a turn *)
(* which registers already hold the goal; MotorsObey is what it says of    *)
(* the last stage.                                                         *)
(***************************************************************************)
EXTENDS MotorControl, TLAPS

\* The bytes of a command and the operator's wheel agree on the duty, and the
\* wheel's speed fits a byte.
LEMMA WheelOfByte ==
  ASSUME NEW b \in Byte
  PROVE  /\ wheelOf(b) \in Wheel
         /\ value(wheelOf(b)) = signedDuty(b)
         /\ signedDuty(b) \in Duty
<1>1. b % 128 \in 0 .. 127 /\ (b >= 128 => b % 128 = b - 128) /\ (b < 128 => b % 128 = b)
  BY DEF Byte
<1>2. 2 * (b % 128) \in Byte
  BY <1>1 DEF Byte
<1>3. wheelOf(b) \in Wheel
  BY <1>2 DEF wheelOf, wheel, Wheel
<1>4. value(wheelOf(b)) = signedDuty(b)
  BY <1>1 DEF wheelOf, wheel, value, signedDuty, Byte
<1>5. signedDuty(b) \in Duty
  BY DEF signedDuty, Duty, Byte
<1> QED
  BY <1>3, <1>4, <1>5

\* Whatever Avoid decides is a setting of the two wheels.
LEMMA DecisionType ==
  ASSUME TypeOK
  PROVE  decision \in [left : Wheel, right : Wheel]
<1>1. ahead \in Wheel /\ back \in Wheel /\ wheel("B", 16) \in Wheel
  BY DEF ahead, back, wheel, Wheel, Byte
<1>2. left \in Wheel /\ right \in Wheel /\ user_left \in Wheel /\ user_right \in Wheel
  BY DEF TypeOK
<1> HIDE DEF TypeOK
<1>3. front \in [left : Wheel, right : Wheel]
  BY <1>1, <1>2 DEF front, pair
<1>4. rear \in [left : Wheel, right : Wheel]
  BY <1>1, <1>3 DEF rear, pair
<1>5. sides \in [left : Wheel, right : Wheel]
  BY <1>1, <1>4 DEF sides, pair
<1> QED
  BY <1>2, <1>5 DEF decision, pair

LEMMA TypeStep == TypeOK /\ [Next]_vars => TypeOK'
<1> SUFFICES ASSUME TypeOK, [Next]_vars PROVE TypeOK'
  OBVIOUS
<1>1. CASE Sample
  BY <1>1 DEF TypeOK, Sample, wishes, motors
<1>2. CASE ClearSensorsReady
  BY <1>2 DEF TypeOK, ClearSensorsReady, wishes, motors
<1>3. CASE Receive
  BY <1>3 DEF TypeOK, Receive, wishes, motors
<1>4. CASE ProcessCmd
  <2>1. reportBits \subseteq Sensor /\ report \subseteq SUBSET Sensor
    BY DEF reportBits, TypeOK
  <2>2. report' \in {{}, {reportBits}, report} /\ packet' \in {{}, packet}
    BY <1>4 DEF ProcessCmd
  <2>3. report' \subseteq SUBSET Sensor
    BY <2>1, <2>2
  <2> QED
    BY <1>4, <2>2, <2>3 DEF TypeOK, ProcessCmd, wishes, motors
<1>5. CASE Motors
  <2>1. CASE \E p \in packet :
               /\ p.command = CMD_MOTORS
               /\ packet' = {}
               /\ user_left' = wheelOf(p.data1)
               /\ user_right' = wheelOf(p.data2)
               /\ asked' = [left |-> signedDuty(p.data1),
                            right |-> signedDuty(p.data2)]
    <3>1. PICK p \in packet :
               /\ packet' = {}
               /\ user_left' = wheelOf(p.data1)
               /\ user_right' = wheelOf(p.data2)
               /\ asked' = [left |-> signedDuty(p.data1),
                            right |-> signedDuty(p.data2)]
      BY <2>1
    <3>2. p.data1 \in Byte /\ p.data2 \in Byte
      BY PacketAssumption DEF TypeOK
    <3>3. /\ wheelOf(p.data1) \in Wheel /\ wheelOf(p.data2) \in Wheel
          /\ signedDuty(p.data1) \in Duty /\ signedDuty(p.data2) \in Duty
      BY <3>2, WheelOfByte
    <3> QED
      BY <1>5, <3>1, <3>3 DEF TypeOK, Motors, wishes, motors
  <2>2. CASE UNCHANGED <<packet, wishes>>
    BY <1>5, <2>2 DEF TypeOK, Motors, wishes, motors
  <2> QED
    BY <1>5, <2>1, <2>2 DEF Motors
<1>6. CASE Enable
  <2>1. ahead \in Wheel /\ stopped \in Wheel /\ 510 \in Duty /\ 0 \in Duty
        /\ wheel("F", 255) \in Wheel
    BY DEF ahead, stopped, wheel, Wheel, Byte, Duty
  <2>2. 0 \in Byte /\ 1 \in Byte /\ \A p \in packet : p.data1 \in Byte
    BY PacketAssumption DEF TypeOK, Byte
  <2>3. /\ SENSOR_ENABLE' \in Byte
        /\ packet' \in {{}, packet}
        /\ user_left' \in Wheel /\ user_right' \in Wheel
        /\ asked' \in [left : Duty, right : Duty]
    BY <1>6, <2>1, <2>2 DEF Enable, TypeOK, wishes
  <2> QED
    BY <1>6, <2>3 DEF TypeOK, Enable, motors
<1>7. CASE Avoid
  <2>1. decision.left \in Wheel /\ decision.right \in Wheel
    BY DecisionType
  <2> QED
    BY <1>7, <2>1 DEF TypeOK, Avoid, wishes, motors
<1>8. CASE SetSpeed
  <2>1. left.speed \in 0 .. 255 /\ right.speed \in 0 .. 255
    BY DEF TypeOK, Wheel, Byte
  <2>2. duty(left) \in 0 .. 511 /\ duty(right) \in 0 .. 511
    BY <2>1 DEF duty
  <2> QED
    BY <1>8, <2>2 DEF TypeOK, SetSpeed, wishes
<1>9. CASE AllOff
  BY <1>9 DEF TypeOK, AllOff, wishes
<1>10. CASE SetLeft
  <2>1. LATE' \subseteq {2, 4, 8, 16}
    BY <1>10 DEF TypeOK, SetLeft, directed
  <2> QED
    BY <1>10, <2>1 DEF TypeOK, SetLeft, wishes
<1>11. CASE SetRight
  <2>1. LATE' \subseteq {2, 4, 8, 16}
    BY <1>11 DEF TypeOK, SetRight, directed
  <2> QED
    BY <1>11, <2>1 DEF TypeOK, SetRight, wishes
<1>12. CASE ADC1Interrupt
  BY <1>12 DEF TypeOK, ADC1Interrupt, wishes, motors
<1>13. CASE T4Interrupt
  BY <1>13 DEF TypeOK, T4Interrupt, wishes, motors
<1>14. CASE UNCHANGED vars
  BY <1>14 DEF TypeOK, vars, wishes, motors
<1> QED
  BY <1>1, <1>2, <1>3, <1>4, <1>5, <1>6, <1>7, <1>8, <1>9, <1>10, <1>11, <1>12,
     <1>13, <1>14 DEF Next, MainLoop

-----------------------------------------------------------------------------
\* The chain of tests in the code, each overriding the ones before it, comes to
\* the manoeuvre for the set of tripped sensors.
LEMMA DecisionIsGoal ==
  ASSUME TypeOK, asked = [left |-> value(user_left), right |-> value(user_right)]
  PROVE  [left |-> value(decision.left), right |-> value(decision.right)] = Goal
<1> DEFINE T == {i \in Sensor : tripped(i)}
<1>1. /\ \A i \in {1, 2, 3, 4, 5} : i \in T <=> tripped(i)
      /\ T \subseteq {1, 2, 3, 4, 5}
  BY DEF Sensor
<1>2. /\ value(ahead) = 510 /\ value(back) = -510 /\ value(wheel("B", 16)) = -32
  BY DEF value, ahead, back, wheel
<1>3. CASE T = {}
  <2>1. ~SENSOR_TRIPPED
    BY <1>3 DEF SENSOR_TRIPPED
  <2> QED
    BY <1>3, <2>1 DEF decision, pair, Goal
<1>4. CASE T # {}
  <2>1. SENSOR_TRIPPED
    BY <1>4 DEF SENSOR_TRIPPED
  <2>2. [left |-> value(decision.left), right |-> value(decision.right)] = Manoeuvre(T)
    <3> HIDE DEF T
    <3>1. decision = sides
      BY <2>1 DEF decision
    <3>2. CASE tripped(1) /\ tripped(3)
      BY <1>1, <1>2, <3>1, <3>2 DEF sides, pair, Manoeuvre
    <3>3. CASE tripped(1) /\ ~tripped(3)
      BY <1>1, <1>2, <3>1, <3>3 DEF sides, pair, Manoeuvre
    <3>4. CASE ~tripped(1) /\ tripped(3)
      BY <1>1, <1>2, <3>1, <3>4 DEF sides, pair, Manoeuvre
    <3>5. CASE ~tripped(1) /\ ~tripped(3) /\ (tripped(4) \/ tripped(5))
      <4>1. T # {2} /\ 1 \notin T /\ 3 \notin T
        BY <1>1, <3>5
      <4> QED
        BY <1>2, <3>1, <3>5, <4>1 DEF sides, rear, pair, Manoeuvre
    <3>6. CASE ~tripped(1) /\ ~tripped(3) /\ ~tripped(4) /\ ~tripped(5)
      <4>1. T = {2} /\ tripped(2)
        BY <1>1, <1>4, <3>6
      <4> QED
        BY <1>1, <1>2, <3>1, <3>6, <4>1 DEF sides, rear, front, pair, Manoeuvre
    <3> QED
      BY <3>2, <3>3, <3>4, <3>5, <3>6
  <2> QED
    BY <1>4, <2>2 DEF Goal
<1> QED
  BY <1>3, <1>4

\* Goal looks at nothing but the sensors, their switch and the last command.
LEMMA GoalStable ==
  ASSUME UNCHANGED <<SENSOR, SENSOR_ENABLE, asked>>
  PROVE  Goal' = Goal
BY DEF Goal, tripped

LEMMA TurnStep == TypeOK /\ TurnInv /\ [Next]_vars => TurnInv'
<1> SUFFICES ASSUME TypeOK, TurnInv, [Next]_vars PROVE TurnInv'
  OBVIOUS
<1>1. CASE Sample
  BY <1>1 DEF TurnInv, Sample, wishes, motors
<1>2. CASE ClearSensorsReady
  BY <1>2 DEF TurnInv, ClearSensorsReady, wishes, motors
<1>3. CASE Receive
  BY <1>3 DEF TurnInv, Receive, wishes, motors
<1>4. CASE ProcessCmd
  BY <1>4 DEF TurnInv, ProcessCmd, wishes, motors
<1>5. CASE Motors
  <2>1. asked' = [left |-> value(user_left'), right |-> value(user_right')]
    <3>1. CASE UNCHANGED <<packet, wishes>>
      BY <3>1 DEF TurnInv, wishes
    <3>2. CASE \E p \in packet :
                 /\ user_left' = wheelOf(p.data1)
                 /\ user_right' = wheelOf(p.data2)
                 /\ asked' = [left |-> signedDuty(p.data1),
                              right |-> signedDuty(p.data2)]
      <4>1. PICK p \in packet :
                 /\ user_left' = wheelOf(p.data1)
                 /\ user_right' = wheelOf(p.data2)
                 /\ asked' = [left |-> signedDuty(p.data1),
                              right |-> signedDuty(p.data2)]
        BY <3>2
      <4>2. p.data1 \in Byte /\ p.data2 \in Byte
        BY PacketAssumption DEF TypeOK
      <4> QED
        BY <4>1, <4>2, WheelOfByte
    <3> QED
      BY <1>5, <3>1, <3>2 DEF Motors
  <2> QED
    BY <1>5, <2>1 DEF TurnInv, Motors, value
<1>6. CASE Enable
  <2>1. value(wheel("F", 255)) = 510 /\ value(stopped) = 0
    BY DEF value, wheel, stopped
  <2>2. asked' = [left |-> value(user_left'), right |-> value(user_right')]
    BY <1>6, <2>1 DEF TurnInv, Enable, wishes
  <2> QED
    BY <1>6, <2>2 DEF TurnInv, Enable, value
<1>7. CASE Avoid
  <2>1. [left |-> value(decision.left), right |-> value(decision.right)] = Goal
    BY DecisionIsGoal DEF TurnInv
  <2>2. Goal' = Goal
    BY <1>7, GoalStable DEF Avoid, wishes
  <2>3. [left |-> value(left'), right |-> value(right')] = Goal'
    BY <1>7, <2>1, <2>2 DEF Avoid
  <2> QED
    BY <1>7, <2>3 DEF TurnInv, Avoid, wishes, value
<1>8. CASE SetSpeed
  <2>1. Goal' = Goal
    BY <1>8, GoalStable DEF SetSpeed, wishes
  <2> QED
    BY <1>8, <2>1 DEF TurnInv, SetSpeed, wishes, value, duty
<1>9. CASE AllOff
  <2>1. Goal' = Goal
    BY <1>9, GoalStable DEF AllOff, wishes
  <2> QED
    BY <1>9, <2>1 DEF TurnInv, AllOff, wishes, value, duty
<1>10. CASE SetLeft
  <2>1. Goal' = Goal
    BY <1>10, GoalStable DEF SetLeft, wishes
  <2> QED
    BY <1>10, <2>1 DEF TurnInv, SetLeft, wishes, value, duty, directed
<1>11. CASE SetRight
  <2>1. Goal' = Goal
    BY <1>11, GoalStable DEF SetRight, wishes
  <2> QED
    BY <1>11, <2>1 DEF TurnInv, SetRight, wishes, value, duty, directed
<1>12. CASE ADC1Interrupt
  <2>1. Goal' = Goal
    BY <1>12, GoalStable DEF ADC1Interrupt, wishes
  <2> QED
    BY <1>12, <2>1 DEF TurnInv, ADC1Interrupt, wishes, motors, value, duty, directed
<1>13. CASE T4Interrupt
  <2>1. Goal' = Goal
    BY <1>13, GoalStable DEF T4Interrupt, wishes
  <2> QED
    BY <1>13, <2>1 DEF TurnInv, T4Interrupt, wishes, motors, value, duty, directed
<1>14. CASE UNCHANGED vars
  <2>1. Goal' = Goal
    BY <1>14, GoalStable DEF vars, wishes
  <2> QED
    BY <1>14, <2>1 DEF TurnInv, vars, wishes, motors, value, duty, directed
<1> QED
  BY <1>1, <1>2, <1>3, <1>4, <1>5, <1>6, <1>7, <1>8, <1>9, <1>10, <1>11, <1>12,
     <1>13, <1>14 DEF Next, MainLoop

-----------------------------------------------------------------------------
MotorInv == TypeOK /\ TurnInv

LEMMA MotorInvInit == Init => MotorInv
<1> SUFFICES ASSUME Init PROVE MotorInv
  OBVIOUS
<1>1. stopped \in Wheel /\ value(stopped) = 0 /\ duty(stopped) = 0
  BY DEF stopped, wheel, Wheel, Byte, value, duty
<1>2. TypeOK
  BY <1>1, ReadingAssumption DEF Init, TypeOK, Byte, Duty, Sensor
<1>3. Goal = asked
  BY DEF Init, Goal, tripped
<1>4. directed(directed({}, stopped, 2, 4), stopped, 8, 16) = {}
  BY DEF directed, stopped, wheel
<1>5. TurnInv
  BY <1>1, <1>3, <1>4 DEF Init, TurnInv
<1> QED
  BY <1>2, <1>5 DEF MotorInv

\* Every variable stays in its range, for every set of readings and packets.
THEOREM TypeCorrect == Spec => []TypeOK
<1>1. Init => TypeOK
  BY MotorInvInit DEF MotorInv
<1> QED
  BY <1>1, TypeStep, PTL DEF Spec

\* Every stage of a turn has brought the registers it has written to the goal:
\* main.c 623-720 leaves nothing of an earlier turn behind.
THEOREM TurnInvariant == Spec => []TurnInv
<1>1. Init => TypeOK /\ TurnInv
  BY MotorInvInit DEF MotorInv
<1>2. TypeOK /\ TurnInv /\ [Next]_vars => (TypeOK /\ TurnInv)'
  BY TypeStep, TurnStep
<1> QED
  BY <1>1, <1>2, PTL DEF Spec

\* The registers that TurnInv names drive the wheels with the goal's duties.
LEMMA RegistersDrive == TypeOK /\ TurnInv => MotorsObey
<1> SUFFICES ASSUME TypeOK, TurnInv, pc = "sample"
             PROVE  [left |-> leftDriven, right |-> rightDriven] = Goal
  BY DEF MotorsObey
<1>1. /\ left.speed \in 0 .. 255 /\ left.direction \in {"S", "F", "B"}
      /\ right.speed \in 0 .. 255 /\ right.direction \in {"S", "F", "B"}
  BY DEF TypeOK, Wheel, Byte
<1>2. duty(left) = 2 * left.speed /\ duty(right) = 2 * right.speed
  BY <1>1 DEF duty
<1>3. /\ OC2RS = 2 * left.speed /\ OC3RS = 2 * right.speed
      /\ LATE = directed(directed({}, left, 2, 4), right, 8, 16)
      /\ [left |-> value(left), right |-> value(right)] = Goal
  BY <1>2 DEF TurnInv
<1>4. /\ 2 \in LATE <=> left.direction = "F"
      /\ 4 \in LATE <=> left.direction = "B"
      /\ 8 \in LATE <=> right.direction = "F"
      /\ 16 \in LATE <=> right.direction = "B"
  BY <1>1, <1>3 DEF directed
<1>5. leftDriven = value(left) /\ rightDriven = value(right)
  BY <1>1, <1>3, <1>4 DEF leftDriven, rightDriven, driven, value
<1> QED
  BY <1>3, <1>5

\* The motors run as the last command says, to the unit of the PWM register, or
\* as the manoeuvre for the tripped sensors says.
THEOREM MotorsObeyTheLastCommand == Spec => []MotorsObey
<1>1. Spec => [](TypeOK /\ TurnInv)
  BY TypeCorrect, TurnInvariant, PTL
<1> QED
  BY <1>1, RegistersDrive, PTL

\* Neither wheel is reversed without its bits in LATE having been off.
THEOREM NoDirectReversal == Spec => ReversalPassesThroughOff
<1> DEFINE Safe == /\ ~(2 \in LATE /\ 4 \in LATE') /\ ~(4 \in LATE /\ 2 \in LATE')
                   /\ ~(8 \in LATE /\ 16 \in LATE') /\ ~(16 \in LATE /\ 8 \in LATE')
           OneWay == ~({2, 4} \subseteq LATE) /\ ~({8, 16} \subseteq LATE)
<1>1. Spec => []TurnInv
  BY TurnInvariant
<1>2. Init => OneWay
  BY DEF Init
<1>3. TurnInv /\ OneWay /\ [Next]_vars => OneWay' /\ (Safe \/ UNCHANGED vars)
  <2> SUFFICES ASSUME TurnInv, OneWay, [Next]_vars
               PROVE  OneWay' /\ Safe
    OBVIOUS
  <2>1. CASE LATE' = LATE
    BY <2>1
  <2>2. CASE AllOff
    BY <2>2 DEF AllOff
  <2>3. CASE SetLeft
    BY <2>3 DEF SetLeft, TurnInv, directed
  <2>4. CASE SetRight
    BY <2>4 DEF SetRight, TurnInv, directed
  <2> QED
    BY <2>1, <2>2, <2>3, <2>4
    DEF Next, MainLoop, Sample, ClearSensorsReady, Receive, ProcessCmd, Motors,
        Enable, Avoid, SetSpeed, ADC1Interrupt, T4Interrupt, vars, motors
<1> HIDE DEF Safe, OneWay
<1>4. Spec => [][Safe]_vars
  BY <1>1, <1>2, <1>3, PTL DEF Spec
<1> QED
  BY <1>4 DEF Safe, ReversalPassesThroughOff

\* A reply is only there in the turn that answers a request, and the packet of
\* that request, if it is still there, is none that the later sections look at.
Answering ==
  /\ report # {} => \A p \in packet : p.command = CMD_SENSOR
  /\ pc \in {"sampled", "receive", "command"} => report = {}

\* The operator is told of every obstacle the robot evades: neither the motor
\* nor the enable section changes, in a turn that answers a sensor request,
\* what the reply was computed from (main.c 357-491, 623-681).
THEOREM ObstaclesReported == Spec => []ReplyShowsManoeuvre
<1>1. Init => ReplyShowsManoeuvre /\ Answering
  BY DEF Init, ReplyShowsManoeuvre, Answering
<1>2. /\ TypeOK /\ ReplyShowsManoeuvre /\ Answering /\ [Next]_vars
      => (ReplyShowsManoeuvre /\ Answering)'
  <2> SUFFICES ASSUME TypeOK, ReplyShowsManoeuvre, Answering, [Next]_vars
               PROVE  ReplyShowsManoeuvre' /\ Answering'
    OBVIOUS
  <2>1. CASE Sample \/ ClearSensorsReady \/ Receive
    BY <2>1 DEF Sample, ClearSensorsReady, Receive, ReplyShowsManoeuvre, Answering
  <2>2. CASE ProcessCmd
    <3>1. report = {} /\ UNCHANGED <<SENSOR, SENSOR_ENABLE>> /\ pc' = "motors"
      BY <2>2 DEF ProcessCmd, Answering
    <3>2. \/ report' = {}
          \/ /\ report' = {reportBits}
             /\ packet' = {} \/ \A p \in packet' : p.command = CMD_SENSOR
      <4>1. \A p, q \in packet : p = q
        BY DEF TypeOK
      <4> QED
        BY <2>2, <3>1, <4>1 DEF ProcessCmd
    <3>3. {i \in Sensor : tripped(i)}' \subseteq reportBits
      BY <3>1 DEF tripped, reportBits
    <3> QED
      BY <3>1, <3>2, <3>3 DEF ReplyShowsManoeuvre, Answering
  <2>3. CASE Motors
    <3>1. /\ UNCHANGED <<SENSOR, SENSOR_ENABLE, report>> /\ pc' = "enable"
          /\ packet' \subseteq packet
      BY <2>3 DEF Motors
    <3> QED
      BY <3>1 DEF ReplyShowsManoeuvre, Answering, tripped
  <2>4. CASE Enable
    <3>1. UNCHANGED <<SENSOR, report>> /\ pc' = "avoid" /\ packet' \subseteq packet
      BY <2>4 DEF Enable
    <3>2. report # {} => SENSOR_ENABLE' = SENSOR_ENABLE
      BY <2>4 DEF Enable, Answering, CMD_SENSOR, CMD_ENABLE_SENSORS, CMD_AUTONOMOUS_MODE
    <3> QED
      BY <3>1, <3>2 DEF ReplyShowsManoeuvre, Answering, tripped
  <2>5. CASE Avoid \/ SetSpeed \/ AllOff \/ SetLeft \/ SetRight
    <3>1. /\ UNCHANGED <<SENSOR, SENSOR_ENABLE, report>> /\ packet' \subseteq packet
          /\ pc' \in {"speed", "off", "left", "right", "sample"}
      BY <2>5 DEF Avoid, SetSpeed, AllOff, SetLeft, SetRight
    <3> QED
      BY <3>1 DEF ReplyShowsManoeuvre, Answering, tripped
  <2>6. CASE ADC1Interrupt \/ T4Interrupt \/ UNCHANGED vars
    BY <2>6 DEF ADC1Interrupt, T4Interrupt, vars, tripped, ReplyShowsManoeuvre, Answering
  <2> QED
    BY <2>1, <2>2, <2>3, <2>4, <2>5, <2>6 DEF Next, MainLoop
<1> QED
  BY <1>1, <1>2, TypeCorrect, PTL DEF Spec
=============================================================================
