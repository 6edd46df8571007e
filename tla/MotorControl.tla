---------------------------- MODULE MotorControl ----------------------------
(***************************************************************************)
(* From a complete command packet and the five infrared sensors to the     *)
(* registers that drive the two motors: the sections of the firmware's     *)
(* main loop that follow the assembly of the packet (see FirmwareLink), in *)
(* their order, with the interrupts between them.                          *)
(*                                                                         *)
(* One turn of the loop samples the sensors, takes at most one packet,     *)
(* decides on a direction and a speed for each wheel and writes the PWM    *)
(* registers OC2RS and OC3RS and the direction bits in LATE.               *)
(***************************************************************************)
EXTENDS Integers

CONSTANTS Reading,      \* the values of an infrared sensor
          Packet        \* the packets that may arrive

SEN_MAX == 1020
SEN_MIN == 400
CMD_MOTORS == 1
CMD_BATTERY == 2
CMD_ENABLE_SENSORS == 3
CMD_AUTONOMOUS_MODE == 4
CMD_GET_SENSOR_DATA == 176
CMD_SENSOR == 177
CMD_RIGHT_ENCODER == 182
CMD_LEFT_ENCODER == 183

Byte == 0 .. 255
Sensor == 1 .. 5
Wheel == [direction : {"S", "F", "B"}, speed : Byte]

ASSUME ReadingAssumption == Reading \subseteq 0 .. 1023 /\ 0 \in Reading
ASSUME PacketAssumption == Packet \subseteq [command : Byte, data1 : Byte, data2 : Byte]

VARIABLES
  SENSORS_READY,            \* set by the ISR of the converter
  SENSOR,                   \* the readings the loop works with
  SENSOR_ENABLE, TIMEOUT,
  packet,                   \* the packet with bytesRecieved = 5, none or one
  user_left, user_right,    \* what the operator asked of each wheel
  left, right,              \* what the loop decided for each wheel
  OC2RS, OC3RS, LATE,       \* the registers; LATE as the set of its bits
  report,                   \* the bits of this turn's sensor reply, none or one
  asked,                    \* history: the duties the last command means
  pc

motors == <<OC2RS, OC3RS, LATE>>
wishes == <<user_left, user_right, asked>>
vars == <<SENSORS_READY, SENSOR, SENSOR_ENABLE, TIMEOUT, packet, wishes,
          left, right, motors, report, pc>>

wheel(d, s) == [direction |-> d, speed |-> s]
stopped == wheel("S", 0)

Init ==
  /\ SENSORS_READY = 0 /\ SENSOR = [i \in Sensor |-> 0]
  /\ SENSOR_ENABLE = 0 /\ TIMEOUT = 0 /\ packet = {}
  /\ user_left = stopped /\ user_right = stopped
  /\ left = stopped /\ right = stopped
  /\ OC2RS = 0 /\ OC3RS = 0 /\ LATE = {}
  /\ report = {} /\ asked = [left |-> 0, right |-> 0]
  /\ pc = "sample"

-----------------------------------------------------------------------------
\* The interrupts and the arrival of a packet.
ADC1Interrupt == /\ SENSORS_READY' = 1
                 /\ UNCHANGED <<SENSOR, SENSOR_ENABLE, TIMEOUT, packet, wishes,
                                left, right, motors, report, pc>>

T4Interrupt == /\ TIMEOUT' = 1
               /\ UNCHANGED <<SENSORS_READY, SENSOR, SENSOR_ENABLE, packet, wishes,
                              left, right, motors, report, pc>>

\* The loop reads the five result registers.  The converter goes on while it
\* does, so the five readings need not be of one scan.
Sample == /\ pc = "sample"
          /\ \/ /\ SENSORS_READY = 1
                /\ SENSOR' \in [Sensor -> Reading]
                /\ pc' = "sampled"
             \/ /\ SENSORS_READY = 0
                /\ pc' = "receive"
                /\ UNCHANGED SENSOR
          /\ report' = {}
          /\ UNCHANGED <<SENSORS_READY, SENSOR_ENABLE, TIMEOUT, packet, wishes,
                         left, right, motors>>

ClearSensorsReady ==
  /\ pc = "sampled"
  /\ SENSORS_READY' = 0
  /\ pc' = "receive"
  /\ UNCHANGED <<SENSOR, SENSOR_ENABLE, TIMEOUT, packet, wishes, left, right,
                 motors, report>>

\* The section of FirmwareLink: it may complete a packet.
Receive == /\ pc = "receive"
           /\ packet' \in {{}} \cup {{p} : p \in Packet}
           /\ pc' = "command"
           /\ UNCHANGED <<SENSORS_READY, SENSOR, SENSOR_ENABLE, TIMEOUT, wishes,
                          left, right, motors, report>>

reportBits_Elif ==      \* fault: a bit excludes the bits of later sensors
  {i \in Sensor : SENSOR[i] > SEN_MAX /\ \A j \in Sensor : j < i => SENSOR[j] <= SEN_MAX}

\* The bits of a sensor reply, as main.c computes them.
reportBits ==
  {i \in Sensor : \/ SENSOR[i] > SEN_MAX
                  \/ i \in {2, 4} /\ SENSOR[4] < SEN_MIN
                  \/ i = 5 /\ SENSOR[5] < SEN_MIN}

\* The requests are answered, and all but CMD_SENSOR are consumed.  The reply
\* to CMD_GET_SENSOR_DATA, the host's request, is skipped when the buffer is
\* full; FirmwareLink has the bytes of all replies.
ProcessCmd ==
  /\ pc = "command"
  /\ \/ /\ \E p \in packet : p.command = CMD_GET_SENSOR_DATA
        /\ packet' = {} /\ report' \in {{}, {reportBits}}
     \/ /\ \E p \in packet : p.command = CMD_SENSOR
        /\ report' = {reportBits} /\ UNCHANGED packet
     \/ /\ \E p \in packet :
             p.command \in {CMD_RIGHT_ENCODER, CMD_LEFT_ENCODER, CMD_BATTERY}
        /\ packet' = {} /\ UNCHANGED report
     \/ /\ \A p \in packet :
             p.command \notin {CMD_GET_SENSOR_DATA, CMD_SENSOR, CMD_RIGHT_ENCODER,
                             CMD_LEFT_ENCODER, CMD_BATTERY}
        /\ UNCHANGED <<packet, report>>
  /\ pc' = "motors"
  /\ UNCHANGED <<SENSORS_READY, SENSOR, SENSOR_ENABLE, TIMEOUT, wishes, left,
                 right, motors>>

-----------------------------------------------------------------------------
\* A wheel's byte: a sign bit and a magnitude.
wheelOf_NoMask(b) ==    \* fault: the sign bit stays in the speed
  wheel(IF b >= 128 THEN "B" ELSE IF b # 0 THEN "F" ELSE "S", 2 * b)

wheelOf(b) ==
  wheel(IF b >= 128 THEN "B" ELSE IF b # 0 THEN "F" ELSE "S", 2 * (b % 128))

\* What the same byte means as a number, in units of the duty cycle register.
signedDuty(b) == 4 * (IF b < 128 THEN b ELSE 128 - b)

Motors == /\ pc = "motors"
          /\ \/ \E p \in packet :
                  /\ p.command = CMD_MOTORS
                  /\ packet' = {}
                  /\ user_left' = wheelOf(p.data1)
                  /\ user_right' = wheelOf(p.data2)
                  /\ asked' = [left |-> signedDuty(p.data1),
                               right |-> signedDuty(p.data2)]
             \/ /\ \A p \in packet : p.command # CMD_MOTORS
                /\ UNCHANGED <<packet, wishes>>
          /\ pc' = "enable"
          /\ UNCHANGED <<SENSORS_READY, SENSOR, SENSOR_ENABLE, TIMEOUT, left, right,
                         motors, report>>

Enable ==
  /\ pc = "enable"
  /\ \/ \E p \in packet :
          /\ p.command = CMD_ENABLE_SENSORS
          /\ SENSOR_ENABLE' = p.data1
          /\ UNCHANGED <<packet, wishes>>
     \/ \E p \in packet :
          /\ p.command = CMD_AUTONOMOUS_MODE
          /\ packet' = {}
          /\ LET on == p.data1 = 1
                 w == IF on THEN wheel("F", 255) ELSE stopped
                 d == IF on THEN 510 ELSE 0
             IN /\ user_left' = w /\ user_right' = w
                /\ asked' = [left |-> d, right |-> d]
                /\ SENSOR_ENABLE' = IF on THEN 1 ELSE 0
     \/ /\ \A p \in packet : p.command \notin {CMD_ENABLE_SENSORS, CMD_AUTONOMOUS_MODE}
        /\ UNCHANGED <<SENSOR_ENABLE, packet, wishes>>
  /\ pc' = "avoid"
  /\ UNCHANGED <<SENSORS_READY, SENSOR, TIMEOUT, left, right, motors, report>>

-----------------------------------------------------------------------------
\* Obstacle avoidance: each test that succeeds overrides the ones before it.
tripped(i) == SENSOR_ENABLE # 0 /\ SENSOR[i] > SEN_MAX
SENSOR_TRIPPED == \E i \in Sensor : tripped(i)

pair(l, r) == [left |-> l, right |-> r]
ahead == wheel("F", 255)
back == wheel("B", 255)

front == IF tripped(2) THEN pair(ahead, back) ELSE pair(left, right)
rear == IF tripped(4) \/ tripped(5) THEN pair(ahead, ahead) ELSE front
sides == IF tripped(1) /\ tripped(3) THEN pair(back, wheel("B", 16))
         ELSE IF tripped(1) THEN pair(back, ahead)
         ELSE IF tripped(3) THEN pair(ahead, back)
         ELSE rear

decision_Sticky == sides   \* fault: the operator's wish is not restored

decision == IF SENSOR_TRIPPED THEN sides ELSE pair(user_left, user_right)

Avoid == /\ pc = "avoid"
         /\ left' = decision.left
         /\ right' = decision.right
         /\ pc' = "speed"
         /\ UNCHANGED <<SENSORS_READY, SENSOR, SENSOR_ENABLE, TIMEOUT, packet,
                        wishes, motors, report>>

duty(w) == (2 * w.speed) % 512

SetSpeed == /\ pc = "speed"
            /\ OC3RS' = duty(right)
            /\ OC2RS' = duty(left)
            /\ pc' = "off"
            /\ UNCHANGED <<SENSORS_READY, SENSOR, SENSOR_ENABLE, TIMEOUT, packet,
                           wishes, left, right, LATE, report>>

AllOff_Missing ==  \* fault: LATE = 0 is missing
  /\ pc = "off"
  /\ pc' = "left"
  /\ UNCHANGED <<SENSORS_READY, SENSOR, SENSOR_ENABLE, TIMEOUT, packet,
                 wishes, left, right, motors, report>>

AllOff == /\ pc = "off"
          /\ LATE' = {}
          /\ pc' = "left"
          /\ UNCHANGED <<SENSORS_READY, SENSOR, SENSOR_ENABLE, TIMEOUT, packet,
                         wishes, left, right, OC2RS, OC3RS, report>>

\* The switch on a wheel's direction; f and b are its two bits of LATE.
directed(bits, w, f, b) == IF w.direction = "F" THEN bits \cup {f}
                           ELSE IF w.direction = "B" THEN bits \cup {b}
                           ELSE bits \ {f, b}

SetLeft == /\ pc = "left"
           /\ LATE' = directed(LATE, left, 2, 4)
           /\ pc' = "right"
           /\ UNCHANGED <<SENSORS_READY, SENSOR, SENSOR_ENABLE, TIMEOUT, packet,
                          wishes, left, right, OC2RS, OC3RS, report>>

\* The other wheel; then a packet nobody has consumed is dropped.
SetRight == /\ pc = "right"
            /\ LATE' = directed(LATE, right, 8, 16)
            /\ packet' = {}
            /\ pc' = "sample"
            /\ UNCHANGED <<SENSORS_READY, SENSOR, SENSOR_ENABLE, TIMEOUT, wishes,
                           left, right, OC2RS, OC3RS, report>>

MainLoop == \/ Sample \/ ClearSensorsReady \/ Receive \/ ProcessCmd \/ Motors
            \/ Enable \/ Avoid \/ SetSpeed \/ AllOff \/ SetLeft \/ SetRight

Next == MainLoop \/ ADC1Interrupt \/ T4Interrupt

Spec == Init /\ [][Next]_vars

\* The processor keeps executing the loop.
FairSpec == Spec /\ WF_vars(MainLoop)

-----------------------------------------------------------------------------
(* Properties.                                                             *)

Duty == -510 .. 510

TypeOK ==
  /\ SENSORS_READY \in {0, 1} /\ SENSOR \in [Sensor -> Reading]
  /\ SENSOR_ENABLE \in Byte /\ TIMEOUT \in {0, 1}
  /\ packet \in {{}} \cup {{p} : p \in Packet}
  /\ user_left \in Wheel /\ user_right \in Wheel
  /\ left \in Wheel /\ right \in Wheel
  /\ OC2RS \in 0 .. 511 /\ OC3RS \in 0 .. 511 /\ LATE \subseteq {2, 4, 8, 16}
  /\ report \subseteq SUBSET Sensor /\ asked \in [left : Duty, right : Duty]
  /\ pc \in {"sample", "sampled", "receive", "command", "motors", "enable",
             "avoid", "speed", "off", "left", "right"}

\* The duty a wheel is driven with, negative when it turns backwards.
driven(f, b, oc) == IF f \in LATE THEN oc ELSE IF b \in LATE THEN -oc ELSE 0
leftDriven == driven(2, 4, OC2RS)
rightDriven == driven(8, 16, OC3RS)

\* The manoeuvre for a set of tripped sensors.  The sides go before the rear,
\* the rear before the front.
Manoeuvre(T) ==
  IF {1, 3} \subseteq T THEN [left |-> -510, right |-> -32]
  ELSE IF 1 \in T THEN [left |-> -510, right |-> 510]
  ELSE IF 3 \in T \/ T = {2} THEN [left |-> 510, right |-> -510]
  ELSE [left |-> 510, right |-> 510]

\* What the two wheels ought to do: the last command, or the manoeuvre.
Goal == LET T == {i \in Sensor : tripped(i)}
        IN IF T = {} THEN asked ELSE Manoeuvre(T)

\* When a turn of the loop is complete the motors run as the last motor or
\* autonomous command says, to the unit, unless an enabled sensor sees an
\* obstacle; and a command that came during a manoeuvre, or before it, is in
\* force as soon as the sensors are clear: nothing of a manoeuvre stays behind.
MotorsObey ==
  pc = "sample" => [left |-> leftDriven, right |-> rightDriven] = Goal

\* The stages of a turn: the decision matches the goal from Avoid on, the PWM
\* registers from SetSpeed on, the bits of LATE as far as they are written.
value(w) == IF w.direction = "F" THEN 2 * w.speed
            ELSE IF w.direction = "B" THEN -(2 * w.speed) ELSE 0

TurnInv ==
  /\ asked = [left |-> value(user_left), right |-> value(user_right)]
  /\ pc \in {"speed", "off", "left", "right", "sample"}
       => [left |-> value(left), right |-> value(right)] = Goal
  /\ pc \in {"off", "left", "right", "sample"}
       => OC2RS = duty(left) /\ OC3RS = duty(right)
  /\ pc = "left" => LATE = {}
  /\ pc = "right" => LATE = directed({}, left, 2, 4)
  /\ pc = "sample" => LATE = directed(directed({}, left, 2, 4), right, 8, 16)

\* A wheel is never reversed directly, nor driven both ways: between forwards
\* and backwards both its bits in LATE are off, at every instant an interrupt
\* or the bridge could see.
ReversalPassesThroughOff ==
  [][/\ ~(2 \in LATE /\ 4 \in LATE') /\ ~(4 \in LATE /\ 2 \in LATE')
     /\ ~(8 \in LATE /\ 16 \in LATE') /\ ~(16 \in LATE /\ 8 \in LATE')]_vars

\* The operator is told of every obstacle the robot evades: the sensor reply of
\* a turn, to either request, names each sensor that takes part in the decision
\* of the same turn, though the reply and the decision test the readings in
\* different sections, with the motor and enable commands between them.
ReplyShowsManoeuvre ==
  \A bits \in report : {i \in Sensor : tripped(i)} \subseteq bits

-----------------------------------------------------------------------------
(* What the comments of the code say, and is not so.                       *)

\* "no command has been received in the last 1.5 seconds and the robot should
\* stop moving": after the timer has expired the robot stops.
StopsAfterTimeout ==
  TIMEOUT = 1 ~> pc = "sample" /\ leftDriven = 0 /\ rightDriven = 0
=============================================================================
