-------------------------- MODULE FuelGaugeProofs --------------------------
(***************************************************************************)
(* What the firmware says of the battery, for every answer the gauge could *)
(* give and every order of the interrupts.                                 *)
(***************************************************************************)
EXTENDS FuelGauge, TLAPS

\* While GaugeInv holds, a step of the conversation that is due is its first.
LEMMA FirstStepOnly ==
  ASSUME GaugeInv, Step, I2C_ISR = 1 PROVE Address
  BY DEF GaugeInv, Step, Address, Command, Restart, AddressRead, Read, Stop

\* A char stays a char.
LEMMA Increased == \A n \in -128 .. 127 : increased(n) \in -128 .. 127
  BY DEF increased

LEMMA Initial == Init => TypeOK /\ GaugeInv
  BY DEF Init, TypeOK, GaugeInv, BatteryNeverRead, OnlyTheAddress

\* One step of the firmware, one action at a time.
LEMMA GaugeStep ==
  ASSUME TypeOK, GaugeInv, [Next]_vars PROVE TypeOK' /\ GaugeInv'
<1> USE DEF TypeOK, GaugeInv, BatteryNeverRead, OnlyTheAddress, flags
<1>1. CASE T4Interrupt
  BY <1>1 DEF T4Interrupt
<1>2. CASE MI2C1Interrupt
  <2>1. bus # {}
    BY <1>2 DEF MI2C1Interrupt
  <2>2. GET_BATT = 1 /\ (pc = "step" => I2C_START = 1)
    BY <2>1
  <2> QED BY <1>2, <2>2 DEF MI2C1Interrupt
<1>3. CASE StartBit
  BY <1>3 DEF StartBit
<1>4. CASE Step
  <2>1. CASE I2C_ISR = 1
    <3>1. Address
      BY <1>4, <2>1, FirstStepOnly
    <3>2. UNCHANGED <<I2C_ISR, loaded, reported>>
      BY <1>4 DEF Step
    <3>3. GET_BATT = 1
      BY <2>1
    <3>4. /\ UNCHANGED <<GET_BATT, BATT_READY, I2C_RESTART, I2C_SEND_BYTE,
                          I2C_RECV_BYTE, I2C_ERROR, battery_percentage, bus>>
          /\ I2C_START' = 0 /\ toSend' = 170 /\ pc' = "send"
      BY <3>1 DEF Address, sending, ADDRESS
    <3>5. TypeOK'
      BY <3>2, <3>4
    <3>6. GaugeInv'
      BY <3>2, <3>3, <3>4 DEF ADDRESS
    <3> QED BY <3>5, <3>6
  <2>2. CASE I2C_ISR # 1
    <3>1. /\ UNCHANGED <<flags, battery_percentage, bus, toSend, loaded, reported>>
          /\ pc' = "reply"
      BY <1>4, <2>2 DEF Step
    <3>2. TypeOK'
      BY <3>1
    <3>3. GaugeInv'
      BY <3>1
    <3> QED BY <3>2, <3>3
  <2> QED BY <2>1, <2>2
<1>5. CASE SendByte
  <2>1. toSend = ADDRESS /\ pc = "send"
    BY <1>5 DEF SendByte
  <2>2. I2C_SEND_BYTE' = increased(I2C_SEND_BYTE)
    BY <1>5, <2>1 DEF SendByte, ADDRESS, ADDRESS_READ
  <2>3. I2C_SEND_BYTE' \in -128 .. 127
    <3>1. I2C_SEND_BYTE \in -128 .. 127
      OBVIOUS
    <3> HIDE DEF TypeOK, GaugeInv
    <3> QED BY <2>2, <3>1, Increased
  <2>4. loaded' \subseteq {ADDRESS} /\ loaded' \subseteq 0 .. 255
    BY <1>5, <2>1 DEF SendByte, ADDRESS
  <2>5. bus' \subseteq {"start", "restart", "byte", "ack"}
    BY <1>5 DEF SendByte
  <2>6. /\ UNCHANGED <<GET_BATT, BATT_READY, I2C_ISR, I2C_START, I2C_RESTART,
                        I2C_RECV_BYTE, I2C_ERROR, battery_percentage, toSend, reported>>
        /\ pc' = "reply"
    BY <1>5 DEF SendByte
  <2>7. TypeOK'
    BY <2>3, <2>4, <2>5, <2>6
  <2>8. GaugeInv'
    BY <2>1, <2>4, <2>6
  <2> QED BY <2>7, <2>8
<1>6. CASE Reply
  BY <1>6 DEF Reply
<1>7. CASE UNCHANGED vars
  BY <1>7 DEF vars
<1> QED BY <1>1, <1>2, <1>3, <1>4, <1>5, <1>6, <1>7 DEF Next

\* The flags stay in their ranges, and a step that is due is the first one of
\* the conversation, for whatever the receive register may hold.
THEOREM GaugeInvariant == Spec => [](TypeOK /\ GaugeInv)
  BY Initial, GaugeStep, PTL DEF Spec

\* No sequence of timer and bus interrupts makes the firmware read the gauge:
\* it reports 100 percent for ever.
THEOREM TheBatteryIsNeverRead == Spec => []BatteryNeverRead
<1>1. GaugeInv => BatteryNeverRead
  BY DEF GaugeInv
<1> QED BY <1>1, GaugeInvariant, PTL

\* Only the gauge's address is ever put on the bus.
THEOREM TheBusCarriesTheAddress == Spec => []OnlyTheAddress
<1>1. GaugeInv => OnlyTheAddress
  BY DEF GaugeInv
<1> QED BY <1>1, GaugeInvariant, PTL

\* Since Read is never reached, nothing takes a request back.
THEOREM RequestsLast == Spec => RequestLasts
<1>1. ASSUME GaugeInv, [Next]_vars, GET_BATT = 1 PROVE GET_BATT' = 1
  <2>1. CASE Step
    <3>1. CASE I2C_ISR = 1
      BY <1>1, <2>1, <3>1, FirstStepOnly DEF Address
    <3>2. CASE I2C_ISR # 1
      BY <1>1, <2>1, <3>2 DEF Step
    <3> QED BY <3>1, <3>2
  <2>2. CASE T4Interrupt \/ MI2C1Interrupt \/ StartBit \/ SendByte \/ Reply
    BY <1>1, <2>2 DEF T4Interrupt, MI2C1Interrupt, StartBit, SendByte, Reply, flags
  <2>3. CASE UNCHANGED vars
    BY <1>1, <2>3 DEF vars, flags
  <2> QED BY <1>1, <2>1, <2>2, <2>3 DEF Next
<1>2. GaugeInv /\ [Next]_vars => [GET_BATT = 1 => GET_BATT' = 1]_vars
  BY <1>1
<1> QED BY <1>2, GaugeInvariant, PTL DEF Spec, RequestLasts
=============================================================================
