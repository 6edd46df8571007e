----------------------------- MODULE FuelGauge -----------------------------
(***************************************************************************)
(* The conversation with the battery's fuel gauge over the I2C bus: the    *)
(* flags that make a state machine of one section of the main loop, the    *)
(* two interrupts that drive it and the answer to a battery request.       *)
(*                                                                         *)
(* Intended: timer 4 asks for a reading, a start condition opens the       *)
(* conversation, and each interrupt of the bus takes it one step further   *)
(* until a byte has been read.                                             *)
(***************************************************************************)
EXTENDS Integers

CONSTANT Reading        \* what I2C1RCV may hold

ASSUME ReadingAssumption == Reading \subseteq 0 .. 255

VARIABLES
  GET_BATT, BATT_READY, battery_percentage,
  I2C_ISR,              \* set by the bus interrupt; no line clears it
  I2C_START, I2C_RESTART, I2C_SEND_BYTE, I2C_RECV_BYTE, I2C_ERROR,
  bus,                  \* what the bus module still has to do
  toSend,               \* the byte send_byte_i2c is waiting to load
  loaded,               \* history: the bytes loaded into I2C1TRN
  reported,             \* history: what the battery replies said
  pc

flags == <<GET_BATT, BATT_READY, I2C_ISR, I2C_START, I2C_RESTART,
           I2C_SEND_BYTE, I2C_RECV_BYTE, I2C_ERROR>>
vars == <<flags, battery_percentage, bus, toSend, loaded, reported, pc>>

ADDRESS == 170          \* 0xAA, the gauge's address in write mode
ADDRESS_READ == 171     \* 0xAB, and in read mode

Init == /\ GET_BATT = 0 /\ BATT_READY = 0 /\ battery_percentage = 100
        /\ I2C_ISR = 0 /\ I2C_START = 0 /\ I2C_RESTART = 0
        /\ I2C_SEND_BYTE = 0 /\ I2C_RECV_BYTE = 0 /\ I2C_ERROR = 0
        /\ bus = {} /\ toSend = 0 /\ loaded = {} /\ reported = {}
        /\ pc = "start"

-----------------------------------------------------------------------------
\* Timer 4: a new reading is wanted.
T4Interrupt == /\ GET_BATT' = 1
               /\ UNCHANGED <<BATT_READY, I2C_ISR, I2C_START, I2C_RESTART,
                              I2C_SEND_BYTE, I2C_RECV_BYTE, I2C_ERROR,
                              battery_percentage, bus, toSend, loaded, reported, pc>>

\* The bus module has finished one of the things it was told to do.
MI2C1Interrupt ==
  /\ \E e \in bus : bus' = bus \ {e}
  /\ I2C_ISR' = 1
  /\ UNCHANGED <<GET_BATT, BATT_READY, I2C_START, I2C_RESTART, I2C_SEND_BYTE,
                 I2C_RECV_BYTE, I2C_ERROR, battery_percentage, toSend, loaded,
                 reported, pc>>

-----------------------------------------------------------------------------
(* The section of the main loop.                                           *)

StartBit_Once ==        \* fault: one start condition for each request
  /\ pc = "start"
  /\ \/ /\ GET_BATT = 1
        /\ GET_BATT' = 0
        /\ I2C_START' = 1
        /\ bus' = bus \cup {"start"}
     \/ GET_BATT = 0 /\ UNCHANGED <<GET_BATT, I2C_START, bus>>
  /\ pc' = "step"
  /\ UNCHANGED <<BATT_READY, I2C_ISR, I2C_RESTART, I2C_SEND_BYTE, I2C_RECV_BYTE,
                 I2C_ERROR, battery_percentage, toSend, loaded, reported>>

\* if(GET_BATT == 1) I2C_START = i2c_start()
StartBit ==
  /\ pc = "start"
  /\ \/ /\ GET_BATT = 1
        /\ I2C_START' = 1
        /\ bus' = bus \cup {"start"}
     \/ GET_BATT = 0 /\ UNCHANGED <<I2C_START, bus>>
  /\ pc' = "step"
  /\ UNCHANGED <<GET_BATT, BATT_READY, I2C_ISR, I2C_RESTART, I2C_SEND_BYTE,
                 I2C_RECV_BYTE, I2C_ERROR, battery_percentage, toSend, loaded,
                 reported>>

\* A step whose call of send_byte_i2c comes last.
sending(b) == toSend' = b /\ pc' = "send" /\ UNCHANGED bus

Address == /\ I2C_START = 1
           /\ I2C_START' = 0
           /\ sending(ADDRESS)
           /\ UNCHANGED <<GET_BATT, BATT_READY, I2C_RESTART, I2C_SEND_BYTE,
                          I2C_RECV_BYTE, I2C_ERROR, battery_percentage>>

Command == /\ I2C_START # 1 /\ I2C_SEND_BYTE \in {1, 2}
           /\ sending(I2C_SEND_BYTE + 1)
           /\ UNCHANGED <<GET_BATT, BATT_READY, I2C_START, I2C_RESTART, I2C_SEND_BYTE,
                          I2C_RECV_BYTE, I2C_ERROR, battery_percentage>>

Restart == /\ I2C_START # 1 /\ I2C_SEND_BYTE = 3
           /\ I2C_SEND_BYTE' = 0
           /\ I2C_RESTART' = I2C_RESTART + 1
           /\ bus' = bus \cup {"restart"}
           /\ pc' = "reply"
           /\ UNCHANGED <<GET_BATT, BATT_READY, I2C_START, I2C_RECV_BYTE, I2C_ERROR,
                          battery_percentage, toSend>>

AddressRead == /\ I2C_START # 1 /\ I2C_SEND_BYTE \notin 1 .. 3 /\ I2C_RESTART = 1
               /\ I2C_RESTART' = 0
               /\ sending(ADDRESS_READ)
               /\ UNCHANGED <<GET_BATT, BATT_READY, I2C_START, I2C_SEND_BYTE,
                              I2C_RECV_BYTE, I2C_ERROR, battery_percentage>>

Read == /\ I2C_START # 1 /\ I2C_RESTART # 1 /\ I2C_SEND_BYTE = 4
        /\ I2C_SEND_BYTE' = 0
        /\ battery_percentage' \in Reading
        /\ bus' = bus \cup {"ack"}
        /\ I2C_RECV_BYTE' = 1
        /\ BATT_READY' = 1
        /\ GET_BATT' = 0
        /\ pc' = "reply"
        /\ UNCHANGED <<I2C_START, I2C_RESTART, I2C_ERROR, toSend>>

\* The stop condition is commented out, so I2C_STOP is never 1.
Stop == /\ I2C_START # 1 /\ I2C_RESTART # 1 /\ I2C_SEND_BYTE \notin 1 .. 4
        /\ \/ I2C_RECV_BYTE = 1 /\ I2C_RECV_BYTE' = 0 /\ UNCHANGED I2C_ERROR
           \/ I2C_RECV_BYTE # 1 /\ I2C_ERROR' = 1 /\ UNCHANGED I2C_RECV_BYTE
        /\ pc' = "reply"
        /\ UNCHANGED <<GET_BATT, BATT_READY, I2C_START, I2C_RESTART, I2C_SEND_BYTE,
                       battery_percentage, bus, toSend>>

\* if(I2C_ISR == 1): one step of the conversation.
Step == /\ pc = "step"
        /\ \/ /\ I2C_ISR = 1
              /\ Address \/ Command \/ Restart \/ AddressRead \/ Read \/ Stop
           \/ /\ I2C_ISR = 0
              /\ pc' = "reply"
              /\ UNCHANGED <<GET_BATT, BATT_READY, I2C_START, I2C_RESTART,
                             I2C_SEND_BYTE, I2C_RECV_BYTE, I2C_ERROR,
                             battery_percentage, bus, toSend>>
        /\ UNCHANGED <<I2C_ISR, loaded, reported>>

\* One more in a signed 8-bit char.
increased_Unwrapped(n) == n + 1    \* fault: not kept to eight bits
increased(n) == IF n = 127 THEN -128 ELSE n + 1

\* send_byte_i2c waits while the transmit register is full.  A write while the
\* module is busy with something else is refused.
SendByte == /\ pc = "send"
            /\ "byte" \notin bus
            /\ loaded' = loaded \cup {toSend}
            /\ \/ bus' = bus \cup {"byte"}
               \/ bus # {} /\ UNCHANGED bus
            /\ I2C_SEND_BYTE' = LET n == increased(I2C_SEND_BYTE)
                                IN IF toSend = ADDRESS_READ /\ n = 1 THEN 4 ELSE n
            /\ pc' = "reply"
            /\ UNCHANGED <<GET_BATT, BATT_READY, I2C_ISR, I2C_START, I2C_RESTART,
                           I2C_RECV_BYTE, I2C_ERROR, battery_percentage, toSend,
                           reported>>

\* Later in the same turn a battery request may be answered.
Reply == /\ pc = "reply"
         /\ reported' \in {reported, reported \cup {battery_percentage}}
         /\ pc' = "start"
         /\ UNCHANGED <<flags, battery_percentage, bus, toSend, loaded>>

Next == T4Interrupt \/ MI2C1Interrupt \/ StartBit \/ Step \/ SendByte \/ Reply

Spec == Init /\ [][Next]_vars

-----------------------------------------------------------------------------
(* Properties.                                                             *)

TypeOK == /\ GET_BATT \in {0, 1} /\ BATT_READY \in {0, 1}
          /\ battery_percentage \in 0 .. 255
          /\ I2C_ISR \in {0, 1} /\ I2C_START \in {0, 1} /\ I2C_RESTART \in {0, 1}
          /\ I2C_SEND_BYTE \in -128 .. 127
          /\ I2C_RECV_BYTE \in {0, 1} /\ I2C_ERROR \in {0, 1}
          /\ bus \subseteq {"start", "restart", "byte", "ack"}
          /\ toSend \in 0 .. 255 /\ loaded \subseteq 0 .. 255
          /\ reported \subseteq 0 .. 255
          /\ pc \in {"start", "step", "send", "reply"}

\* No reading is ever taken: GET_BATT stays 1 until a byte has been read, so
\* every turn of the loop begins the conversation again and the first branch
\* of the step wins.  Every battery reply says 100, the initial value.
BatteryNeverRead == battery_percentage = 100 /\ BATT_READY = 0 /\ reported \subseteq {100}

\* The gauge sees its own address and nothing else, in whatever order the
\* interrupts of the bus and of the timer come.
OnlyTheAddress == loaded \subseteq {ADDRESS}

\* A request, once made, is never done with.
RequestLasts == [][GET_BATT = 1 => GET_BATT' = 1]_vars

\* Why: the bus has something to report only after a request, and whenever a
\* step is due in which it has reported, this turn has set I2C_START; so the
\* byte being sent is the address.
GaugeInv == /\ I2C_ISR = 1 \/ bus # {} => GET_BATT = 1
            /\ pc = "step" /\ (I2C_ISR = 1 \/ bus # {}) => I2C_START = 1
            /\ pc = "send" => toSend = ADDRESS /\ GET_BATT = 1
            /\ BatteryNeverRead
            /\ OnlyTheAddress
=============================================================================
