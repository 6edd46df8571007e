---------------------------- MODULE FirmwareLink ----------------------------
(***************************************************************************)
(* The serial link between the Atom board and the PIC24, seen from the     *)
(* microcontroller.  The main loop goes through its sections in a fixed    *)
(* order (print, transmit, receive, assemble, process); between any two    *)
(* machine instructions an interrupt service routine may set one of the    *)
(* flags the loop polls.  The loop clears those flags itself, after it has *)
(* acted on them, so pc also stops between the access to the UART register *)
(* and the assignment that clears the flag.                                *)
(*                                                                         *)
(* RX_DATA_BUFFER and TX_DATA_BUFFER are the queues that ByteBuffer        *)
(* implements.  What a command does to the motors is in MotorControl.      *)
(***************************************************************************)
EXTENDS Integers, Sequences

CONSTANTS Packet,       \* the command packets the Atom board may send
          TxCapacity,   \* characters TX_DATA_BUFFER holds
          PrintLength,  \* characters of the sensor report of one PRINT
          FifoDepth,    \* bytes the receiver's hardware FIFO holds
          MaxPackets,   \* bound: packets the board sends
          MaxBad        \* bound: bytes that arrive with a parity or framing error

SYNC == 170             \* 0xAA, the first byte of every packet
CMD_MOTORS == 1
CMD_BATTERY == 2
CMD_ENABLE_SENSORS == 3
CMD_AUTONOMOUS_MODE == 4
CMD_GET_SENSOR_DATA == 176
CMD_SENSOR == 177
CMD_RIGHT_ENCODER == 182
CMD_LEFT_ENCODER == 183

uint8 == 0 .. 255

ASSUME PacketAssumption ==
  Packet \subseteq [seq : uint8, command : uint8, data1 : uint8, data2 : uint8]
ASSUME BoundAssumption ==
  /\ TxCapacity \in Nat \ {0} /\ PrintLength \in Nat /\ FifoDepth \in Nat \ {0}
  /\ MaxPackets \in Nat /\ MaxBad \in Nat

VARIABLES
  sent,            \* packets the Atom board has written to its serial port
  arrived,         \* how many bytes of them have reached the receiver
  bad,             \* how many of those arrived with a parity or framing error
  fifo,            \* the receiver's hardware FIFO, [val, bad] each
  oerr,            \* overrun: the receiver is off until software clears it
  READY_TO_REC, READY_TO_SEND, PRINT,   \* flags set by the ISRs
  RX, TX,          \* RX_DATA_BUFFER and TX_DATA_BUFFER
  txreg,           \* U1TXREG, empty or one character
  toPrint,         \* characters the running PRINT still has to push
  controlpacket,   \* the packet being assembled
  executed,        \* history: the packets the loop has acted on
  pc               \* the section of the main loop that runs next

board == <<sent, arrived, bad>>
receiver == <<fifo, oerr, READY_TO_REC>>
transmitter == <<txreg, READY_TO_SEND>>
vars == <<board, receiver, transmitter, PRINT, RX, TX, toPrint,
          controlpacket, executed, pc>>

\* The kth byte the Atom board sends: MinosPacket, five bytes, first the sync.
wireByte(k) ==
  LET p == sent[(k - 1) \div 5 + 1]
      i == (k - 1) % 5
  IN IF i = 0 THEN SYNC ELSE IF i = 1 THEN p.seq ELSE IF i = 2 THEN p.command
     ELSE IF i = 3 THEN p.data1 ELSE p.data2

Init ==
  /\ sent = <<>> /\ arrived = 0 /\ bad = 0
  /\ fifo = <<>> /\ oerr = FALSE /\ READY_TO_REC = 0
  /\ txreg = <<>> /\ READY_TO_SEND = 1
  /\ PRINT = 0 /\ RX = <<>> /\ TX = <<>> /\ toPrint = 0
  /\ controlpacket = [bytesRecieved |-> 0, sequence |-> 0, command |-> 0,
                      data1 |-> 0, data2 |-> 0]
  /\ executed = <<>>
  /\ pc = "print"

-----------------------------------------------------------------------------
\* The characters put into TX: those the tests tell apart.  A reply is five
\* characters, what names the packet and byte the place in it.
ECHO == 256
REPORT == 257
echoed == [what |-> ECHO, byte |-> 0]
printed == [what |-> REPORT, byte |-> 0]
reply(c) == [i \in 1 .. 5 |-> [what |-> c, byte |-> i]]

\* A row of BUFF_push calls whose results nobody looks at: what does not fit
\* is dropped.

pushed(q, s) == LET room == TxCapacity - Len(q)
                IN q \o (IF Len(s) <= room THEN s ELSE SubSeq(s, 1, room))

full(q) == Len(q) = TxCapacity

\* Which replies a complete packet gets.
replies(c) ==
  IF c = CMD_GET_SENSOR_DATA
  THEN reply(CMD_SENSOR) \o reply(CMD_LEFT_ENCODER) \o reply(CMD_RIGHT_ENCODER)
  ELSE IF c \in {CMD_RIGHT_ENCODER, CMD_LEFT_ENCODER, CMD_BATTERY, CMD_SENSOR, CMD_MOTORS}
  THEN reply(c)
  ELSE <<>>

-----------------------------------------------------------------------------
(* The main loop.                                                          *)

StartPrint == /\ pc = "print"
              /\ \/ PRINT = 1 /\ toPrint' = PrintLength /\ pc' = "printing"
                 \/ PRINT = 0 /\ pc' = "tx" /\ UNCHANGED toPrint
              /\ UNCHANGED <<board, receiver, transmitter, PRINT, RX, TX,
                             controlpacket, executed>>

\* One turn of printString's loop: it spins while the buffer is full.
PrintChar == /\ pc = "printing" /\ toPrint > 0
             /\ ~full(TX)
             /\ TX' = Append(TX, printed)
             /\ toPrint' = toPrint - 1
             /\ UNCHANGED <<board, receiver, transmitter, PRINT, RX,
                            controlpacket, executed, pc>>

EndPrint == /\ pc = "printing" /\ toPrint = 0
            /\ PRINT' = 0
            /\ pc' = "tx"
            /\ UNCHANGED <<board, receiver, transmitter, RX, TX, toPrint,
                           controlpacket, executed>>

WriteTxReg_NoFlag ==  \* fault: READY_TO_SEND is not tested
  /\ pc = "tx"
  /\ IF TX # <<>> /\ txreg = <<>>
     THEN /\ txreg' = Append(txreg, Head(TX)) /\ TX' = Tail(TX)
          /\ pc' = "txclear"
     ELSE pc' = "rx" /\ UNCHANGED <<txreg, TX>>
  /\ UNCHANGED <<board, receiver, READY_TO_SEND, PRINT, RX, toPrint,
                 controlpacket, executed>>

\* U1TXREG = BUFF_pop(&TX_DATA_BUFFER)
WriteTxReg == /\ pc = "tx"
              /\ \/ /\ READY_TO_SEND = 1 /\ TX # <<>>
                    /\ txreg' = Append(txreg, Head(TX))
                    /\ TX' = Tail(TX)
                    /\ pc' = "txclear"
                 \/ /\ READY_TO_SEND = 0 \/ TX = <<>>
                    /\ pc' = "rx"
                    /\ UNCHANGED <<txreg, TX>>
              /\ UNCHANGED <<board, receiver, READY_TO_SEND, PRINT, RX, toPrint,
                             controlpacket, executed>>

ClearReadyToSend == /\ pc = "txclear"
                    /\ READY_TO_SEND' = 0
                    /\ pc' = "rx"
                    /\ UNCHANGED <<board, receiver, txreg, PRINT, RX, TX, toPrint,
                                   controlpacket, executed>>

\* tempC = U1RXREG takes the byte at the top of the hardware FIFO.  RX is
\* emptied in every turn of the loop, so its BUFF_FULL test always passes.
ReadRxReg == /\ pc = "rx"
             /\ \/ /\ READY_TO_REC = 1
                   /\ fifo # <<>>
                   /\ RX' = Append(RX, Head(fifo).val)
                   /\ fifo' = Tail(fifo)
                   /\ pc' = "rxclear"
                \/ /\ READY_TO_REC = 0
                   /\ pc' = "assemble"
                   /\ UNCHANGED <<RX, fifo>>
             /\ UNCHANGED <<board, oerr, READY_TO_REC, transmitter, PRINT, TX,
                            toPrint, controlpacket, executed>>

ClearReadyToRec == /\ pc = "rxclear"
                   /\ READY_TO_REC' = 0
                   /\ pc' = "assemble"
                   /\ UNCHANGED <<board, fifo, oerr, transmitter, PRINT, RX, TX,
                                  toPrint, controlpacket, executed>>

assembled_NoLast(cp, c) ==  \* fault: the fifth character is not counted
  LET n == cp.bytesRecieved
      counted == [cp EXCEPT !.bytesRecieved = n + 1]
  IN IF n = 0 THEN IF c = SYNC THEN counted ELSE cp
     ELSE IF n = 1 THEN [counted EXCEPT !.sequence = c]
     ELSE IF n = 2 THEN [counted EXCEPT !.command = c]
     ELSE IF n = 3 THEN [counted EXCEPT !.data1 = c]
     ELSE [cp EXCEPT !.data2 = c]

\* One received character into the control packet, by its place in it.
assembled(cp, c) ==
  LET n == cp.bytesRecieved
      counted == [cp EXCEPT !.bytesRecieved = n + 1]
  IN IF n = 0 THEN IF c = SYNC THEN counted ELSE cp
     ELSE IF n = 1 THEN [counted EXCEPT !.sequence = c]
     ELSE IF n = 2 THEN [counted EXCEPT !.command = c]
     ELSE IF n = 3 THEN [counted EXCEPT !.data1 = c]
     ELSE IF n = 4 THEN [counted EXCEPT !.data2 = c]
     ELSE cp

Assemble == /\ pc = "assemble"
            /\ \/ /\ RX # <<>>
                  /\ RX' = Tail(RX)
                  /\ TX' = pushed(TX, <<echoed>>)
                  /\ controlpacket' = assembled(controlpacket, Head(RX))
               \/ /\ RX = <<>>
                  /\ UNCHANGED <<RX, TX, controlpacket>>
            /\ pc' = "process"
            /\ UNCHANGED <<board, receiver, transmitter, PRINT, toPrint, executed>>

Process_NotConsumed ==  \* fault: bytesRecieved is not reset
  /\ pc = "process"
  /\ IF controlpacket.bytesRecieved = 5
     THEN /\ TX' = pushed(TX, replies(controlpacket.command))
          /\ executed' = Append(executed,
                           [seq |-> controlpacket.sequence,
                            command |-> controlpacket.command,
                            data1 |-> controlpacket.data1,
                            data2 |-> controlpacket.data2])
     ELSE UNCHANGED <<TX, executed>>
  /\ pc' = "print"
  /\ UNCHANGED <<board, receiver, transmitter, PRINT, RX, toPrint, controlpacket>>

\* From PROCESS CMD to the end of the loop body: whichever branch consumes
\* the packet, bytesRecieved is 0 again when the loop starts over.
Process == /\ pc = "process"
           /\ \/ /\ controlpacket.bytesRecieved = 5
                 /\ TX' = pushed(TX, replies(controlpacket.command))
                 /\ executed' = Append(executed,
                                  [seq |-> controlpacket.sequence,
                                   command |-> controlpacket.command,
                                   data1 |-> controlpacket.data1,
                                   data2 |-> controlpacket.data2])
                 /\ controlpacket' = [controlpacket EXCEPT !.bytesRecieved = 0]
              \/ /\ controlpacket.bytesRecieved # 5
                 /\ UNCHANGED <<TX, executed, controlpacket>>
           /\ pc' = "print"
           /\ UNCHANGED <<board, receiver, transmitter, PRINT, RX, toPrint>>

MainLoop == StartPrint \/ PrintChar \/ EndPrint \/ WriteTxReg \/ ClearReadyToSend
            \/ ReadRxReg \/ ClearReadyToRec \/ Assemble \/ Process

-----------------------------------------------------------------------------
(* The interrupts, and the hardware and the board that cause them.         *)

\* Minotaur::sendpacket writes the five bytes at once.
SendPacket(p) == /\ Len(sent) < MaxPackets
                 /\ sent' = Append(sent, p)
                 /\ UNCHANGED <<arrived, bad, receiver, transmitter, PRINT, RX, TX,
                                toPrint, controlpacket, executed, pc>>

\* What a damaged byte reads as: its top bit is flipped.
damaged(v) == (v + 128) % 256

Receive_IgnoresErrors(error) ==  \* fault: PERR and FERR are not tested
  /\ arrived < 5 * Len(sent)
  /\ error => bad < MaxBad
  /\ arrived' = arrived + 1
  /\ bad' = IF error THEN bad + 1 ELSE bad
  /\ ~oerr /\ Len(fifo) < FifoDepth
  /\ fifo' = Append(fifo, [val |-> IF error THEN damaged(wireByte(arrived + 1))
                                  ELSE wireByte(arrived + 1), bad |-> error])
  /\ READY_TO_REC' = 1
  /\ UNCHANGED <<sent, oerr, transmitter, PRINT, RX, TX, toPrint, controlpacket,
                 executed, pc>>

\* The next byte reaches the receiver.  PERR and FERR describe the byte at the
\* top of the FIFO, not the one that has just arrived; a byte that finds the
\* FIFO full is lost and turns the receiver off (nothing clears OERR).
Receive(error) ==
  /\ arrived < 5 * Len(sent)
  /\ error => bad < MaxBad
  /\ arrived' = arrived + 1
  /\ bad' = IF error THEN bad + 1 ELSE bad
  /\ \/ /\ oerr \/ Len(fifo) = FifoDepth
        /\ oerr' = TRUE
        /\ UNCHANGED <<fifo, READY_TO_REC>>
     \/ /\ ~oerr /\ Len(fifo) < FifoDepth
        /\ LET v == wireByte(arrived + 1)
           IN fifo' = Append(fifo, [val |-> IF error THEN damaged(v) ELSE v,
                                    bad |-> error])
        /\ READY_TO_REC' = IF Head(fifo').bad THEN READY_TO_REC ELSE 1
        /\ UNCHANGED oerr
  /\ UNCHANGED <<sent, transmitter, PRINT, RX, TX, toPrint, controlpacket,
                 executed, pc>>

U1TXInterrupt_NotEmpty ==  \* fault: interrupts only while more than one waits
  /\ Len(txreg) > 1
  /\ txreg' = Tail(txreg)
  /\ READY_TO_SEND' = 1
  /\ UNCHANGED <<board, receiver, PRINT, RX, TX, toPrint, controlpacket,
                 executed, pc>>

\* The character moves to the shift register, U1TXREG is empty again.
U1TXInterrupt == /\ txreg # <<>>
                 /\ txreg' = Tail(txreg)
                 /\ READY_TO_SEND' = 1
                 /\ UNCHANGED <<board, receiver, PRINT, RX, TX, toPrint,
                                controlpacket, executed, pc>>

T4Interrupt == /\ PRINT' = 1
               /\ UNCHANGED <<board, receiver, transmitter, RX, TX, toPrint,
                              controlpacket, executed, pc>>

Next == \/ MainLoop
        \/ \E p \in Packet : SendPacket(p)
        \/ \E error \in BOOLEAN : Receive(error)
        \/ U1TXInterrupt \/ T4Interrupt

Spec == Init /\ [][Next]_vars

\* The processor keeps executing the main loop, a byte on the wire arrives and
\* the UART shifts out what it was given; nothing makes the board send or
\* timer 4 expire.
FairSpec == /\ Spec
            /\ WF_vars(MainLoop)
            /\ WF_vars(\E error \in BOOLEAN : Receive(error))
            /\ WF_vars(U1TXInterrupt)

-----------------------------------------------------------------------------
(* Safety.                                                                 *)

Received == [val : uint8, bad : BOOLEAN]
TxChar == [what : 0 .. REPORT, byte : 0 .. 5]

\* Every variable stays in its range; in particular no buffer outgrows its
\* array, and RX_DATA_BUFFER never holds more than one character.
TypeOK ==
  /\ sent \in Seq(Packet) /\ arrived \in Nat /\ bad \in Nat
  /\ fifo \in Seq(Received) /\ Len(fifo) <= FifoDepth
  /\ oerr \in BOOLEAN
  /\ READY_TO_REC \in {0, 1} /\ READY_TO_SEND \in {0, 1} /\ PRINT \in {0, 1}
  /\ RX \in Seq(uint8) /\ Len(RX) <= 1
  /\ TX \in Seq(TxChar) /\ Len(TX) <= TxCapacity
  /\ txreg \in Seq(TxChar) /\ Len(txreg) <= 1
  /\ toPrint \in 0 .. PrintLength
  /\ controlpacket \in [bytesRecieved : 0 .. 5, sequence : uint8, command : uint8,
                        data1 : uint8, data2 : uint8]
  /\ executed \in Seq([seq : uint8, command : uint8, data1 : uint8, data2 : uint8])
  /\ pc \in {"print", "printing", "tx", "txclear", "rx", "rxclear",
             "assemble", "process"}

\* What the loop acts on are exactly the packets the board sent, in order and
\* without a gap, whatever interrupts it loses and whatever bytes arrive
\* damaged or are overrun: the link may go deaf, it never misreads a command.
CommandsInOrder ==
  /\ Len(executed) <= Len(sent)
  /\ \A i \in 1 .. Len(executed) : executed[i] = sent[i]

\* READY_TO_REC is set only while an intact byte is at the top of the hardware
\* FIFO: the loop reads neither an empty receive register nor a damaged byte.
\* (Between the read and the clearing of the flag it still says 1.)
ReceiveFlagTruthful ==
  READY_TO_REC = 1 /\ pc # "rxclear" => fifo # <<>> /\ ~Head(fifo).bad

\* READY_TO_SEND is set only while U1TXREG is empty: no character is written
\* over one that has not left yet.
TransmitRegisterFree ==
  READY_TO_SEND = 1 /\ pc # "txclear" => txreg = <<>>

\* Why commands come out whole.  Taken: the bytes the loop has taken out of the
\* hardware FIFO.  The FIFO holds the bytes that follow them;
Taken == 5 * Len(executed) + controlpacket.bytesRecieved + Len(RX)

FifoContinues ==
  /\ arrived <= 5 * Len(sent)
  /\ Taken + Len(fifo) <= arrived
  /\ ~oerr => Taken + Len(fifo) = arrived
  /\ \A i \in 1 .. Len(fifo) : ~fifo[i].bad => fifo[i].val = wireByte(Taken + i)

\* RX_DATA_BUFFER holds at most the last byte taken, on its way to the packet;
RxInTransit ==
  /\ pc = "rxclear" => RX # <<>>
  /\ RX # <<>> => pc \in {"rxclear", "assemble"} /\ Head(RX) = wireByte(Taken)

\* and the control packet holds the beginning of the next packet.
PacketPrefix ==
  LET n == 5 * Len(executed)
      cp == controlpacket
  IN /\ cp.bytesRecieved = 5 => pc = "process"
     /\ cp.bytesRecieved >= 2 => cp.sequence = wireByte(n + 2)
     /\ cp.bytesRecieved >= 3 => cp.command = wireByte(n + 3)
     /\ cp.bytesRecieved >= 4 => cp.data1 = wireByte(n + 4)
     /\ cp.bytesRecieved = 5 => cp.data2 = wireByte(n + 5)

\* Every byte between the wire and the command is accounted for, at every
\* point of the loop and between any two interrupts.
LinkInv == /\ TypeOK
           /\ FifoContinues
           /\ RxInTransit
           /\ PacketPrefix
           /\ ReceiveFlagTruthful
           /\ TransmitRegisterFree
           /\ CommandsInOrder

-----------------------------------------------------------------------------
(* How the link fails, and that it cannot fail in another way.             *)

\* printString waits for room in TX_DATA_BUFFER, which only the main loop
\* makes: once it waits it waits for ever.
Hung == pc = "printing" /\ toPrint > 0 /\ full(TX)
HangIsForever == [][Hung => Hung']_vars

\* A damaged byte at the top of the FIFO is never read, since the ISR sets the
\* flag for no later byte either: from then on the receiver is deaf.
Deaf == fifo # <<>> /\ Head(fifo).bad /\ READY_TO_REC = 0
DeafIsForever == [][Deaf => Deaf']_vars

\* The transmit interrupt came before the loop cleared the flag: READY_TO_SEND
\* is 0 with nothing in U1TXREG whose departure would set it again.
Stalled == READY_TO_SEND = 0 /\ txreg = <<>> /\ pc # "txclear"
StallIsForever == [][Stalled => Stalled']_vars

\* None of the three failures ever heals (UARTfunctions.c:59, main.c:207 and
\* 774): only a reset of the microcontroller brings the link back.
FailuresLast == [][/\ Hung => Hung'
                   /\ Deaf => Deaf'
                   /\ Stalled => Stalled']_vars

\* The flag that lets the loop send becomes set again and again, unless the
\* transmitter has stalled: no other order of the loop's and the interrupt's
\* steps leaves it clear (main.c:207 and 774).  A loop that hangs sends nothing
\* either, with the flag set; NoOtherLoss names it.
TransmitterStopsOnlyStalled == []<>(READY_TO_SEND = 1) \/ <>[]Stalled

\* Every command sent is executed in the end, unless the loop hangs or bytes
\* are left in the hardware FIFO without the flag that makes the loop read
\* them: there is no fourth place where a command can be lost.
NoOtherLoss == <>[](executed = sent \/ Hung \/ (fifo # <<>> /\ READY_TO_REC = 0))

=============================================================================
