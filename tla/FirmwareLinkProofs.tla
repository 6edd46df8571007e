------------------------- MODULE FirmwareLinkProofs -------------------------
(***************************************************************************)
(* For every set of packets, every capacity of the buffers and any number  *)
(* of packets and damaged bytes: the firmware executes exactly the packets *)
(* the Atom board sent, in order and without a gap, and its receive flag   *)
(* is truthful.                                                            *)
(***************************************************************************)
EXTENDS FirmwareLink, SequenceTheorems, TLAPS

\* What BUFF_push calls leave in a buffer fits it, full or not.
LEMMA PushedFits ==
  ASSUME NEW q \in Seq(TxChar), Len(q) <= TxCapacity, NEW s \in Seq(TxChar)
  PROVE  pushed(q, s) \in Seq(TxChar) /\ Len(pushed(q, s)) <= TxCapacity
<1> DEFINE room == TxCapacity - Len(q)
<1>1. room \in Nat /\ Len(q) \in Nat /\ Len(s) \in Nat
  BY BoundAssumption, LenProperties
<1>2. CASE Len(s) <= room
  <2>1. pushed(q, s) = q \o s
    BY <1>2 DEF pushed
  <2>2. q \o s \in Seq(TxChar) /\ Len(q \o s) = Len(q) + Len(s)
    BY ConcatProperties
  <2> QED
    BY <1>1, <1>2, <2>1, <2>2, BoundAssumption
<1>3. CASE ~(Len(s) <= room)
  <2> DEFINE t == SubSeq(s, 1, room)
  <2>1. pushed(q, s) = q \o t
    BY <1>3 DEF pushed
  <2>2. \A i \in 1 .. room : s[i] \in TxChar
    BY <1>1, <1>3, ElementOfSeq
  <2>3. t \in Seq(TxChar) /\ Len(t) = room
    <3> HIDE DEF t
    <3>1. t \in Seq(TxChar) /\ Len(t) = IF 1 <= room THEN room - 1 + 1 ELSE 0
      BY <1>1, <2>2, SubSeqProperties DEF t
    <3> QED
      BY <1>1, <3>1
  <2> HIDE DEF t
  <2>4. q \o t \in Seq(TxChar) /\ Len(q \o t) = Len(q) + Len(t)
    BY <2>3, ConcatProperties
  <2> QED
    BY <1>1, <2>1, <2>3, <2>4, BoundAssumption
<1> QED
  BY <1>2, <1>3

LEMMA RepliesType ==
  ASSUME NEW c \in uint8
  PROVE  replies(c) \in Seq(TxChar)
<1>1. \A d \in uint8 : reply(d) \in Seq(TxChar)
  <2>1. TAKE d \in uint8
  <2>2. reply(d) \in [1 .. 5 -> TxChar]
    BY DEF reply, TxChar, uint8, REPORT
  <2> QED
    BY <2>2, SeqDef
<1>2. {CMD_MOTORS, CMD_BATTERY, CMD_SENSOR, CMD_RIGHT_ENCODER, CMD_LEFT_ENCODER} \subseteq uint8
  BY DEF CMD_MOTORS, CMD_BATTERY, CMD_SENSOR, CMD_RIGHT_ENCODER, CMD_LEFT_ENCODER, uint8
<1>3. reply(CMD_SENSOR) \o reply(CMD_LEFT_ENCODER) \in Seq(TxChar)
  BY <1>1, <1>2, ConcatProperties
<1>4. reply(CMD_SENSOR) \o reply(CMD_LEFT_ENCODER) \o reply(CMD_RIGHT_ENCODER) \in Seq(TxChar)
  BY <1>1, <1>2, <1>3, ConcatProperties
<1>5. <<>> \in Seq(TxChar)
  OBVIOUS
<1> QED
  BY <1>1, <1>4, <1>5 DEF replies

\* Every byte of the packets sent is a byte.
LEMMA WireByteType ==
  ASSUME sent \in Seq(Packet), NEW k \in 1 .. 5 * Len(sent)
  PROVE  wireByte(k) \in uint8
<1>1. Len(sent) \in Nat
  BY LenProperties
<1>2. (k - 1) \div 5 + 1 \in 1 .. Len(sent)
  BY <1>1
<1> DEFINE p == sent[(k - 1) \div 5 + 1]
           i == (k - 1) % 5
<1>3. p \in Packet
  BY <1>2, ElementOfSeq
<1>4. p \in [seq : uint8, command : uint8, data1 : uint8, data2 : uint8]
  BY <1>3, PacketAssumption
<1>5. SYNC \in uint8
  BY DEF SYNC, uint8
<1>6. wireByte(k) = IF i = 0 THEN SYNC ELSE IF i = 1 THEN p.seq
                    ELSE IF i = 2 THEN p.command
                    ELSE IF i = 3 THEN p.data1 ELSE p.data2
  BY DEF wireByte
<1> QED
  <2> HIDE DEF p, i
  <2> QED
    BY <1>4, <1>5, <1>6

Assembling == [bytesRecieved : 0 .. 5, sequence : uint8, command : uint8,
               data1 : uint8, data2 : uint8]

\* A received character goes to its place of the control packet.
LEMMA AssembledType ==
  ASSUME NEW cp \in Assembling, NEW c \in uint8
  PROVE  assembled(cp, c) \in Assembling
<1> DEFINE n == cp.bytesRecieved
           counted == [cp EXCEPT !.bytesRecieved = n + 1]
<1>1. n \in 0 .. 5
  BY DEF Assembling
<1>2. n < 5 => counted \in Assembling
  BY <1>1 DEF Assembling
<1> HIDE DEF counted
<1>3. n < 5 => /\ [counted EXCEPT !.sequence = c] \in Assembling
               /\ [counted EXCEPT !.command = c] \in Assembling
               /\ [counted EXCEPT !.data1 = c] \in Assembling
               /\ [counted EXCEPT !.data2 = c] \in Assembling
  BY <1>2 DEF Assembling
<1>4. assembled(cp, c) \in {cp, counted, [counted EXCEPT !.sequence = c],
         [counted EXCEPT !.command = c], [counted EXCEPT !.data1 = c],
         [counted EXCEPT !.data2 = c]}
  BY DEF assembled, counted
<1>5. n = 5 => assembled(cp, c) = cp
  BY DEF assembled
<1> QED
  BY <1>1, <1>2, <1>3, <1>4, <1>5

-----------------------------------------------------------------------------
(* Type correctness, action by action.                                     *)

LEMMA TypeMainLoop ==
  ASSUME TypeOK, TransmitRegisterFree, RxInTransit, MainLoop
  PROVE  TypeOK'
<1> USE BoundAssumption DEF board, receiver, transmitter
<1>1. CASE StartPrint
  BY <1>1 DEF StartPrint, TypeOK
<1>2. CASE PrintChar
  <2>1. printed \in TxChar
    BY DEF printed, TxChar, REPORT
  <2>2. /\ TX' = Append(TX, printed)
        /\ TX \in Seq(TxChar) /\ Len(TX) \in Nat /\ Len(TX) < TxCapacity
    BY <1>2 DEF PrintChar, full, TypeOK
  <2>3. TX' \in Seq(TxChar) /\ Len(TX') <= TxCapacity
    BY <2>1, <2>2, AppendProperties
  <2> QED
    BY <1>2, <2>3 DEF PrintChar, TypeOK
<1>3. CASE EndPrint
  BY <1>3 DEF EndPrint, TypeOK
<1>4. CASE WriteTxReg
  <2>1. CASE READY_TO_SEND = 1 /\ TX # <<>>
    <3>1. txreg = <<>>
      BY <1>4, <2>1 DEF WriteTxReg, TransmitRegisterFree
    <3>2. Head(TX) \in TxChar /\ Tail(TX) \in Seq(TxChar) /\ Len(Tail(TX)) = Len(TX) - 1
      BY <2>1, HeadTailProperties DEF TypeOK
    <3>3. Len(TX) \in Nat
      BY DEF TypeOK
    <3>4. txreg' = <<Head(TX)>> /\ TX' = Tail(TX) /\ pc' = "txclear"
      BY <1>4, <2>1, <3>1 DEF WriteTxReg
    <3>5. txreg' \in Seq(TxChar) /\ Len(txreg') <= 1
      BY <3>2, <3>4
    <3>6. TX' \in Seq(TxChar) /\ Len(TX') <= TxCapacity
      BY <3>2, <3>3, <3>4 DEF TypeOK
    <3> QED
      BY <1>4, <3>4, <3>5, <3>6 DEF WriteTxReg, TypeOK
  <2>2. CASE ~(READY_TO_SEND = 1 /\ TX # <<>>)
    BY <1>4, <2>2 DEF WriteTxReg, TypeOK
  <2> QED
    BY <2>1, <2>2
<1>5. CASE ClearReadyToSend
  BY <1>5 DEF ClearReadyToSend, TypeOK
<1>6. CASE ReadRxReg
  <2>1. CASE READY_TO_REC = 1
    <3>1. fifo # <<>> /\ RX = <<>> /\ pc = "rx"
      BY <1>6, <2>1 DEF ReadRxReg, RxInTransit
    <3>2. /\ Head(fifo) \in Received /\ Tail(fifo) \in Seq(Received)
          /\ Len(Tail(fifo)) = Len(fifo) - 1 /\ Len(fifo) \in Nat
      BY <3>1, HeadTailProperties, LenProperties DEF TypeOK
    <3>3. RX' = <<Head(fifo).val>> /\ fifo' = Tail(fifo) /\ pc' = "rxclear"
      BY <1>6, <2>1, <3>1 DEF ReadRxReg
    <3>4. RX' \in Seq(uint8) /\ Len(RX') <= 1
      BY <3>2, <3>3 DEF Received
    <3>5. fifo' \in Seq(Received) /\ Len(fifo') <= FifoDepth
      BY <3>2, <3>3 DEF TypeOK
    <3> QED
      BY <1>6, <3>3, <3>4, <3>5 DEF ReadRxReg, TypeOK
  <2>2. CASE READY_TO_REC = 0
    BY <1>6, <2>2 DEF ReadRxReg, TypeOK
  <2> QED
    BY <2>1, <2>2 DEF TypeOK
<1>7. CASE ClearReadyToRec
  BY <1>7 DEF ClearReadyToRec, TypeOK
<1>8. CASE Assemble
  <2>1. CASE RX # <<>>
    <3>1. /\ Head(RX) \in uint8 /\ Tail(RX) \in Seq(uint8)
          /\ Len(Tail(RX)) = Len(RX) - 1 /\ Len(RX) \in Nat
      BY <2>1, HeadTailProperties, LenProperties DEF TypeOK
    <3>2. <<echoed>> \in Seq(TxChar)
      BY DEF echoed, TxChar, ECHO, REPORT
    <3>3. TX' \in Seq(TxChar) /\ Len(TX') <= TxCapacity
      BY <1>8, <2>1, <3>2, PushedFits DEF Assemble, TypeOK
    <3>4. RX' \in Seq(uint8) /\ Len(RX') <= 1
      BY <1>8, <2>1, <3>1 DEF Assemble, TypeOK
    <3>5. controlpacket' \in Assembling
      BY <1>8, <2>1, <3>1, AssembledType DEF Assemble, TypeOK, Assembling
    <3> QED
      BY <1>8, <3>3, <3>4, <3>5 DEF Assemble, TypeOK, Assembling
  <2>2. CASE RX = <<>>
    BY <1>8, <2>2 DEF Assemble, TypeOK
  <2> QED
    BY <2>1, <2>2
<1>9. CASE Process
  <2>1. CASE controlpacket.bytesRecieved = 5
    <3> DEFINE cmd == [seq |-> controlpacket.sequence, command |-> controlpacket.command,
                       data1 |-> controlpacket.data1, data2 |-> controlpacket.data2]
    <3>1. /\ TX' = pushed(TX, replies(controlpacket.command))
          /\ executed' = Append(executed, cmd)
          /\ controlpacket' = [controlpacket EXCEPT !.bytesRecieved = 0]
      BY <1>9, <2>1 DEF Process
    <3>2. controlpacket \in Assembling
      BY DEF TypeOK, Assembling
    <3>3. replies(controlpacket.command) \in Seq(TxChar)
      BY <3>2, RepliesType DEF Assembling
    <3>4. TX' \in Seq(TxChar) /\ Len(TX') <= TxCapacity
      BY <3>1, <3>3, PushedFits DEF TypeOK
    <3>5. cmd \in [seq : uint8, command : uint8, data1 : uint8, data2 : uint8]
      BY <3>2 DEF Assembling
    <3>6. executed' \in Seq([seq : uint8, command : uint8, data1 : uint8, data2 : uint8])
      BY <3>1, <3>5, AppendProperties DEF TypeOK
    <3>7. controlpacket' \in Assembling
      BY <3>1, <3>2 DEF Assembling
    <3> QED
      BY <1>9, <3>4, <3>6, <3>7 DEF Process, TypeOK, Assembling
  <2>2. CASE controlpacket.bytesRecieved # 5
    BY <1>9, <2>2 DEF Process, TypeOK
  <2> QED
    BY <2>1, <2>2
<1> QED
  BY <1>1, <1>2, <1>3, <1>4, <1>5, <1>6, <1>7, <1>8, <1>9 DEF MainLoop

LEMMA TypeEnvironment ==
  ASSUME TypeOK, FifoContinues, [Next]_vars, ~MainLoop
  PROVE  TypeOK'
<1> USE BoundAssumption DEF board, receiver, transmitter
<1>1. ASSUME NEW p \in Packet, SendPacket(p) PROVE TypeOK'
  <2>1. sent' \in Seq(Packet)
    BY <1>1, AppendProperties DEF SendPacket, TypeOK
  <2> QED
    BY <1>1, <2>1 DEF SendPacket, TypeOK
<1>2. ASSUME NEW error \in BOOLEAN, Receive(error) PROVE TypeOK'
  <2>1. arrived' \in Nat /\ bad' \in Nat
    BY <1>2 DEF Receive, TypeOK
  <2>2. CASE oerr \/ Len(fifo) = FifoDepth
    <3>1. Len(fifo) \in Nat
      BY DEF TypeOK
    <3>2. oerr' = TRUE /\ fifo' = fifo /\ READY_TO_REC' = READY_TO_REC
      BY <1>2, <2>2, <3>1 DEF Receive
    <3> QED
      BY <1>2, <2>1, <3>2 DEF Receive, TypeOK
  <2>3. CASE ~oerr /\ Len(fifo) # FifoDepth
    <3> DEFINE v == wireByte(arrived + 1)
               byte == [val |-> IF error THEN damaged(v) ELSE v, bad |-> error]
    <3>1. /\ fifo' = Append(fifo, byte) /\ Len(fifo) < FifoDepth
          /\ READY_TO_REC' \in {0, 1} /\ oerr' = oerr
      BY <1>2, <2>3 DEF Receive, TypeOK
    <3>2. arrived + 1 \in 1 .. 5 * Len(sent)
      BY <1>2 DEF Receive, TypeOK
    <3>3. v \in uint8
      BY <3>2, WireByteType DEF TypeOK
    <3>4. byte \in Received
      BY <3>3 DEF Received, damaged, uint8
    <3>5. fifo' \in Seq(Received) /\ Len(fifo') = Len(fifo) + 1 /\ Len(fifo) \in Nat
      BY <3>1, <3>4, AppendProperties, LenProperties DEF TypeOK
    <3> QED
      BY <1>2, <2>1, <3>1, <3>5 DEF Receive, TypeOK
  <2> QED
    BY <2>2, <2>3
<1>3. CASE U1TXInterrupt
  <2>1. txreg' \in Seq(TxChar) /\ Len(txreg') <= 1
    BY <1>3, HeadTailProperties, LenProperties DEF U1TXInterrupt, TypeOK
  <2> QED
    BY <1>3, <2>1 DEF U1TXInterrupt, TypeOK
<1>4. CASE T4Interrupt
  BY <1>4 DEF T4Interrupt, TypeOK
<1>5. CASE UNCHANGED vars
  BY <1>5 DEF vars, TypeOK
<1> QED
  BY <1>1, <1>2, <1>3, <1>4, <1>5 DEF Next

-----------------------------------------------------------------------------
(* The bytes between the wire and the command, action by action.           *)

Bytes == /\ FifoContinues
         /\ RxInTransit
         /\ PacketPrefix
         /\ ReceiveFlagTruthful
         /\ CommandsInOrder

LEMMA WireStable ==
  ASSUME sent' = sent
  PROVE  \A k : (wireByte(k))' = wireByte(k)
  BY DEF wireByte

\* Steps that touch neither the receiver nor the control packet: the printing
\* and transmitting sections, the transmit and timer interrupts.
LEMMA BytesUntouched ==
  ASSUME Bytes,
         UNCHANGED <<sent, arrived, fifo, oerr, READY_TO_REC, RX, controlpacket, executed>>,
         pc' = "rxclear" <=> pc = "rxclear",
         RX # <<>> => pc' = pc,
         controlpacket.bytesRecieved = 5 => pc' = pc
  PROVE  Bytes'
<1>1. \A k : (wireByte(k))' = wireByte(k)
  BY WireStable
<1>2. Taken' = Taken
  BY DEF Taken
<1>3. FifoContinues'
  BY <1>1, <1>2 DEF Bytes, FifoContinues
<1>4. RxInTransit'
  BY <1>1, <1>2 DEF Bytes, RxInTransit
<1>5. PacketPrefix'
  BY <1>1 DEF Bytes, PacketPrefix
<1>6. ReceiveFlagTruthful'
  BY DEF Bytes, ReceiveFlagTruthful
<1>7. CommandsInOrder'
  BY DEF Bytes, CommandsInOrder
<1> QED
  BY <1>3, <1>4, <1>5, <1>6, <1>7 DEF Bytes

\* The loop takes the byte at the top of the FIFO only when the flag vouches
\* for it: the byte is the next one of the wire.
LEMMA BytesReadRxReg ==
  ASSUME TypeOK, Bytes, ReadRxReg
  PROVE  Bytes'
<1> USE DEF board, transmitter
<1>1. CASE READY_TO_REC = 0
  BY <1>1, BytesUntouched DEF ReadRxReg, Bytes, RxInTransit, PacketPrefix
<1>2. CASE READY_TO_REC = 1
  <2>1. /\ pc = "rx" /\ pc' = "rxclear" /\ RX = <<>>
        /\ fifo # <<>> /\ ~Head(fifo).bad
        /\ RX' = <<Head(fifo).val>> /\ fifo' = Tail(fifo)
        /\ UNCHANGED <<sent, arrived, oerr, READY_TO_REC, controlpacket, executed>>
    BY <1>2 DEF ReadRxReg, Bytes, RxInTransit, ReceiveFlagTruthful
  <2>2. \A k : (wireByte(k))' = wireByte(k)
    BY <2>1, WireStable
  <2>3. /\ Len(fifo) \in Nat \ {0} /\ Len(fifo') = Len(fifo) - 1
        /\ Head(fifo) = fifo[1]
        /\ \A i \in 1 .. Len(fifo') : fifo'[i] = fifo[i + 1]
    BY <2>1, HeadTailProperties, LenProperties DEF TypeOK
  <2>4. Taken \in Nat /\ Taken' = Taken + 1
    BY <2>1 DEF Taken, TypeOK
  <2>5. RX'[1] = wireByte(Taken + 1)
    BY <2>1, <2>3 DEF Bytes, FifoContinues
  <2>6. FifoContinues'
    <3>1. /\ arrived' <= 5 * Len(sent')
          /\ Taken' + Len(fifo') <= arrived'
          /\ ~oerr' => Taken' + Len(fifo') = arrived'
      <4>1. arrived \in Nat
        BY DEF TypeOK
      <4>2. Taken' + Len(fifo') = Taken + Len(fifo)
        BY <2>3, <2>4
      <4> QED
        BY <2>1, <4>1, <4>2 DEF Bytes, FifoContinues
    <3>2. ASSUME NEW i \in 1 .. Len(fifo'), ~fifo'[i].bad
          PROVE  fifo'[i].val = wireByte(Taken' + i)
      <4>1. i + 1 \in 1 .. Len(fifo) /\ fifo'[i] = fifo[i + 1]
        BY <2>3
      <4>2. fifo[i + 1].val = wireByte(Taken + (i + 1))
        BY <3>2, <4>1 DEF Bytes, FifoContinues
      <4>3. Taken + (i + 1) = Taken' + i
        BY <2>3, <2>4
      <4> QED
        BY <4>1, <4>2, <4>3
    <3> QED
      BY <2>2, <3>1, <3>2 DEF FifoContinues
  <2>7. RxInTransit'
    <3>1. Head(RX') = wireByte(Taken')
      BY <2>1, <2>4, <2>5
    <3> QED
      BY <2>1, <2>2, <3>1 DEF RxInTransit
  <2>8. PacketPrefix'
    BY <2>1, <2>2 DEF Bytes, PacketPrefix
  <2>9. ReceiveFlagTruthful' /\ CommandsInOrder'
    BY <2>1 DEF Bytes, ReceiveFlagTruthful, CommandsInOrder
  <2> QED
    BY <2>6, <2>7, <2>8, <2>9 DEF Bytes
<1> QED
  BY <1>1, <1>2 DEF TypeOK

LEMMA BytesClearReadyToRec ==
  ASSUME TypeOK, Bytes, ClearReadyToRec
  PROVE  Bytes'
<1>1. /\ UNCHANGED <<sent, arrived, fifo, oerr, RX, controlpacket, executed>>
      /\ pc = "rxclear" /\ pc' = "assemble" /\ READY_TO_REC' = 0
  BY DEF ClearReadyToRec, board
<1>2. \A k : (wireByte(k))' = wireByte(k)
  BY <1>1, WireStable
<1>3. Taken' = Taken
  BY <1>1 DEF Taken
<1>4. FifoContinues'
  BY <1>1, <1>2, <1>3 DEF Bytes, FifoContinues
<1>5. RxInTransit' /\ PacketPrefix'
  BY <1>1, <1>2, <1>3 DEF Bytes, RxInTransit, PacketPrefix
<1>6. ReceiveFlagTruthful' /\ CommandsInOrder'
  BY <1>1 DEF Bytes, ReceiveFlagTruthful, CommandsInOrder
<1> QED
  BY <1>4, <1>5, <1>6 DEF Bytes

\* The five bytes of the packet with number m + 1.
LEMMA WireByteOfPacket ==
  ASSUME NEW m \in Nat
  PROVE  /\ wireByte(5 * m + 1) = SYNC
         /\ wireByte(5 * m + 2) = sent[m + 1].seq
         /\ wireByte(5 * m + 3) = sent[m + 1].command
         /\ wireByte(5 * m + 4) = sent[m + 1].data1
         /\ wireByte(5 * m + 5) = sent[m + 1].data2
<1>1. \A i \in 0 .. 4 : /\ (5 * m + (i + 1) - 1) \div 5 + 1 = m + 1
                       /\ (5 * m + (i + 1) - 1) % 5 = i
  OBVIOUS
<1>2. /\ (5 * m + 1 - 1) % 5 = 0
      /\ (5 * m + 2 - 1) \div 5 + 1 = m + 1 /\ (5 * m + 2 - 1) % 5 = 1
      /\ (5 * m + 3 - 1) \div 5 + 1 = m + 1 /\ (5 * m + 3 - 1) % 5 = 2
      /\ (5 * m + 4 - 1) \div 5 + 1 = m + 1 /\ (5 * m + 4 - 1) % 5 = 3
      /\ (5 * m + 5 - 1) \div 5 + 1 = m + 1 /\ (5 * m + 5 - 1) % 5 = 4
  BY <1>1
<1> QED
  BY <1>2 DEF wireByte

LEMMA SingleCharacter ==
  ASSUME NEW S, NEW q \in Seq(S), Len(q) <= 1, q # <<>>
  PROVE  Len(q) = 1 /\ Tail(q) = <<>>
<1>1. Len(q) \in Nat \ {0}
  BY EmptySeq
<1>2. Tail(q) \in Seq(S) /\ Len(Tail(q)) = Len(q) - 1
  BY HeadTailProperties
<1>3. Tail(q) # <<>> => Len(Tail(q)) \in Nat \ {0}
  BY <1>2, EmptySeq
<1> QED
  BY <1>1, <1>2, <1>3

\* The character that is assembled is the next byte of the packet, so it goes
\* to its place, and a packet is never started in the middle of another one.
LEMMA BytesAssemble ==
  ASSUME TypeOK, Bytes, Assemble
  PROVE  Bytes'
<1> USE DEF board, receiver, transmitter
<1> DEFINE m == Len(executed)
           n == controlpacket.bytesRecieved
<1>1. /\ pc = "assemble" /\ pc' = "process"
      /\ UNCHANGED <<sent, arrived, fifo, oerr, READY_TO_REC, executed>>
  BY DEF Assemble
<1>2. \A k : (wireByte(k))' = wireByte(k)
  BY <1>1, WireStable
<1>3. m \in Nat /\ n \in 0 .. 5 /\ n # 5
  BY <1>1, LenProperties DEF TypeOK, Bytes, PacketPrefix
<1>4. ReceiveFlagTruthful' /\ CommandsInOrder'
  BY <1>1 DEF Bytes, ReceiveFlagTruthful, CommandsInOrder
<1>5. CASE RX = <<>>
  <2>1. RX' = RX /\ controlpacket' = controlpacket
    BY <1>5 DEF Assemble
  <2>2. Taken' = Taken
    BY <1>1, <2>1 DEF Taken
  <2>3. FifoContinues'
    BY <1>1, <1>2, <2>2 DEF Bytes, FifoContinues
  <2>4. RxInTransit'
    BY <1>1, <1>5, <2>1 DEF RxInTransit
  <2>5. PacketPrefix'
    BY <1>1, <1>2, <2>1 DEF Bytes, PacketPrefix
  <2> QED
    BY <1>4, <2>3, <2>4, <2>5 DEF Bytes
<1>6. CASE RX # <<>>
  <2> DEFINE c == Head(RX)
             counted == [controlpacket EXCEPT !.bytesRecieved = n + 1]
  <2>1. /\ RX' = Tail(RX) /\ controlpacket' = assembled(controlpacket, c)
    BY <1>6 DEF Assemble
  <2>2. Len(RX) = 1 /\ Tail(RX) = <<>>
    BY <1>6, SingleCharacter DEF TypeOK
  <2>3. Taken = 5 * m + n + 1
    BY <1>3, <2>2 DEF Taken
  <2>4. c = wireByte(5 * m + (n + 1))
    BY <1>3, <1>6, <2>3 DEF Bytes, RxInTransit
  <2>5. n = 0 => c = SYNC
    BY <1>3, <2>4, WireByteOfPacket
  <2>6. controlpacket' = IF n = 0 THEN counted
                         ELSE IF n = 1 THEN [counted EXCEPT !.sequence = c]
                         ELSE IF n = 2 THEN [counted EXCEPT !.command = c]
                         ELSE IF n = 3 THEN [counted EXCEPT !.data1 = c]
                         ELSE [counted EXCEPT !.data2 = c]
    BY <1>3, <2>1, <2>5 DEF assembled
  <2>7. controlpacket \in Assembling
    BY DEF TypeOK, Assembling
  <2>8. /\ controlpacket'.bytesRecieved = n + 1
        /\ controlpacket'.sequence = IF n = 1 THEN c ELSE controlpacket.sequence
        /\ controlpacket'.command = IF n = 2 THEN c ELSE controlpacket.command
        /\ controlpacket'.data1 = IF n = 3 THEN c ELSE controlpacket.data1
        /\ controlpacket'.data2 = IF n = 4 THEN c ELSE controlpacket.data2
    BY <1>3, <2>6, <2>7 DEF Assembling
  <2>9. Len(RX') = 0 /\ RX' = <<>>
    BY <2>1, <2>2
  <2>10. Taken' = Taken
    BY <1>1, <1>3, <2>2, <2>8, <2>9 DEF Taken
  <2>11. FifoContinues'
    BY <1>1, <1>2, <2>10 DEF Bytes, FifoContinues
  <2>12. RxInTransit'
    BY <1>1, <2>9 DEF RxInTransit
  <2>13. PacketPrefix'
    <3>1. Len(executed') = m /\ pc' = "process"
      BY <1>1
    <3>2. /\ n >= 2 => controlpacket.sequence = wireByte(5 * m + 2)
          /\ n >= 3 => controlpacket.command = wireByte(5 * m + 3)
          /\ n >= 4 => controlpacket.data1 = wireByte(5 * m + 4)
      BY DEF Bytes, PacketPrefix
    <3> QED
      BY <1>2, <1>3, <2>4, <2>8, <3>1, <3>2 DEF PacketPrefix
  <2> QED
    BY <1>4, <2>11, <2>12, <2>13 DEF Bytes
<1> QED
  BY <1>5, <1>6

\* A complete packet is the next one the board sent.
LEMMA BytesProcess ==
  ASSUME TypeOK, Bytes, Process
  PROVE  Bytes'
<1> USE DEF board, receiver, transmitter
<1>1. CASE controlpacket.bytesRecieved # 5
  BY <1>1, BytesUntouched DEF Process, Bytes, RxInTransit, PacketPrefix
<1>2. CASE controlpacket.bytesRecieved = 5
  <2> DEFINE m == Len(executed)
             cmd == [seq |-> controlpacket.sequence, command |-> controlpacket.command,
                     data1 |-> controlpacket.data1, data2 |-> controlpacket.data2]
  <2>1. /\ pc = "process" /\ pc' = "print"
        /\ executed' = Append(executed, cmd)
        /\ controlpacket' = [controlpacket EXCEPT !.bytesRecieved = 0]
        /\ UNCHANGED <<sent, arrived, fifo, oerr, READY_TO_REC, RX>>
    BY <1>2 DEF Process
  <2>2. \A k : (wireByte(k))' = wireByte(k)
    BY <2>1, WireStable
  <2>3. RX = <<>> /\ Len(RX) = 0
    BY <2>1 DEF Bytes, RxInTransit
  <2>4. m \in Nat /\ Len(sent) \in Nat /\ Len(fifo) \in Nat /\ arrived \in Nat
    BY LenProperties DEF TypeOK
  <2>5. controlpacket \in Assembling
    BY DEF TypeOK, Assembling
  <2>6. cmd \in [seq : uint8, command : uint8, data1 : uint8, data2 : uint8]
    BY <2>5 DEF Assembling
  <2>7. /\ Len(executed') = m + 1
        /\ \A i \in 1 .. m : executed'[i] = executed[i]
        /\ executed'[m + 1] = cmd
    BY <2>1, <2>6, AppendProperties DEF TypeOK
  <2>8. Taken = 5 * m + 5
    BY <1>2, <2>3, <2>4 DEF Taken
  <2>9. controlpacket'.bytesRecieved = 0
    BY <2>1, <2>5 DEF Assembling
  <2>10. Taken' = Taken
    BY <2>1, <2>3, <2>4, <2>7, <2>8, <2>9 DEF Taken
  <2>11. m + 1 <= Len(sent)
    BY <2>4, <2>8 DEF Bytes, FifoContinues
  <2>12. cmd = sent[m + 1]
    <3>1. sent[m + 1] \in Packet
      BY <2>4, <2>11, ElementOfSeq DEF TypeOK
    <3>2. sent[m + 1] \in [seq : uint8, command : uint8, data1 : uint8, data2 : uint8]
      BY <3>1, PacketAssumption
    <3>3. /\ cmd.seq = sent[m + 1].seq /\ cmd.command = sent[m + 1].command
          /\ cmd.data1 = sent[m + 1].data1 /\ cmd.data2 = sent[m + 1].data2
      BY <1>2, <2>4, WireByteOfPacket DEF Bytes, PacketPrefix
    <3> QED
      BY <2>6, <3>2, <3>3
  <2>13. CommandsInOrder'
    BY <2>1, <2>4, <2>7, <2>11, <2>12 DEF Bytes, CommandsInOrder
  <2>14. FifoContinues'
    BY <2>1, <2>2, <2>10 DEF Bytes, FifoContinues
  <2>15. RxInTransit' /\ PacketPrefix'
    BY <2>1, <2>3, <2>9 DEF RxInTransit, PacketPrefix
  <2>16. ReceiveFlagTruthful'
    BY <2>1 DEF Bytes, ReceiveFlagTruthful
  <2> QED
    BY <2>13, <2>14, <2>15, <2>16 DEF Bytes
<1> QED
  BY <1>1, <1>2

\* A new packet leaves the bytes already on the wire where they are.
LEMMA BytesSendPacket ==
  ASSUME TypeOK, Bytes, NEW p \in Packet, SendPacket(p)
  PROVE  Bytes'
<1> USE DEF receiver, transmitter
<1>1. /\ sent' = Append(sent, p)
      /\ UNCHANGED <<arrived, fifo, oerr, READY_TO_REC, RX, controlpacket, executed, pc>>
  BY DEF SendPacket
<1>2. /\ Len(sent) \in Nat /\ Len(executed) \in Nat /\ Len(fifo) \in Nat
      /\ arrived \in Nat /\ controlpacket.bytesRecieved \in 0 .. 5 /\ Len(RX) \in Nat
  BY LenProperties DEF TypeOK
<1>3. Len(sent') = Len(sent) + 1 /\ \A i \in 1 .. Len(sent) : sent'[i] = sent[i]
  BY <1>1, AppendProperties DEF TypeOK
<1>4. ASSUME NEW k \in 1 .. 5 * Len(sent)
      PROVE  (wireByte(k))' = wireByte(k)
  <2>1. (k - 1) \div 5 + 1 \in 1 .. Len(sent)
    BY <1>2
  <2>2. sent'[(k - 1) \div 5 + 1] = sent[(k - 1) \div 5 + 1]
    BY <1>3, <2>1
  <2> QED
    BY <2>2 DEF wireByte
<1>5. /\ Taken' = Taken /\ Taken \in Nat
      /\ 5 * Len(executed) + controlpacket.bytesRecieved + Len(RX) = Taken
  BY <1>1, <1>2 DEF Taken
<1>6. Taken + Len(fifo) <= 5 * Len(sent)
  BY <1>2, <1>5 DEF Bytes, FifoContinues
<1>7. FifoContinues'
  <2>1. ASSUME NEW i \in 1 .. Len(fifo'), ~fifo'[i].bad
        PROVE  fifo'[i].val = wireByte(Taken + i)
    BY <1>1, <2>1 DEF Bytes, FifoContinues
  <2>2. \A i \in 1 .. Len(fifo') : Taken + i \in 1 .. 5 * Len(sent)
    BY <1>1, <1>2, <1>5, <1>6
  <2>3. /\ arrived' <= 5 * Len(sent')
        /\ Taken' + Len(fifo') <= arrived'
        /\ ~oerr' => Taken' + Len(fifo') = arrived'
    BY <1>1, <1>2, <1>3, <1>5 DEF Bytes, FifoContinues
  <2> QED
    BY <1>4, <1>5, <2>1, <2>2, <2>3 DEF FifoContinues
<1>8. RxInTransit'
  <2>1. RX # <<>> => Taken \in 1 .. 5 * Len(sent)
    <3>1. RX # <<>> => Len(RX) > 0
      BY EmptySeq DEF TypeOK
    <3> QED
      BY <1>2, <1>5, <1>6, <3>1
  <2> QED
    BY <1>1, <1>4, <1>5, <2>1 DEF Bytes, RxInTransit
<1>9. PacketPrefix'
  <2> DEFINE n == 5 * Len(executed)
  <2>1. n + controlpacket.bytesRecieved <= 5 * Len(sent) /\ n \in Nat
    <3>1. n \in Nat /\ n + controlpacket.bytesRecieved + Len(RX) = Taken
      BY <1>2, <1>5
    <3>2. /\ Taken \in Nat /\ Len(RX) \in Nat /\ Len(fifo) \in Nat /\ Len(sent) \in Nat
          /\ controlpacket.bytesRecieved \in Nat
      BY <1>2, <1>5
    <3> HIDE DEF n
    <3> QED
      BY <1>6, <3>1, <3>2
  <2>2. \A j \in 2 .. 5 : controlpacket.bytesRecieved >= j => n + j \in 1 .. 5 * Len(sent)
    BY <1>2, <2>1
  <2>3. \A j \in 2 .. 5 : controlpacket.bytesRecieved >= j
                          => (wireByte(n + j))' = wireByte(n + j)
    BY <1>1, <1>4, <2>2
  <2> QED
    BY <1>1, <1>2, <2>3 DEF Bytes, PacketPrefix
<1>10. ReceiveFlagTruthful' /\ CommandsInOrder'
  BY <1>1, <1>2, <1>3 DEF Bytes, ReceiveFlagTruthful, CommandsInOrder
<1> QED
  BY <1>7, <1>8, <1>9, <1>10 DEF Bytes

\* A byte that arrives is the next one of the wire, or it turns the receiver
\* off; the flag is set only if the byte at the top is intact.
LEMMA BytesReceive ==
  ASSUME TypeOK, Bytes, NEW error \in BOOLEAN, Receive(error)
  PROVE  Bytes'
<1> USE DEF transmitter
<1>1. /\ UNCHANGED <<sent, RX, controlpacket, executed, pc>>
      /\ arrived' = arrived + 1 /\ arrived + 1 <= 5 * Len(sent)
  BY DEF Receive, TypeOK
<1>2. \A k : (wireByte(k))' = wireByte(k)
  BY <1>1, WireStable
<1>3. /\ Len(executed) \in Nat /\ Len(fifo) \in Nat /\ arrived \in Nat
      /\ controlpacket.bytesRecieved \in 0 .. 5 /\ Len(RX) \in Nat
  BY LenProperties DEF TypeOK
<1>4. Taken' = Taken /\ Taken \in Nat
  BY <1>1, <1>3 DEF Taken
<1>5. RxInTransit' /\ PacketPrefix' /\ CommandsInOrder'
  BY <1>1, <1>2, <1>4 DEF Bytes, RxInTransit, PacketPrefix, CommandsInOrder
<1>6. CASE oerr \/ Len(fifo) = FifoDepth
  <2>1. oerr' = TRUE /\ fifo' = fifo /\ READY_TO_REC' = READY_TO_REC
    BY <1>3, <1>6 DEF Receive
  <2>2. FifoContinues'
    BY <1>1, <1>2, <1>3, <1>4, <2>1 DEF Bytes, FifoContinues
  <2>3. ReceiveFlagTruthful'
    BY <1>1, <2>1 DEF Bytes, ReceiveFlagTruthful
  <2> QED
    BY <1>5, <2>2, <2>3 DEF Bytes
<1>7. CASE ~oerr /\ Len(fifo) # FifoDepth
  <2> DEFINE v == wireByte(arrived + 1)
             byte == [val |-> IF error THEN damaged(v) ELSE v, bad |-> error]
             l == Len(fifo)
  <2>1. /\ fifo' = Append(fifo, byte) /\ oerr' = oerr
        /\ READY_TO_REC' = IF Head(fifo').bad THEN READY_TO_REC ELSE 1
    BY <1>7 DEF Receive
  <2>2. arrived + 1 \in 1 .. 5 * Len(sent)
    BY <1>1, <1>3, LenProperties DEF TypeOK
  <2>3. byte \in Received
    <3>1. v \in uint8
      BY <2>2, WireByteType DEF TypeOK
    <3> HIDE DEF v
    <3> QED
      BY <3>1 DEF Received, damaged, uint8
  <2>4. /\ fifo' \in Seq(Received) /\ Len(fifo') = l + 1
        /\ \A i \in 1 .. l : fifo'[i] = fifo[i]
        /\ fifo'[l + 1] = byte
    <3> HIDE DEF byte
    <3> QED
      BY <2>1, <2>3, AppendProperties DEF TypeOK
  <2>5. Taken + l = arrived
    BY <1>7 DEF Bytes, FifoContinues
  <2>6. ~error => fifo'[l + 1].val = wireByte(Taken + (l + 1))
    BY <1>3, <1>4, <2>4, <2>5
  <2>7. FifoContinues'
    <3>1. ASSUME NEW i \in 1 .. l + 1, ~fifo'[i].bad
          PROVE  fifo'[i].val = wireByte(Taken + i)
      <4>1. CASE i = l + 1
        BY <2>4, <2>6, <3>1, <4>1
      <4>2. CASE i # l + 1
        <5>1. i \in 1 .. l
          BY <1>3, <4>2
        <5> QED
          BY <2>4, <3>1, <5>1 DEF Bytes, FifoContinues
      <4> QED
        BY <4>1, <4>2
    <3> QED
      <4>1. \A i \in 1 .. Len(fifo') : ~fifo'[i].bad => fifo'[i].val = (wireByte(Taken + i))'
        BY <1>2, <1>4, <2>4, <3>1
      <4>2. /\ arrived' <= 5 * Len(sent')
            /\ Taken' + Len(fifo') = arrived'
        BY <1>1, <1>3, <1>4, <2>4, <2>5
      <4>3. Taken' + Len(fifo') <= arrived'
        BY <1>1, <1>3, <4>2
      <4> QED
        BY <4>1, <4>2, <4>3 DEF FifoContinues
  <2>8. ReceiveFlagTruthful'
    <3>1. fifo' # <<>>
      BY <1>3, <2>4
    <3>2. CASE ~Head(fifo').bad
      BY <3>1, <3>2 DEF ReceiveFlagTruthful
    <3>3. CASE Head(fifo').bad
      <4>1. READY_TO_REC' = READY_TO_REC
        BY <2>1, <3>3
      <4>2. CASE fifo = <<>>
        BY <1>1, <4>1, <4>2 DEF Bytes, ReceiveFlagTruthful
      <4>3. CASE fifo # <<>>
        <5>1. Head(fifo') = Head(fifo)
          BY <1>3, <2>4, <4>3, EmptySeq DEF TypeOK
        <5> QED
          BY <1>1, <3>1, <4>1, <5>1 DEF Bytes, ReceiveFlagTruthful
      <4> QED
        BY <4>2, <4>3
    <3> QED
      BY <3>2, <3>3
  <2> QED
    BY <1>5, <2>7, <2>8 DEF Bytes
<1> QED
  BY <1>6, <1>7

\* READY_TO_SEND says 1 again only once U1TXREG has been emptied.
LEMMA RegisterFreeStep ==
  ASSUME TypeOK, TransmitRegisterFree, [Next]_vars
  PROVE  TransmitRegisterFree'
<1> USE DEF TransmitRegisterFree, board, receiver, transmitter
<1>1. CASE MainLoop
  <2>1. CASE StartPrint BY <2>1 DEF StartPrint
  <2>2. CASE PrintChar BY <2>2 DEF PrintChar
  <2>3. CASE EndPrint BY <2>3 DEF EndPrint
  <2>4. CASE WriteTxReg BY <2>4 DEF WriteTxReg
  <2>5. CASE ClearReadyToSend BY <2>5 DEF ClearReadyToSend
  <2>6. CASE ReadRxReg BY <2>6 DEF ReadRxReg
  <2>7. CASE ClearReadyToRec BY <2>7 DEF ClearReadyToRec
  <2>8. CASE Assemble BY <2>8 DEF Assemble
  <2>9. CASE Process BY <2>9 DEF Process
  <2> QED
    BY <1>1, <2>1, <2>2, <2>3, <2>4, <2>5, <2>6, <2>7, <2>8, <2>9 DEF MainLoop
<1>2. ASSUME NEW p \in Packet, SendPacket(p) PROVE TransmitRegisterFree'
  BY <1>2 DEF SendPacket
<1>3. ASSUME NEW error \in BOOLEAN, Receive(error) PROVE TransmitRegisterFree'
  BY <1>3 DEF Receive
<1>4. CASE U1TXInterrupt
  <2>1. txreg \in Seq(TxChar) /\ Len(txreg) <= 1 /\ txreg # <<>> /\ txreg' = Tail(txreg)
    BY <1>4 DEF U1TXInterrupt, TypeOK
  <2>2. txreg' = <<>>
    BY <2>1, SingleCharacter
  <2> QED
    BY <2>2
<1>5. CASE T4Interrupt
  BY <1>5 DEF T4Interrupt
<1>6. CASE UNCHANGED vars
  BY <1>6 DEF vars
<1> QED
  BY <1>1, <1>2, <1>3, <1>4, <1>5, <1>6 DEF Next

LEMMA BytesStep ==
  ASSUME TypeOK, Bytes, [Next]_vars
  PROVE  Bytes'
<1> USE DEF board, receiver, transmitter
<1>0. RX = <<>> \/ pc \in {"rxclear", "assemble"}
  BY DEF Bytes, RxInTransit
<1>1. controlpacket.bytesRecieved # 5 \/ pc = "process"
  BY DEF Bytes, PacketPrefix
<1>2. CASE MainLoop
  <2>1. CASE StartPrint BY <1>0, <1>1, <2>1, BytesUntouched DEF StartPrint
  <2>2. CASE PrintChar BY <1>0, <1>1, <2>2, BytesUntouched DEF PrintChar
  <2>3. CASE EndPrint BY <1>0, <1>1, <2>3, BytesUntouched DEF EndPrint
  <2>4. CASE WriteTxReg BY <1>0, <1>1, <2>4, BytesUntouched DEF WriteTxReg
  <2>5. CASE ClearReadyToSend BY <1>0, <1>1, <2>5, BytesUntouched DEF ClearReadyToSend
  <2>6. CASE ReadRxReg BY <2>6, BytesReadRxReg
  <2>7. CASE ClearReadyToRec BY <2>7, BytesClearReadyToRec
  <2>8. CASE Assemble BY <2>8, BytesAssemble
  <2>9. CASE Process BY <2>9, BytesProcess
  <2> QED
    BY <1>2, <2>1, <2>2, <2>3, <2>4, <2>5, <2>6, <2>7, <2>8, <2>9 DEF MainLoop
<1>3. ASSUME NEW p \in Packet, SendPacket(p) PROVE Bytes'
  BY <1>3, BytesSendPacket
<1>4. ASSUME NEW error \in BOOLEAN, Receive(error) PROVE Bytes'
  BY <1>4, BytesReceive
<1>5. CASE U1TXInterrupt
  BY <1>5, BytesUntouched DEF U1TXInterrupt
<1>6. CASE T4Interrupt
  BY <1>6, BytesUntouched DEF T4Interrupt
<1>7. CASE UNCHANGED vars
  BY <1>7, BytesUntouched DEF vars
<1> QED
  BY <1>2, <1>3, <1>4, <1>5, <1>6, <1>7 DEF Next

-----------------------------------------------------------------------------
LEMMA LinkInvInit == Init => LinkInv
<1> SUFFICES ASSUME Init PROVE LinkInv
  OBVIOUS
<1> USE BoundAssumption DEF Init
<1>1. TypeOK
  <2>1. /\ <<>> \in Seq(Packet) /\ <<>> \in Seq(Received) /\ <<>> \in Seq(uint8)
        /\ <<>> \in Seq(TxChar)
        /\ <<>> \in Seq([seq : uint8, command : uint8, data1 : uint8, data2 : uint8])
        /\ Len(<<>>) = 0
    BY EmptySeq
  <2>2. 0 \in uint8 /\ 0 \in 0 .. 5 /\ 0 \in 0 .. PrintLength
    BY DEF uint8
  <2>3. controlpacket \in [bytesRecieved : 0 .. 5, sequence : uint8, command : uint8,
                           data1 : uint8, data2 : uint8]
    BY <2>2
  <2>4. /\ sent \in Seq(Packet) /\ arrived \in Nat /\ bad \in Nat
        /\ fifo \in Seq(Received) /\ Len(fifo) <= FifoDepth
        /\ RX \in Seq(uint8) /\ Len(RX) <= 1
        /\ TX \in Seq(TxChar) /\ Len(TX) <= TxCapacity
        /\ txreg \in Seq(TxChar) /\ Len(txreg) <= 1
        /\ executed \in Seq([seq : uint8, command : uint8, data1 : uint8, data2 : uint8])
    BY <2>1
  <2>5. /\ oerr \in BOOLEAN
        /\ READY_TO_REC \in {0, 1} /\ READY_TO_SEND \in {0, 1} /\ PRINT \in {0, 1}
        /\ toPrint \in 0 .. PrintLength
        /\ pc \in {"print", "printing", "tx", "txclear", "rx", "rxclear",
                   "assemble", "process"}
    BY <2>2
  <2> HIDE DEF Init
  <2> QED
    BY <2>3, <2>4, <2>5 DEF TypeOK
<1>2. FifoContinues /\ RxInTransit /\ PacketPrefix
  BY DEF FifoContinues, RxInTransit, PacketPrefix, Taken
<1>3. ReceiveFlagTruthful /\ TransmitRegisterFree /\ CommandsInOrder
  BY DEF ReceiveFlagTruthful, TransmitRegisterFree, CommandsInOrder
<1> QED
  BY <1>1, <1>2, <1>3 DEF LinkInv

LEMMA LinkInvStep == LinkInv /\ [Next]_vars => LinkInv'
<1> SUFFICES ASSUME LinkInv, [Next]_vars PROVE LinkInv'
  OBVIOUS
<1>1. TypeOK /\ Bytes /\ TransmitRegisterFree
  BY DEF LinkInv, Bytes
<1>2. TypeOK'
  <2>1. CASE MainLoop
    BY <1>1, <2>1, TypeMainLoop DEF Bytes
  <2>2. CASE ~MainLoop
    BY <1>1, <2>2, TypeEnvironment DEF Bytes
  <2> QED
    BY <2>1, <2>2
<1>3. Bytes' /\ TransmitRegisterFree'
  BY <1>1, BytesStep, RegisterFreeStep
<1> QED
  BY <1>2, <1>3 DEF LinkInv, Bytes

\* Every byte between the wire and the command is accounted for, for every set
\* of packets and every size of the buffers.
THEOREM LinkInvariant == Spec => []LinkInv
  BY LinkInvInit, LinkInvStep, PTL DEF Spec

\* The firmware executes exactly the packets the Atom board sent, in order and
\* without a gap, whatever interrupts the main loop loses, whatever bytes are
\* overrun or arrive damaged.
THEOREM CommandsAreTheBoards == Spec => []CommandsInOrder
<1>1. LinkInv => CommandsInOrder
  BY DEF LinkInv
<1> QED
  BY <1>1, LinkInvariant, PTL

\* The loop never reads an empty receive register or a damaged byte.
THEOREM ReceiveFlagIsTruthful == Spec => []ReceiveFlagTruthful
<1>1. LinkInv => ReceiveFlagTruthful
  BY DEF LinkInv
<1> QED
  BY <1>1, LinkInvariant, PTL

-----------------------------------------------------------------------------
(* The three failures of the link are permanent.                           *)

\* Only the main loop makes room in TX_DATA_BUFFER, and it waits for room.
THEOREM HangLasts == Spec => HangIsForever
<1>1. ASSUME TypeOK, [Next]_vars, Hung PROVE Hung'
  <2> USE DEF board, receiver, transmitter
  <2>1. ~MainLoop
    BY <1>1 DEF MainLoop, Hung, StartPrint, PrintChar, EndPrint, WriteTxReg,
       ClearReadyToSend, ReadRxReg, ClearReadyToRec, Assemble, Process, TypeOK
  <2>2. UNCHANGED <<pc, toPrint, TX>>
    BY <1>1, <2>1 DEF Next, SendPacket, Receive, U1TXInterrupt, T4Interrupt, vars
  <2> QED
    BY <1>1, <2>2 DEF Hung, full
<1>2. LinkInv /\ [Next]_vars => [Hung => Hung']_vars
  BY <1>1 DEF LinkInv
<1> QED
  BY <1>2, LinkInvariant, PTL DEF Spec, HangIsForever

\* Once the transmit interrupt came before the flag was cleared, nothing ever
\* sets READY_TO_SEND again: the robot never answers any more.
THEOREM StallLasts == Spec => StallIsForever
<1>1. ASSUME [Next]_vars, Stalled PROVE Stalled'
  <2> USE DEF Stalled, board, receiver, transmitter
  <2>1. CASE MainLoop
    BY <1>1, <2>1 DEF MainLoop, StartPrint, PrintChar, EndPrint, WriteTxReg,
       ClearReadyToSend, ReadRxReg, ClearReadyToRec, Assemble, Process
  <2>2. CASE ~MainLoop
    BY <1>1, <2>2 DEF Next, SendPacket, Receive, U1TXInterrupt, T4Interrupt, vars
  <2> QED
    BY <2>1, <2>2
<1>2. [Next]_vars => [Stalled => Stalled']_vars
  BY <1>1
<1> QED
  BY <1>2, PTL DEF Spec, StallIsForever

SendPacketStep == \E p \in Packet : SendPacket(p)

\* Once a damaged byte is at the top of the FIFO the flag is never set again.
THEOREM DeafnessLasts == Spec => DeafIsForever
<1>1. ASSUME TypeOK, [Next]_vars, Deaf PROVE Deaf'
  <2> USE DEF Deaf, board, receiver, transmitter
  <2>1. CASE MainLoop
    BY <1>1, <2>1 DEF MainLoop, StartPrint, PrintChar, EndPrint, WriteTxReg,
       ClearReadyToSend, ReadRxReg, ClearReadyToRec, Assemble, Process
  <2>2. ASSUME NEW error \in BOOLEAN, Receive(error) PROVE Deaf'
    <3>1. CASE fifo' = fifo
      BY <1>1, <2>2, <3>1 DEF Receive
    <3>2. CASE fifo' # fifo
      <4>1. PICK byte : fifo' = Append(fifo, byte)
        BY <2>2, <3>2 DEF Receive
      <4>2. Head(fifo') = Head(fifo) /\ fifo' # <<>>
        <5>1. fifo \in Seq(Received) /\ fifo # <<>>
          BY <1>1 DEF TypeOK
        <5>2. Head(Append(fifo, byte)) = Head(fifo) /\ Append(fifo, byte) # <<>>
          BY <5>1, HeadTailAppend
        <5> QED
          BY <4>1, <5>2
      <4>3. READY_TO_REC' = READY_TO_REC
        BY <1>1, <2>2, <3>2, <4>2 DEF Receive
      <4> QED
        BY <1>1, <4>2, <4>3
    <3> QED
      BY <3>1, <3>2
  <2>3. CASE SendPacketStep
    BY <1>1, <2>3 DEF SendPacketStep, SendPacket
  <2>4. CASE U1TXInterrupt \/ T4Interrupt \/ UNCHANGED vars
    BY <1>1, <2>4 DEF U1TXInterrupt, T4Interrupt, vars
  <2> QED
    BY <1>1, <2>1, <2>2, <2>3, <2>4 DEF Next, SendPacketStep
<1>2. LinkInv /\ [Next]_vars => [Deaf => Deaf']_vars
  BY <1>1 DEF LinkInv
<1> QED
  BY <1>2, LinkInvariant, PTL DEF Spec, DeafIsForever

\* A hang, a deaf receiver and a stalled transmitter are final: no step of the
\* loop, of an interrupt or of the board repairs one.
THEOREM FailuresAreForever == Spec => FailuresLast
<1>1. [Hung => Hung']_vars /\ [Deaf => Deaf']_vars /\ [Stalled => Stalled']_vars
        => [/\ Hung => Hung'
            /\ Deaf => Deaf'
            /\ Stalled => Stalled']_vars
  OBVIOUS
<1>2. Spec => HangIsForever /\ DeafIsForever /\ StallIsForever
  BY HangLasts, DeafnessLasts, StallLasts
<1> QED
  BY <1>1, <1>2, PTL DEF FailuresLast, HangIsForever, DeafIsForever, StallIsForever
=============================================================================
