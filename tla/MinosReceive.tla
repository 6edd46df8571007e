---------------------------- MODULE MinosReceive ----------------------------
(***************************************************************************)
(* How the Atom board takes in what the robot sends: the thread            *)
(* mainMinosWait, which polls the robot once a second, and Minotaur::recv, *)
(* which reads the serial port into a ring, cuts the ring into packets and *)
(* makes a new state of the robot from the replies.                        *)
(*                                                                         *)
(* Of a reading only the poll it answers is kept: the first data byte of   *)
(* its replies tells which one.  What the geometry makes of two encoder    *)
(* counts, and whether they pass the sanity check, is left open.           *)
(***************************************************************************)
EXTENDS Integers, Sequences

CONSTANTS Slots,        \* packets minos_buffer holds
          Text,         \* the characters of one PRINT of the robot
          SplitAt,      \* where in an echo a PRINT may fall
          Sequence,     \* the sequence numbers each packet of the board may bear
          FirstReading, \* the byte that the replies to the first packet carry
          MaxPackets,   \* bound: packets the board sends
          MaxBytes      \* bound: bytes the robot sends

SYNC == 170
DRIVE == 1              \* the commands of a packet, 0x01 ..
IR == 177
RIGHT_ENCODER == 182
LEFT_ENCODER == 183
POLL == 176             \* .. to 0xB0

byte == 0 .. 255
N == 5 * Slots          \* sizeof(minos_buffer)

ASSUME RingAssumption == Slots \in Nat /\ Slots > 1
\* printString sends literals and digits; the shortest PRINT has 30 characters.
ASSUME TextAssumption == Text \in Seq(0 .. 127) /\ Len(Text) >= 2
ASSUME SplitAssumption == SplitAt \subseteq 1 .. 4
ASSUME BoundAssumption ==
  /\ MaxPackets \in Nat /\ MaxBytes \in Nat
  /\ FirstReading \in byte /\ FirstReading + MaxPackets <= 255
ASSUME SequenceAssumption == Sequence \in [1 .. MaxPackets -> SUBSET byte]

VARIABLES
  sent,                 \* the packets the board has sent
  answered,             \* how many of them the robot has answered
  torn,                 \* history: those with sequence number 0xAA whose echo
                        \* a PRINT has split
  stream,               \* history: every byte the robot has sent
  taken,                \* how many of them the board has read
  minos_buffer, minos_buffer_start, minos_buffer_end,
  consumed,             \* history: bytes taken out of the ring
  packets_served,       \* whether this call of recv has served a packet
  nextState, currentState,
  got,                  \* history: the sensor replies served
  overrun, noticed,     \* history: the ring overflowed, recv printed so
  pc

robot == <<answered, torn, stream>>
ring == <<minos_buffer, minos_buffer_start, minos_buffer_end>>
state == <<nextState, currentState>>
history == <<consumed, got, overrun, noticed>>
vars == <<robot, sent, ring, state, history, taken, packets_served, pc>>

\* MinotaurState(): no reading is valid.  A valid one is a singleton.
noState == [left |-> {}, right |-> {}, ir |-> {}]

Init == /\ sent = <<>> /\ answered = 0 /\ torn = {}
        /\ stream = <<>> /\ taken = 0 /\ consumed = 0
        /\ minos_buffer = [i \in 0 .. N - 1 |-> 0]
        /\ minos_buffer_start = 0 /\ minos_buffer_end = 0
        /\ packets_served = FALSE
        /\ nextState = noState /\ currentState = noState
        /\ got = {} /\ overrun = FALSE /\ noticed = FALSE
        /\ pc = "read"

-----------------------------------------------------------------------------
(* The robot (FirmwareLink).  It echoes each byte of a packet and then     *)
(* sends its replies in one piece; a PRINT goes out before, after or, as   *)
(* each byte is echoed in a turn of its own, in the middle of the echo.    *)

packet(q, c, d) == <<SYNC, q, c, d, 0>>

reading(k) == FirstReading + k - 1

replies(q, k) == packet(q, IR, reading(k)) \o packet(q, LEFT_ENCODER, reading(k))
                 \o packet(q, RIGHT_ENCODER, reading(k))

\* The replies to the next packet: a motor command is answered by one packet.
\* Its data bytes are left at 0, since the server makes none 0xAA.
Answer ==
  /\ answered < Len(sent)
  /\ answered' = answered + 1
  /\ LET k == answered + 1
         q == sent[k].seq
         c == sent[k].command
         echo == packet(q, c, 0)
         reply == IF c = POLL THEN replies(q, k) ELSE packet(q, c, 0)
     IN \/ /\ stream' \in {stream \o echo \o reply, stream \o echo \o reply \o Text}
           /\ UNCHANGED torn
        \/ \E i \in SplitAt :
             /\ stream' = stream \o SubSeq(echo, 1, i) \o Text
                          \o SubSeq(echo, i + 1, 5) \o reply
             /\ torn' = IF q = SYNC THEN torn \cup {k} ELSE torn
  /\ Len(stream') <= MaxBytes
  /\ UNCHANGED <<sent, ring, state, history, taken, packets_served, pc>>

-----------------------------------------------------------------------------
(* The board.                                                              *)

\* Both threads count minos_seq up without a lock and read it again for the
\* packet: a packet may bear any number, also that of the one before it.
sendpacket(c) ==
  \E q \in Sequence[Len(sent) + 1] : sent' = Append(sent, [command |-> c, seq |-> q])

\* mainCncWait passes on a motor command.
Drive == /\ Len(sent) < MaxPackets
         /\ sendpacket(DRIVE)
         /\ UNCHANGED <<robot, ring, state, history, taken, packets_served, pc>>

\* Once a second, after recv has returned false.
Poll == /\ pc = "poll"
        /\ \/ Len(sent) < MaxPackets /\ sendpacket(POLL)
           \/ Len(sent) = MaxPackets /\ UNCHANGED sent
        /\ pc' = "read"
        /\ UNCHANGED <<robot, ring, state, history, taken, packets_served>>

used == (minos_buffer_end - minos_buffer_start + N) % N
free_OneMore ==         \* fault: off by one
  1 + ((minos_buffer_start - minos_buffer_end + N) % N)
free == (minos_buffer_start - minos_buffer_end + N) % N

Read_AtStart(cnt) ==   \* fault: the bytes are put where the unread ones start
  /\ pc = "read"
  /\ cnt <= Len(stream) - taken /\ cnt <= N - minos_buffer_end
  /\ \/ /\ cnt = 0
        /\ pc' = "poll"
        /\ UNCHANGED <<ring, taken, packets_served, overrun, noticed>>
     \/ /\ cnt > 0
        /\ minos_buffer' =
             [i \in 0 .. N - 1 |->
                IF i \in minos_buffer_start .. minos_buffer_start + cnt - 1
                THEN stream[taken + (i - minos_buffer_start) + 1] ELSE minos_buffer[i]]
        /\ minos_buffer_end' = (minos_buffer_end + cnt) % N
        /\ taken' = taken + cnt
        /\ packets_served' = FALSE
        /\ overrun' = (overrun \/ used + cnt >= N)
        /\ noticed' = (noticed \/ /\ minos_buffer_start # minos_buffer_end
                                  /\ free < cnt)
        /\ pc' = "parse"
        /\ UNCHANGED minos_buffer_start
  /\ UNCHANGED <<robot, sent, state, consumed, got>>

\* read() returns some of what has arrived, and never more than fits between
\* minos_buffer_end and the end of the array; what is still unread before it
\* is not looked at.  The port blocks, so it never leaves EWOULDBLOCK in errno.
Read(cnt) ==
  /\ pc = "read"
  /\ cnt <= Len(stream) - taken /\ cnt <= N - minos_buffer_end
  /\ \/ /\ cnt = 0
        /\ pc' = "poll"
        /\ UNCHANGED <<ring, taken, packets_served, overrun, noticed>>
     \/ /\ cnt > 0
        /\ minos_buffer' =
             [i \in 0 .. N - 1 |->
                IF i \in minos_buffer_end .. minos_buffer_end + cnt - 1
                THEN stream[taken + (i - minos_buffer_end) + 1] ELSE minos_buffer[i]]
        /\ minos_buffer_end' = (minos_buffer_end + cnt) % N
        /\ taken' = taken + cnt
        /\ packets_served' = FALSE
        /\ overrun' = (overrun \/ used + cnt >= N)
        /\ noticed' = (noticed \/ /\ minos_buffer_start # minos_buffer_end
                                  /\ free < cnt)
        /\ pc' = "parse"
        /\ UNCHANGED minos_buffer_start
  /\ UNCHANGED <<robot, sent, state, consumed, got>>

Parse_Once ==           \* fault: a call of recv serves one packet
  /\ pc = "parse"
  /\ pc' = IF used > 5 /\ ~packets_served THEN "sync" ELSE "odometry"
  /\ UNCHANGED <<robot, sent, ring, state, history, taken, packets_served>>

\* The test of the outer loop: one byte more than a packet must be there.
Parse == /\ pc = "parse"
         /\ pc' = IF used > 5 THEN "sync" ELSE "odometry"
         /\ UNCHANGED <<robot, sent, ring, state, history, taken, packets_served>>

at(i) == minos_buffer[(minos_buffer_start + i) % N]

DropOutOfSync ==
  /\ pc = "sync"
  /\ at(0) # SYNC /\ minos_buffer_start # minos_buffer_end
  /\ minos_buffer_start' = (minos_buffer_start + 1) % N
  /\ consumed' = consumed + 1
  /\ UNCHANGED <<robot, sent, minos_buffer, minos_buffer_end, state, taken, got,
                 overrun, noticed, packets_served, pc>>

\* packetize() and the switch on the command.
served_Swapped(s, c, d) == \* fault: the two encoders are mixed up
  IF c = IR THEN [s EXCEPT !.ir = {d}]
  ELSE IF c = LEFT_ENCODER THEN [s EXCEPT !.right = {d}]
  ELSE IF c = RIGHT_ENCODER THEN [s EXCEPT !.left = {d}]
  ELSE s

served(s, c, d) ==
  IF c = IR THEN [s EXCEPT !.ir = {d}]
  ELSE IF c = LEFT_ENCODER THEN [s EXCEPT !.left = {d}]
  ELSE IF c = RIGHT_ENCODER THEN [s EXCEPT !.right = {d}]
  ELSE s

Serve_Six ==            \* fault: the byte that must follow is consumed too
  /\ pc = "sync"
  /\ at(0) = SYNC \/ minos_buffer_start = minos_buffer_end
  /\ IF used > 5
     THEN /\ minos_buffer_start' = (minos_buffer_start + 6) % N
          /\ consumed' = consumed + 5
          /\ nextState' = served(nextState, at(2), at(3))
          /\ got' = IF at(2) \in {IR, LEFT_ENCODER, RIGHT_ENCODER}
                    THEN got \cup {<<at(2), at(3)>>} ELSE got
          /\ packets_served' = TRUE
     ELSE UNCHANGED <<minos_buffer_start, consumed, nextState, got, packets_served>>
  /\ pc' = "parse"
  /\ UNCHANGED <<robot, sent, minos_buffer, minos_buffer_end, currentState, taken,
                 overrun, noticed>>

Serve ==
  /\ pc = "sync"
  /\ at(0) = SYNC \/ minos_buffer_start = minos_buffer_end
  /\ \/ /\ used > 5
        /\ minos_buffer_start' = (minos_buffer_start + 5) % N
        /\ consumed' = consumed + 5
        /\ nextState' = served(nextState, at(2), at(3))
        /\ got' = IF at(2) \in {IR, LEFT_ENCODER, RIGHT_ENCODER}
                  THEN got \cup {<<at(2), at(3)>>} ELSE got
        /\ packets_served' = TRUE
     \/ /\ used <= 5
        /\ UNCHANGED <<minos_buffer_start, consumed, nextState, got, packets_served>>
  /\ pc' = "parse"
  /\ UNCHANGED <<robot, sent, minos_buffer, minos_buffer_end, currentState, taken,
                 overrun, noticed>>

sensorsComplete == nextState.left # {} /\ nextState.right # {} /\ nextState.ir # {}

\* When all sensors have reported, a new position is computed; the first one
\* always counts, a later one if the distances are plausible.
Odometry ==
  /\ pc = "odometry"
  /\ \/ /\ sensorsComplete
        /\ currentState' = nextState
        /\ nextState' = noState
     \/ /\ ~sensorsComplete \/ currentState # noState
        /\ UNCHANGED state
  /\ pc' = IF packets_served THEN "read" ELSE "poll"
  /\ UNCHANGED <<robot, sent, ring, history, taken, packets_served>>

Next == \/ Answer \/ Drive \/ Poll \/ Parse \/ DropOutOfSync \/ Serve \/ Odometry
        \/ \E cnt \in 0 .. N : Read(cnt)

Spec == Init /\ [][Next]_vars

-----------------------------------------------------------------------------
(* Properties.                                                             *)

Reading == {reading(k) : k \in 1 .. answered}
Valid(S) == {{}} \cup {{r} : r \in S}
State == [left : Valid(byte), right : Valid(byte), ir : Valid(byte)]

TypeOK ==
  /\ sent \in Seq([command : {DRIVE, POLL}, seq : byte]) /\ Len(sent) <= MaxPackets
  /\ answered \in 0 .. Len(sent) /\ torn \subseteq 1 .. answered
  /\ stream \in Seq(byte) /\ taken \in 0 .. Len(stream) /\ consumed \in Nat
  /\ minos_buffer \in [0 .. N - 1 -> byte]
  /\ minos_buffer_start \in 0 .. N - 1 /\ minos_buffer_end \in 0 .. N - 1
  /\ packets_served \in BOOLEAN /\ overrun \in BOOLEAN /\ noticed \in BOOLEAN
  /\ nextState \in State /\ currentState \in State
  /\ got \subseteq {IR, LEFT_ENCODER, RIGHT_ENCODER} \X byte
  /\ pc \in {"read", "parse", "sync", "odometry", "poll"}

\* Until a read overflows it, the ring holds exactly the bytes that have been
\* read and not consumed, in the order in which the robot sent them.
RingIsStream ==
  ~overrun => /\ consumed + used = taken
              /\ \A i \in 0 .. used - 1 : at(i) = stream[consumed + i + 1]

\* recv leaves at most one packet unread, so it starts with at most five bytes.
RestIsShort == pc \in {"read", "odometry", "poll"} => used <= 5

RingInv == RingIsStream /\ RestIsShort /\ (noticed => overrun)

\* Both: no index leaves the ring, and the ring hands the bytes on in order.
ReceiveInv == TypeOK /\ RingInv

\* Hence only a read that fills all but the last packet of the ring, or more,
\* can overflow it, though read() is told the wrong amount of room;
ShortReadsAreSafe == [][overrun' # overrun => taken' - taken >= N - 5]_vars

\* and recv notices, unless the bytes fill the ring to the last: then it takes
\* the ring for empty and drops a ring full of bytes without a word.
NoticedUnlessExact ==
  [][overrun' # overrun => noticed' \/ used + (taken' - taken) = N]_vars

\* As long as nothing overflows and no PRINT falls into an echo that carries
\* 0xAA as its sequence number, packets are cut where the robot cut them: no
\* reading is served that was not sent,
Framed == ~overrun /\ torn = {}
NothingInvented == Framed => got \subseteq {IR, LEFT_ENCODER, RIGHT_ENCODER} \X Reading

\* and none is lost, but for the last packet, which waits for the next byte.
\* A torn echo costs the replies of its own poll, and those of the packets
\* right behind it as long as they bear 0xAA too, which two threads that send
\* at the same time can bring about (minotaur.cpp:103 and 112); and no others.
shifted ==
  {j \in 1 .. answered :
     \E k \in torn : k <= j /\ \A i \in k + 1 .. j : sent[i].seq = SYNC}
NothingLost ==
  pc = "poll" /\ taken = Len(stream) /\ ~overrun =>
    \A k \in {j \in 1 .. answered : sent[j].command = POLL} \ shifted :
      /\ <<IR, reading(k)>> \in got
      /\ <<LEFT_ENCODER, reading(k)>> \in got
      /\ <<RIGHT_ENCODER, reading(k)>> \in got \/ k = answered

\* The two encoders a position is computed from answer the same poll, or the
\* left one answers the poll after the right one's: there is no poll between.
EncodersWithinOnePoll ==
  Framed => \A l \in currentState.left, r \in currentState.right :
              /\ r <= l
              /\ \A k \in 1 .. answered :
                   sent[k].command = POLL => ~(r < reading(k) /\ reading(k) < l)
=============================================================================
