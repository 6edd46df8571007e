------------------------- MODULE MinosReceiveProofs -------------------------
(***************************************************************************)
(* The ring of Minotaur::recv, for every number of slots, every stream of  *)
(* packets and characters, and every way in which read() cuts it: what is  *)
(* cut is five bytes that were sent, and it is cut where a scan of the     *)
(* whole stream would.  From that scan, what becomes of every reading: none*)
(* is invented, none is lost without a torn echo, and the two encoders are *)
(* never more than one poll apart.                                         *)
(***************************************************************************)
EXTENDS MinosReceive, SequenceTheorems, TLAPS

LEMMA RingSize == N \in Nat /\ N >= 10
  BY RingAssumption DEF N

\* One turn around the ring at most: the remainder is a subtraction.
LEMMA Wrapped ==
  ASSUME NEW n \in Nat \ {0}, NEW x \in 0 .. 2 * n - 1
  PROVE  x % n = IF x < n THEN x ELSE x - n
<1>1. CASE x < n
  BY <1>1
<1>2. CASE x >= n
  <2>1. x - n \in 0 .. n - 1 /\ x = n * 1 + (x - n)
    BY <1>2
  <2> QED BY <1>2, <2>1
<1> QED BY <1>1, <1>2

\* The distance from one index to another, going forwards.
LEMMA Distance ==
  ASSUME NEW s \in 0 .. N - 1, NEW e \in 0 .. N - 1
  PROVE  /\ (e - s + N) % N = IF s <= e THEN e - s ELSE e - s + N
         /\ (e - s + N) % N \in 0 .. N - 1
<1> DEFINE x == e - s + N
<1>1. x \in 0 .. 2 * N - 1 /\ N \in Nat \ {0}
  BY RingSize
<1>2. x % N = IF x < N THEN x ELSE x - N
  <2> HIDE DEF x
  <2> QED BY <1>1, Wrapped
<1> QED BY <1>2, RingSize

\* The bytes in use, and the room for more.
LEMMA Used ==
  ASSUME minos_buffer_start \in 0 .. N - 1, minos_buffer_end \in 0 .. N - 1
  PROVE  /\ used = IF minos_buffer_start <= minos_buffer_end
                   THEN minos_buffer_end - minos_buffer_start
                   ELSE minos_buffer_end - minos_buffer_start + N
         /\ used \in 0 .. N - 1
         /\ free = IF minos_buffer_start = minos_buffer_end THEN 0 ELSE N - used
<1>1. /\ used = IF minos_buffer_start <= minos_buffer_end
                THEN minos_buffer_end - minos_buffer_start
                ELSE minos_buffer_end - minos_buffer_start + N
      /\ used \in 0 .. N - 1
  BY Distance DEF used
<1>2. free = IF minos_buffer_end <= minos_buffer_start
             THEN minos_buffer_start - minos_buffer_end
             ELSE minos_buffer_start - minos_buffer_end + N
  BY Distance DEF free
<1> QED BY <1>1, <1>2, RingSize

LEMMA SlotOf ==
  ASSUME NEW s \in 0 .. N - 1, NEW i \in 0 .. N - 1
  PROVE  /\ (s + i) % N = IF s + i < N THEN s + i ELSE s + i - N
         /\ (s + i) % N \in 0 .. N - 1
<1> DEFINE x == s + i
<1>1. x \in 0 .. 2 * N - 1 /\ N \in Nat \ {0}
  BY RingSize
<1>2. x % N = IF x < N THEN x ELSE x - N
  <2> HIDE DEF x
  <2> QED BY <1>1, Wrapped
<1> QED BY <1>1, <1>2

-----------------------------------------------------------------------------
(* Types.                                                                  *)

LEMMA PacketType ==
  ASSUME NEW q \in byte, NEW c \in byte, NEW d \in byte
  PROVE  packet(q, c, d) \in Seq(byte) /\ Len(packet(q, c, d)) = 5
BY DEF packet, SYNC, byte

LEMMA ReadingType ==
  ASSUME NEW k \in 1 .. MaxPackets PROVE reading(k) \in byte
BY BoundAssumption DEF reading, byte

LEMMA RepliesType ==
  ASSUME NEW q \in byte, NEW k \in 1 .. MaxPackets PROVE replies(q, k) \in Seq(byte)
<1>1. IR \in byte /\ LEFT_ENCODER \in byte /\ RIGHT_ENCODER \in byte
  BY DEF IR, LEFT_ENCODER, RIGHT_ENCODER, byte
<1> QED BY <1>1, ReadingType, PacketType DEF replies

LEMMA Associative ==
  \A s, t, u \in Seq(byte) : (s \o t) \o u = s \o (t \o u) /\ s \o t \in Seq(byte)
BY ConcatAssociative

\* Concatenation as an operator of its own, which the provers leave closed.
cat(s, t) == s \o t

LEMMA CatAssociative ==
  \A s, t, u \in Seq(byte) : cat(cat(s, t), u) = cat(s, cat(t, u)) /\ cat(s, t) \in Seq(byte)
BY Associative DEF cat

\* Four pieces in a row.
LEMMA FourPieces ==
  \A s, t, u, v \in Seq(byte) :
    /\ cat(t, cat(u, v)) \in Seq(byte)
    /\ cat(cat(cat(s, t), u), v) = cat(s, cat(t, cat(u, v)))
BY CatAssociative

LEMMA Four ==
  ASSUME NEW s \in Seq(byte), NEW t \in Seq(byte), NEW u \in Seq(byte), NEW v \in Seq(byte)
  PROVE  /\ t \o (u \o v) \in Seq(byte)
         /\ ((s \o t) \o u) \o v = s \o (t \o (u \o v))
<1>1. /\ cat(t, cat(u, v)) \in Seq(byte)
      /\ cat(cat(cat(s, t), u), v) = cat(s, cat(t, cat(u, v)))
  BY FourPieces
<1> QED BY <1>1, Zenon DEF cat

\* The reply to packet k.
replyTo(q, c, k) == IF c = POLL THEN replies(q, k) ELSE packet(q, c, 0)

\* An echo with a PRINT in the middle.
splitEcho(q, c, i) ==
  SubSeq(packet(q, c, 0), 1, i) \o Text \o SubSeq(packet(q, c, 0), i + 1, 5)

\* The answer to packet k, whose number is q and whose command is c.
answerOf(k, q, c, head, body) ==
  /\ k = answered + 1 /\ k \in 1 .. Len(sent) /\ answered' = k
  /\ q = sent[k].seq /\ c = sent[k].command
  /\ \/ /\ head = packet(q, c, 0)
        /\ body \in {replyTo(q, c, k), replyTo(q, c, k) \o Text}
        /\ torn' = torn
     \/ /\ \E i \in 1 .. 4 : head = splitEcho(q, c, i)
        /\ body = replyTo(q, c, k)
        /\ torn' = IF q = SYNC THEN torn \cup {k} ELSE torn

\* What an answer adds to the stream.
LEMMA AnswerAdds ==
  ASSUME TypeOK, Answer
  PROVE  \E k \in 1 .. MaxPackets, q \in byte, c \in {DRIVE, POLL} : \E head, body \in Seq(byte) :
           stream' = stream \o (head \o body) /\ answerOf(k, q, c, head, body)
<1> DEFINE k == answered + 1
           q == sent[k].seq
           c == sent[k].command
           echo == packet(q, c, 0)
           reply == replyTo(q, c, k)
<1>1. k \in 1 .. MaxPackets /\ k \in 1 .. Len(sent) /\ q \in byte /\ c \in {DRIVE, POLL}
  <2>1. /\ answered \in Nat /\ answered < Len(sent) /\ Len(sent) <= MaxPackets
        /\ sent \in Seq([command : {DRIVE, POLL}, seq : byte])
    <3>1. answered < Len(sent)
      BY DEF Answer
    <3>2. answered \in 0 .. Len(sent) /\ Len(sent) <= MaxPackets
          /\ sent \in Seq([command : {DRIVE, POLL}, seq : byte])
      BY DEF TypeOK
    <3> QED BY <3>1, <3>2
  <2>2. k \in 1 .. Len(sent) /\ k \in 1 .. MaxPackets
    BY <2>1, BoundAssumption
  <2>3. sent[k] \in [command : {DRIVE, POLL}, seq : byte]
    <3> HIDE DEF k
    <3> QED BY <2>1, <2>2, ElementOfSeq
  <2> QED BY <2>2, <2>3
<1>2. echo \in Seq(byte) /\ Len(echo) = 5
  <2>1. c \in byte /\ 0 \in byte
    BY <1>1 DEF byte, DRIVE, POLL
  <2> HIDE DEF c, q
  <2> QED BY <1>1, <2>1, PacketType DEF echo
<1>3. reply \in Seq(byte)
  <2>1. c \in byte /\ 0 \in byte
    BY <1>1 DEF byte, DRIVE, POLL
  <2> HIDE DEF c, q, k
  <2> QED BY <1>1, <2>1, PacketType, RepliesType DEF reply, replyTo
<1>4. Text \in Seq(byte)
  <2>1. 0 .. 127 \subseteq byte
    BY DEF byte
  <2> QED BY <2>1, TextAssumption, SeqMonotonic
<1>5. stream \in Seq(byte)
  BY DEF TypeOK
<1>6. ASSUME NEW i \in 1 .. 4
      PROVE  SubSeq(echo, 1, i) \in Seq(byte) /\ SubSeq(echo, i + 1, 5) \in Seq(byte)
  BY <1>2, SubSeqProperties
<1>7. answered' = k
  BY DEF Answer
<1>8. \/ /\ stream' \in {stream \o echo \o reply, stream \o echo \o reply \o Text}
         /\ torn' = torn
      \/ \E i \in 1 .. 4 : /\ stream' = stream \o SubSeq(echo, 1, i) \o Text
                                        \o SubSeq(echo, i + 1, 5) \o reply
                           /\ torn' = IF q = SYNC THEN torn \cup {k} ELSE torn
  BY SplitAssumption DEF Answer, replyTo
<1> HIDE DEF k, q, c, echo, reply
<1>9. CASE stream' = stream \o echo \o reply /\ torn' = torn
  <2>1. stream' = stream \o (echo \o reply)
    BY <1>2, <1>3, <1>5, <1>9, Associative
  <2> QED BY <1>1, <1>2, <1>3, <1>7, <1>9, <2>1 DEF k, q, c, echo, reply, answerOf
<1>10. CASE stream' = stream \o echo \o reply \o Text /\ torn' = torn
  <2>1. reply \o Text \in Seq(byte)
    BY <1>3, <1>4, ConcatProperties
  <2>2. ((stream \o echo) \o reply) \o Text = stream \o (echo \o (reply \o Text))
    <3>1. cat(cat(cat(stream, echo), reply), Text) = cat(stream, cat(echo, cat(reply, Text)))
      BY <1>2, <1>3, <1>4, <1>5, FourPieces
    <3> QED BY <3>1, Zenon DEF cat
  <2>3. stream' = stream \o (echo \o (reply \o Text))
    BY <1>10, <2>2
  <2> QED BY <1>1, <1>2, <1>7, <1>10, <2>1, <2>3 DEF k, q, c, echo, reply, answerOf
<1>11. ASSUME NEW i \in 1 .. 4,
              stream' = stream \o SubSeq(echo, 1, i) \o Text
                        \o SubSeq(echo, i + 1, 5) \o reply
       PROVE  /\ splitEcho(q, c, i) \in Seq(byte)
              /\ stream' = stream \o (splitEcho(q, c, i) \o reply)
  <2> DEFINE a == SubSeq(echo, 1, i)
             b == SubSeq(echo, i + 1, 5)
             h == a \o Text \o b
  <2>1. a \in Seq(byte) /\ b \in Seq(byte)
    BY <1>6
  <2>2. stream' = stream \o a \o Text \o b \o reply /\ splitEcho(q, c, i) = h
    BY <1>11 DEF splitEcho, echo
  <2> HIDE DEF a, b
  <2>3. a \o Text \in Seq(byte) /\ h \in Seq(byte)
    BY <1>4, <2>1, Associative
  <2>4. stream' = stream \o (a \o Text) \o b \o reply
    BY <1>4, <1>5, <2>1, <2>2, Associative
  <2>5. stream' = stream \o h \o reply
    BY <1>5, <2>1, <2>3, <2>4, Associative
  <2> HIDE DEF h
  <2>6. stream' = stream \o (h \o reply)
    BY <1>3, <1>5, <2>3, <2>5, Associative
  <2> QED BY <2>2, <2>3, <2>6
<1>12. ASSUME NEW i \in 1 .. 4,
              stream' = stream \o SubSeq(echo, 1, i) \o Text
                        \o SubSeq(echo, i + 1, 5) \o reply,
              torn' = IF q = SYNC THEN torn \cup {k} ELSE torn
       PROVE  \E head, body \in Seq(byte) :
                /\ stream' = stream \o (head \o body)
                /\ \E j \in 1 .. 4 : head = splitEcho(q, c, j)
                /\ body = reply
  BY <1>3, <1>11, <1>12
<1> QED BY <1>1, <1>7, <1>8, <1>9, <1>10, <1>12 DEF k, q, c, echo, reply, answerOf

\* The robot only ever adds bytes.
LEMMA AnswerGrows ==
  ASSUME TypeOK, Answer
  PROVE  \E more \in Seq(byte) : stream' = stream \o more
<1>1. PICK head \in Seq(byte), body \in Seq(byte) : stream' = stream \o (head \o body)
  BY AnswerAdds
<1> QED BY <1>1, Associative

LEMMA AnswerType ==
  ASSUME TypeOK, Answer
  PROVE  /\ stream' \in Seq(byte) /\ Len(stream) <= Len(stream')
         /\ \A i \in 1 .. Len(stream) : stream'[i] = stream[i]
         /\ answered' \in 0 .. Len(sent) /\ torn' \subseteq 1 .. answered'
<1>1. PICK more \in Seq(byte) : stream' = stream \o more
  BY AnswerGrows
<1>2. stream \in Seq(byte)
  BY DEF TypeOK
<1>3. /\ Len(stream) \in Nat /\ Len(more) \in Nat
      /\ stream' \in Seq(byte) /\ Len(stream') = Len(stream) + Len(more)
      /\ \A i \in 1 .. Len(stream) : stream'[i] = stream[i]
  BY <1>1, <1>2, ConcatProperties
<1>4. /\ answered < Len(sent) /\ answered' = answered + 1
      /\ torn' = torn \/ torn' = torn \cup {answered + 1}
  BY DEF Answer
<1>5. answered \in 0 .. Len(sent) /\ torn \subseteq 1 .. answered /\ Len(sent) \in Nat
  BY DEF TypeOK
<1>6. answered' \in 0 .. Len(sent) /\ answered + 1 \in 1 .. answered'
      /\ 1 .. answered \subseteq 1 .. answered'
  BY <1>4, <1>5
<1>7. torn' \subseteq 1 .. answered'
  BY <1>4, <1>5, <1>6
<1>8. Len(stream) <= Len(stream')
  BY <1>3
<1> QED BY <1>3, <1>6, <1>7, <1>8

LEMMA SendType ==
  ASSUME TypeOK, NEW c \in {DRIVE, POLL}, sendpacket(c), Len(sent) < MaxPackets
  PROVE  /\ sent' \in Seq([command : {DRIVE, POLL}, seq : byte])
         /\ Len(sent') <= MaxPackets /\ answered \in 0 .. Len(sent')
<1>1. PICK q \in Sequence[Len(sent) + 1] : sent' = Append(sent, [command |-> c, seq |-> q])
  BY DEF sendpacket
<1>2. /\ sent \in Seq([command : {DRIVE, POLL}, seq : byte])
      /\ answered \in 0 .. Len(sent)
  BY DEF TypeOK
<1>3. [command |-> c, seq |-> q] \in [command : {DRIVE, POLL}, seq : byte]
  <2>1. Len(sent) \in Nat /\ MaxPackets \in Nat /\ Len(sent) < MaxPackets
    BY <1>2, BoundAssumption
  <2>2. Len(sent) + 1 \in 1 .. MaxPackets
    BY <2>1
  <2>3. q \in byte
    BY <1>1, <2>2, SequenceAssumption
  <2> QED BY <2>3
<1>4. /\ sent' \in Seq([command : {DRIVE, POLL}, seq : byte])
      /\ Len(sent') = Len(sent) + 1 /\ Len(sent) \in Nat
  BY <1>1, <1>2, <1>3
<1> QED BY <1>2, <1>4, BoundAssumption

\* A byte of the ring is a byte, and what a packet does to nextState.
LEMMA AtType ==
  ASSUME TypeOK, NEW i \in 0 .. N - 1 PROVE at(i) \in byte
<1>1. /\ minos_buffer \in [0 .. N - 1 -> byte] /\ minos_buffer_start \in 0 .. N - 1
  BY DEF TypeOK
<1>2. (minos_buffer_start + i) % N \in 0 .. N - 1
  BY <1>1, SlotOf
<1> QED BY <1>1, <1>2 DEF at

LEMMA ServedType ==
  ASSUME NEW s \in State, NEW c \in byte, NEW d \in byte PROVE served(s, c, d) \in State
<1>1. {d} \in Valid(byte)
  BY DEF Valid
<1>2. s \in [left : Valid(byte), right : Valid(byte), ir : Valid(byte)]
  BY DEF State
<1>3. \/ served(s, c, d) = s
      \/ served(s, c, d) = [s EXCEPT !.ir = {d}]
      \/ served(s, c, d) = [s EXCEPT !.left = {d}]
      \/ served(s, c, d) = [s EXCEPT !.right = {d}]
  BY DEF served
<1> QED BY <1>1, <1>2, <1>3 DEF State

LEMMA ReadType ==
  ASSUME TypeOK, NEW cnt \in 1 .. N, Read(cnt)
  PROVE  /\ minos_buffer' \in [0 .. N - 1 -> byte]
         /\ minos_buffer_end' \in 0 .. N - 1 /\ taken' \in 0 .. Len(stream)
<1>1. /\ minos_buffer \in [0 .. N - 1 -> byte] /\ minos_buffer_end \in 0 .. N - 1
      /\ taken \in 0 .. Len(stream) /\ stream \in Seq(byte) /\ Len(stream) \in Nat
  BY DEF TypeOK
<1>2. /\ cnt <= Len(stream) - taken /\ cnt <= N - minos_buffer_end
      /\ minos_buffer' =
             [i \in 0 .. N - 1 |->
                IF i \in minos_buffer_end .. minos_buffer_end + cnt - 1
                THEN stream[taken + (i - minos_buffer_end) + 1] ELSE minos_buffer[i]]
      /\ minos_buffer_end' = (minos_buffer_end + cnt) % N /\ taken' = taken + cnt
  BY RingSize DEF Read
<1>3. ASSUME NEW i \in minos_buffer_end .. minos_buffer_end + cnt - 1
      PROVE  stream[taken + (i - minos_buffer_end) + 1] \in byte
  <2>1. taken + (i - minos_buffer_end) + 1 \in 1 .. Len(stream)
    BY <1>1, <1>2, RingSize
  <2> QED BY <1>1, <2>1, ElementOfSeq
<1>4. minos_buffer' \in [0 .. N - 1 -> byte]
  BY <1>1, <1>2, <1>3
<1>5. minos_buffer_end' \in 0 .. N - 1 /\ taken' \in 0 .. Len(stream)
  BY <1>1, <1>2, RingSize
<1> QED BY <1>4, <1>5

LEMMA TypeInit == Init => TypeOK
<1> SUFFICES ASSUME Init PROVE TypeOK
  OBVIOUS
<1>1. noState \in State
  BY DEF noState, State, Valid
<1>2. minos_buffer \in [0 .. N - 1 -> byte]
  BY DEF Init, byte
<1>3. 0 \in 0 .. N - 1
  BY RingSize
<1>4. stream \in Seq(byte) /\ Len(stream) = 0 /\ Len(sent) = 0
      /\ sent \in Seq([command : {DRIVE, POLL}, seq : byte])
  BY DEF Init
<1>5. taken = 0 /\ answered = 0 /\ torn = {} /\ consumed = 0 /\ got = {}
      /\ minos_buffer_start = 0 /\ minos_buffer_end = 0
      /\ packets_served = FALSE /\ overrun = FALSE /\ noticed = FALSE
      /\ nextState = noState /\ currentState = noState /\ pc = "read"
  BY DEF Init
<1>6. taken \in 0 .. Len(stream) /\ answered \in 0 .. Len(sent)
      /\ Len(sent) <= MaxPackets /\ torn \subseteq 1 .. answered
  BY <1>4, <1>5, BoundAssumption
<1> QED BY <1>1, <1>2, <1>3, <1>4, <1>5, <1>6 DEF TypeOK

LEMMA TypeStep == TypeOK /\ [Next]_vars => TypeOK'
<1> SUFFICES ASSUME TypeOK, [Next]_vars PROVE TypeOK'
  OBVIOUS
<1> USE DEF robot, ring, state, history
<1>1. CASE Answer
  <2>1. /\ stream' \in Seq(byte) /\ Len(stream) <= Len(stream')
        /\ answered' \in 0 .. Len(sent) /\ torn' \subseteq 1 .. answered'
    BY <1>1, AnswerType
  <2>2. taken \in 0 .. Len(stream')
    <3>1. taken \in 0 .. Len(stream) /\ Len(stream) \in Nat /\ Len(stream') \in Nat
      BY <2>1 DEF TypeOK
    <3> QED BY <2>1, <3>1
  <2>3. UNCHANGED <<sent, minos_buffer, minos_buffer_start, minos_buffer_end, nextState,
                    currentState, consumed, got, overrun, noticed, taken,
                    packets_served, pc>>
    BY <1>1 DEF Answer
  <2> QED BY <2>1, <2>2, <2>3 DEF TypeOK
<1>2. CASE Drive
  BY <1>2, SendType DEF Drive, TypeOK
<1>3. CASE Poll
  <2>1. CASE Len(sent) < MaxPackets /\ sendpacket(POLL)
    BY <1>3, <2>1, SendType DEF Poll, TypeOK
  <2>2. CASE UNCHANGED sent
    BY <1>3, <2>2 DEF Poll, TypeOK
  <2> QED BY <1>3, <2>1, <2>2 DEF Poll
<1>4. CASE Parse
  BY <1>4 DEF Parse, TypeOK
<1>5. CASE DropOutOfSync
  <2>1. minos_buffer_start' \in 0 .. N - 1
    BY <1>5, SlotOf, RingSize DEF DropOutOfSync, TypeOK
  <2> QED BY <1>5, <2>1 DEF DropOutOfSync, TypeOK
<1>6. CASE Serve
  <2>1. at(2) \in byte /\ at(3) \in byte
    BY AtType, RingSize
  <2>2. nextState' \in State
    BY <1>6, <2>1, ServedType DEF Serve, TypeOK
  <2>3. got' \subseteq {IR, LEFT_ENCODER, RIGHT_ENCODER} \X byte
    BY <1>6, <2>1 DEF Serve, TypeOK
  <2>4. minos_buffer_start' \in 0 .. N - 1 /\ consumed' \in Nat /\ packets_served' \in BOOLEAN
    <3>1. /\ minos_buffer_start' \in {minos_buffer_start, (minos_buffer_start + 5) % N}
          /\ consumed' \in {consumed, consumed + 5}
          /\ packets_served' \in {packets_served, TRUE}
      BY <1>6 DEF Serve
    <3>2. minos_buffer_start \in 0 .. N - 1 /\ consumed \in Nat /\ packets_served \in BOOLEAN
      BY DEF TypeOK
    <3>3. (minos_buffer_start + 5) % N \in 0 .. N - 1
      BY <3>2, SlotOf, RingSize
    <3>4. minos_buffer_start' \in 0 .. N - 1 /\ consumed' \in Nat
      BY <3>1, <3>2, <3>3
    <3>5. packets_served' \in BOOLEAN
      BY <3>1, <3>2
    <3> QED BY <3>4, <3>5
  <2>5. /\ UNCHANGED <<answered, torn, stream, sent, minos_buffer, minos_buffer_end,
                       currentState, taken, overrun, noticed>>
        /\ pc' = "parse"
    BY <1>6 DEF Serve
  <2> QED BY <2>2, <2>3, <2>4, <2>5 DEF TypeOK
<1>7. CASE Odometry
  <2>1. noState \in State
    BY DEF noState, State, Valid
  <2> QED BY <1>7, <2>1 DEF Odometry, TypeOK
<1>8. ASSUME NEW cnt \in 0 .. N, Read(cnt) PROVE TypeOK'
  <2>1. CASE cnt = 0
    BY <1>8, <2>1 DEF Read, TypeOK
  <2>2. CASE cnt # 0
    <3>1. cnt \in 1 .. N
      BY <2>2, RingSize
    <3>2. noticed' \in BOOLEAN /\ overrun' \in BOOLEAN
      BY <1>8, <3>1 DEF Read, TypeOK
    <3> QED BY <1>8, <3>1, <3>2, ReadType DEF Read, TypeOK
  <2> QED BY <2>1, <2>2
<1>9. CASE UNCHANGED vars
  BY <1>9 DEF vars, TypeOK
<1> QED BY <1>1, <1>2, <1>3, <1>4, <1>5, <1>6, <1>7, <1>8, <1>9 DEF Next

\* Every variable stays in its range, in particular the two indices inside
\* minos_buffer, whatever arrives and however the ring is overrun.
THEOREM TypeCorrect == Spec => []TypeOK
  BY TypeInit, TypeStep, PTL DEF Spec

-----------------------------------------------------------------------------
(* The ring holds the stream.                                              *)

\* read() puts the new bytes behind the unread ones, if they fit.
LEMMA ReadRing ==
  ASSUME TypeOK, RingIsStream, NEW cnt \in 1 .. N, Read(cnt)
  PROVE  /\ overrun' = (overrun \/ used + cnt >= N)
         /\ RingIsStream'
<1>1. /\ minos_buffer_start \in 0 .. N - 1 /\ minos_buffer_end \in 0 .. N - 1
      /\ taken \in Nat /\ consumed \in Nat /\ Len(stream) \in Nat
  BY DEF TypeOK
<1>2. /\ cnt <= N - minos_buffer_end
      /\ minos_buffer' =
             [i \in 0 .. N - 1 |->
                IF i \in minos_buffer_end .. minos_buffer_end + cnt - 1
                THEN stream[taken + (i - minos_buffer_end) + 1] ELSE minos_buffer[i]]
      /\ minos_buffer_end' = (minos_buffer_end + cnt) % N
      /\ taken' = taken + cnt /\ overrun' = (overrun \/ used + cnt >= N)
      /\ UNCHANGED <<minos_buffer_start, consumed, stream>>
  BY RingSize DEF Read, robot
<1> SUFFICES ASSUME ~overrun' PROVE RingIsStream'
  BY <1>2 DEF RingIsStream
<1>3. ~overrun /\ used + cnt < N
  <2>1. ~overrun /\ ~(used + cnt >= N)
    BY <1>2
  <2>2. used \in 0 .. N - 1
    BY <1>1, Used
  <2> QED BY <2>1, <2>2, RingSize
<1>4. /\ consumed + used = taken
      /\ \A i \in 0 .. used - 1 : at(i) = stream[consumed + i + 1]
  BY <1>3 DEF RingIsStream
<1>5. /\ used = IF minos_buffer_start <= minos_buffer_end
                THEN minos_buffer_end - minos_buffer_start
                ELSE minos_buffer_end - minos_buffer_start + N
      /\ used \in 0 .. N - 1
  BY <1>1, Used
<1>6. minos_buffer_end' = IF minos_buffer_end + cnt = N THEN 0 ELSE minos_buffer_end + cnt
  <2>1. CASE cnt = N
    BY <1>1, <1>2, <1>3, <1>5, <2>1, RingSize
  <2>2. CASE cnt # N
    <3>1. cnt \in 0 .. N - 1
      BY <2>2, RingSize
    <3>2. (minos_buffer_end + cnt) % N = IF minos_buffer_end + cnt < N
                                         THEN minos_buffer_end + cnt
                                         ELSE minos_buffer_end + cnt - N
      BY <1>1, <3>1, SlotOf
    <3> QED BY <1>1, <1>2, <3>1, <3>2, RingSize
  <2> QED BY <2>1, <2>2
<1>7. minos_buffer_end' \in 0 .. N - 1
  BY <1>1, <1>2, <1>6, RingSize
<1>8. used' = used + cnt
  <2>1. used' = IF minos_buffer_start <= minos_buffer_end'
                THEN minos_buffer_end' - minos_buffer_start
                ELSE minos_buffer_end' - minos_buffer_start + N
    <3>1. minos_buffer_start' \in 0 .. N - 1
      BY <1>1, <1>2
    <3>2. used' = (minos_buffer_end' - minos_buffer_start' + N) % N
      BY DEF used
    <3>3. used' = IF minos_buffer_start' <= minos_buffer_end'
                  THEN minos_buffer_end' - minos_buffer_start'
                  ELSE minos_buffer_end' - minos_buffer_start' + N
      BY <1>7, <3>1, <3>2, Distance
    <3> QED BY <1>2, <3>3
  <2> QED BY <1>1, <1>3, <1>5, <1>6, <2>1, RingSize
<1>9. ASSUME NEW i \in 0 .. used' - 1
      PROVE  at(i)' = stream'[consumed' + i + 1]
  <2> DEFINE j == (minos_buffer_start + i) % N
  <2>1. i \in 0 .. N - 1 /\ i \in Int
    BY <1>3, <1>5, <1>8, RingSize
  <2>2. /\ j = IF minos_buffer_start + i < N THEN minos_buffer_start + i
               ELSE minos_buffer_start + i - N
        /\ j \in 0 .. N - 1
    BY <1>1, <2>1, SlotOf
  <2>3. at(i)' = minos_buffer'[j]
    BY <1>2 DEF at
  <2>4. at(i) = minos_buffer[j]
    BY DEF at
  <2> HIDE DEF j
  <2>5. CASE i < used
    <3>1. j \notin minos_buffer_end .. minos_buffer_end + cnt - 1
      BY <1>1, <1>2, <1>3, <1>5, <2>1, <2>2, <2>5, RingSize
    <3>2. minos_buffer'[j] = minos_buffer[j]
      BY <1>2, <2>2, <3>1
    <3>3. i \in 0 .. used - 1
      BY <1>5, <2>1, <2>5
    <3> QED BY <1>2, <1>4, <2>3, <2>4, <3>2, <3>3
  <2>6. CASE i >= used
    <3>1. j = minos_buffer_end + (i - used) /\ i - used < cnt
      BY <1>1, <1>2, <1>3, <1>5, <1>8, <2>1, <2>2, <2>6, RingSize
    <3>2. j \in minos_buffer_end .. minos_buffer_end + cnt - 1
      BY <1>1, <1>5, <2>1, <2>6, <3>1, RingSize
    <3>3. minos_buffer'[j] = stream[taken + (j - minos_buffer_end) + 1]
      BY <1>2, <2>2, <3>2
    <3>4. taken + (j - minos_buffer_end) + 1 = consumed + i + 1
      <4>1. consumed + used = taken
        BY <1>4
      <4> QED BY <1>1, <1>5, <2>1, <3>1, <4>1, RingSize
    <3> QED BY <1>2, <2>3, <3>3, <3>4
  <2> QED BY <1>5, <2>1, <2>5, <2>6
<1>10. consumed' + used' = taken'
  <2>1. PICK u \in Int, c \in Int : u = used /\ c = consumed
    BY <1>1, <1>5
  <2>2. taken = c + u /\ used' = u + cnt /\ consumed' = c /\ taken' = taken + cnt
    BY <1>2, <1>4, <1>8, <2>1
  <2>3. c + (u + cnt) = (c + u) + cnt
    OBVIOUS
  <2> QED BY <2>2, <2>3
<1> QED BY <1>9, <1>10 DEF RingIsStream

\* Taking k bytes out leaves those behind them.
LEMMA TakeOut ==
  ASSUME TypeOK, RingIsStream, NEW k \in Nat, k <= used,
         minos_buffer_start' = (minos_buffer_start + k) % N,
         consumed' = consumed + k,
         UNCHANGED <<minos_buffer, minos_buffer_end, stream, taken, overrun>>
  PROVE  RingIsStream'
<1>1. /\ minos_buffer_start \in 0 .. N - 1 /\ minos_buffer_end \in 0 .. N - 1
      /\ taken \in Nat /\ consumed \in Nat
  BY DEF TypeOK
<1>2. /\ used = IF minos_buffer_start <= minos_buffer_end
                THEN minos_buffer_end - minos_buffer_start
                ELSE minos_buffer_end - minos_buffer_start + N
      /\ used \in 0 .. N - 1
  BY <1>1, Used
<1>3. k \in 0 .. N - 1
  BY <1>2, RingSize
<1>4. /\ minos_buffer_start' = IF minos_buffer_start + k < N THEN minos_buffer_start + k
                               ELSE minos_buffer_start + k - N
      /\ minos_buffer_start' \in 0 .. N - 1
  BY <1>1, <1>3, SlotOf
<1>5. used' = used - k
  <2>1. used' = (minos_buffer_end - minos_buffer_start' + N) % N
    BY DEF used
  <2>2. used' = IF minos_buffer_start' <= minos_buffer_end
                THEN minos_buffer_end - minos_buffer_start'
                ELSE minos_buffer_end - minos_buffer_start' + N
    BY <1>1, <1>4, <2>1, Distance
  <2> QED BY <1>1, <1>2, <1>3, <1>4, <2>2, RingSize
<1> SUFFICES ASSUME ~overrun' PROVE RingIsStream'
  BY DEF RingIsStream
<1>6. /\ consumed + used = taken
      /\ \A i \in 0 .. used - 1 : at(i) = stream[consumed + i + 1]
  BY DEF RingIsStream
<1>7. consumed' + used' = taken'
  <2>1. consumed + used = taken
    BY <1>6
  <2> QED BY <1>1, <1>2, <1>5, <2>1, RingSize
<1>8. ASSUME NEW i \in 0 .. used' - 1 PROVE at(i)' = stream'[consumed' + i + 1]
  <2>1. i \in 0 .. N - 1 /\ i + k \in 0 .. used - 1 /\ i + k \in 0 .. N - 1
    BY <1>2, <1>3, <1>5, RingSize
  <2>2. (minos_buffer_start' + i) % N = IF minos_buffer_start' + i < N
                                        THEN minos_buffer_start' + i
                                        ELSE minos_buffer_start' + i - N
    BY <1>4, <2>1, SlotOf
  <2>3. (minos_buffer_start + (i + k)) % N = IF minos_buffer_start + (i + k) < N
                                             THEN minos_buffer_start + (i + k)
                                             ELSE minos_buffer_start + (i + k) - N
    BY <1>1, <2>1, SlotOf
  <2>4. (minos_buffer_start' + i) % N = (minos_buffer_start + (i + k)) % N
    BY <1>1, <1>3, <1>4, <2>1, <2>2, <2>3, RingSize
  <2>5. at(i)' = minos_buffer[(minos_buffer_start' + i) % N]
    BY DEF at
  <2>6. at(i + k) = minos_buffer[(minos_buffer_start + (i + k)) % N]
    BY DEF at
  <2>7. at(i + k) = stream[consumed + (i + k) + 1]
    BY <1>6, <2>1
  <2>8. consumed' + i + 1 = consumed + (i + k) + 1
    BY <1>1, <1>3, <2>1, RingSize
  <2> QED BY <2>4, <2>5, <2>6, <2>7, <2>8
<1> QED BY <1>7, <1>8 DEF RingIsStream

\* What neither touches the ring nor the bytes already sent keeps it.
LEMMA Untouched ==
  ASSUME TypeOK, RingIsStream,
         UNCHANGED <<minos_buffer, minos_buffer_start, minos_buffer_end, consumed,
                     taken, overrun>>,
         \A i \in 1 .. Len(stream) : stream'[i] = stream[i]
  PROVE  RingIsStream' /\ used' = used
<1>1. used' = used
  BY DEF used
<1>2. /\ minos_buffer_start \in 0 .. N - 1 /\ minos_buffer_end \in 0 .. N - 1
      /\ taken \in 0 .. Len(stream) /\ consumed \in Nat /\ Len(stream) \in Nat
  BY DEF TypeOK
<1> SUFFICES ASSUME ~overrun' PROVE RingIsStream'
  BY <1>1 DEF RingIsStream
<1>3. consumed + used = taken
  BY DEF RingIsStream
<1>4. used \in 0 .. N - 1
  BY <1>2, Used
<1>5. ASSUME NEW i \in 0 .. used' - 1 PROVE at(i)' = stream'[consumed' + i + 1]
  <2>1. consumed + i + 1 \in 1 .. Len(stream)
    BY <1>1, <1>2, <1>3, <1>4, RingSize
  <2>2. at(i)' = at(i) /\ at(i) = stream[consumed + i + 1]
    BY <1>1 DEF at, RingIsStream
  <2> QED BY <2>1, <2>2
<1> QED BY <1>1, <1>3, <1>5 DEF RingIsStream

LEMMA RingInit == Init => RingInv
<1> SUFFICES ASSUME Init PROVE RingInv
  OBVIOUS
<1>1. minos_buffer_start = 0 /\ minos_buffer_end = 0 /\ consumed = 0 /\ taken = 0
      /\ noticed = FALSE
  BY DEF Init
<1>2. used = 0
  BY <1>1, Used, RingSize
<1>3. RingIsStream
  BY <1>1, <1>2 DEF RingIsStream
<1> QED BY <1>1, <1>2, <1>3 DEF RingInv, RestIsShort

\* A read that recv complains of has overflowed the ring; one it does not
\* complain of has not, or has filled it exactly.
LEMMA Complaint ==
  ASSUME TypeOK, NEW cnt \in 1 .. N, cnt <= N - minos_buffer_end
  PROVE  /\ minos_buffer_start # minos_buffer_end /\ free < cnt => used + cnt >= N
         /\ used + cnt >= N => \/ minos_buffer_start # minos_buffer_end /\ free < cnt
                               \/ used + cnt = N
<1>1. minos_buffer_start \in 0 .. N - 1 /\ minos_buffer_end \in 0 .. N - 1
  BY DEF TypeOK
<1>2. /\ used \in 0 .. N - 1
      /\ used = IF minos_buffer_start <= minos_buffer_end
                THEN minos_buffer_end - minos_buffer_start
                ELSE minos_buffer_end - minos_buffer_start + N
      /\ free = IF minos_buffer_start = minos_buffer_end THEN 0 ELSE N - used
  BY <1>1, Used
<1> QED BY <1>1, <1>2, RingSize

LEMMA RingStep == TypeOK /\ RingInv /\ [Next]_vars => RingInv'
<1> SUFFICES ASSUME TypeOK, RingInv, [Next]_vars PROVE RingInv'
  OBVIOUS
<1>0. RingIsStream /\ RestIsShort /\ (noticed => overrun)
  BY DEF RingInv
<1> USE DEF robot, ring, state, history
<1>u. used \in Nat /\ (used > 5 \/ used <= 5) /\ ~(used > 5 /\ used <= 5)
  <2>1. minos_buffer_start \in 0 .. N - 1 /\ minos_buffer_end \in 0 .. N - 1
    BY DEF TypeOK
  <2>2. used \in 0 .. N - 1
    BY <2>1, Used
  <2> QED BY <2>2, RingSize
<1>1. CASE Answer
  <2>1. \A i \in 1 .. Len(stream) : stream'[i] = stream[i]
    BY <1>1, AnswerType
  <2>2. RingIsStream' /\ used' = used
    BY <1>0, <1>1, <2>1, Untouched DEF Answer
  <2> QED BY <1>0, <1>1, <2>2 DEF Answer, RingInv, RestIsShort
<1>2. CASE Drive \/ Poll \/ Parse \/ Odometry \/ UNCHANGED vars
  <2>1. UNCHANGED <<minos_buffer, minos_buffer_start, minos_buffer_end, consumed,
                    taken, overrun, noticed, stream>>
    BY <1>2 DEF Drive, Poll, Parse, Odometry, vars
  <2>2. RingIsStream' /\ used' = used
    BY <1>0, <2>1, Untouched
  <2>3. pc' \in {"read", "odometry", "poll"} =>
          pc \in {"read", "odometry", "poll"} \/ used <= 5
    BY <1>2, <1>u DEF Drive, Poll, Parse, Odometry, vars
  <2> QED BY <1>0, <2>1, <2>2, <2>3 DEF RingInv, RestIsShort
<1>3. CASE DropOutOfSync
  <2>1. minos_buffer_start \in 0 .. N - 1 /\ minos_buffer_end \in 0 .. N - 1
    BY DEF TypeOK
  <2>2. 1 <= used
    BY <1>3, <2>1, Used, RingSize DEF DropOutOfSync
  <2>3. RingIsStream'
    BY <1>0, <1>3, <2>2, TakeOut DEF DropOutOfSync
  <2> QED BY <1>0, <1>3, <2>3 DEF DropOutOfSync, RingInv, RestIsShort
<1>4. CASE Serve
  <2>1. CASE used > 5
    <3>1. minos_buffer_start' = (minos_buffer_start + 5) % N /\ consumed' = consumed + 5
      BY <1>4, <1>u, <2>1 DEF Serve
    <3>2. 5 <= used
      BY <1>u, <2>1
    <3>3. RingIsStream'
      BY <1>0, <1>4, <3>1, <3>2, TakeOut DEF Serve
    <3> QED BY <1>0, <1>4, <3>3 DEF Serve, RingInv, RestIsShort
  <2>2. CASE ~(used > 5)
    <3>1. UNCHANGED <<minos_buffer, minos_buffer_start, minos_buffer_end, consumed,
                      taken, overrun, stream>>
      BY <1>4, <2>2 DEF Serve
    <3>2. RingIsStream'
      BY <1>0, <3>1, Untouched
    <3> QED BY <1>0, <1>4, <3>2 DEF Serve, RingInv, RestIsShort
  <2> QED BY <2>1, <2>2
<1>5. ASSUME NEW cnt \in 0 .. N, Read(cnt) PROVE RingInv'
  <2>1. CASE cnt = 0
    <3>1. UNCHANGED <<minos_buffer, minos_buffer_start, minos_buffer_end, consumed,
                      taken, overrun, noticed, stream>>
      BY <1>5, <2>1 DEF Read
    <3>2. RingIsStream' /\ used' = used
      BY <1>0, <3>1, Untouched
    <3>3. pc = "read"
      BY <1>5 DEF Read
    <3> QED BY <1>0, <3>1, <3>2, <3>3 DEF RingInv, RestIsShort
  <2>2. CASE cnt # 0
    <3>1. cnt \in 1 .. N
      BY <2>2, RingSize
    <3>2. RingIsStream' /\ overrun' = (overrun \/ used + cnt >= N)
      BY <1>0, <1>5, <3>1, ReadRing
    <3>3. /\ cnt <= N - minos_buffer_end /\ pc' = "parse"
          /\ noticed' = (noticed \/ /\ minos_buffer_start # minos_buffer_end
                                    /\ free < cnt)
      BY <1>5, <3>1 DEF Read
    <3>4. noticed' => overrun'
      BY <1>0, <3>1, <3>2, <3>3, Complaint
    <3> QED BY <3>2, <3>3, <3>4 DEF RingInv, RestIsShort
  <2> QED BY <2>1, <2>2
<1> QED BY <1>1, <1>2, <1>3, <1>4, <1>5 DEF Next

\* Until a read overflows it, the ring is a first-in first-out queue of the
\* robot's bytes, for every number of slots and every way read() cuts them.
THEOREM RingInvariant == Spec => []RingInv
<1>1. TypeOK /\ RingInv /\ [Next]_vars => TypeOK' /\ RingInv'
  BY TypeStep, RingStep
<1> QED BY TypeInit, RingInit, <1>1, PTL DEF Spec

\* A step that overflows the ring is a read.
LEMMA Overflow ==
  ASSUME TypeOK, RingInv, [Next]_vars, overrun' # overrun
  PROVE  \E cnt \in 1 .. N : Read(cnt) /\ taken' = taken + cnt /\ used + cnt >= N
                             /\ used <= 5 /\ used \in Nat
<1>1. ~(Answer \/ Drive \/ Poll \/ Parse \/ DropOutOfSync \/ Serve \/ Odometry \/ UNCHANGED vars)
  BY DEF Answer, Drive, Poll, Parse, DropOutOfSync, Serve, Odometry, vars, history
<1>2. PICK cnt \in 0 .. N : Read(cnt)
  BY <1>1 DEF Next
<1>3. cnt > 0 /\ taken' = taken + cnt /\ overrun' = (overrun \/ used + cnt >= N)
      /\ pc = "read"
  BY <1>2 DEF Read
<1>4. used + cnt >= N
  <2> DEFINE full == used + cnt >= N
  <2>1. overrun' = (overrun \/ full)
    BY <1>3
  <2>2. overrun \in BOOLEAN /\ overrun' # overrun
    BY DEF TypeOK
  <2>3. full \in BOOLEAN
    OBVIOUS
  <2> HIDE DEF full
  <2>4. full
    BY <2>1, <2>2, <2>3, Zenon
  <2> QED BY <2>4 DEF full
<1>5. minos_buffer_start \in 0 .. N - 1 /\ minos_buffer_end \in 0 .. N - 1
  BY DEF TypeOK
<1>6. used <= 5 /\ used \in Nat
  BY <1>3, <1>5, Used, RingSize DEF RingInv, RestIsShort
<1>7. cnt \in 1 .. N
  BY <1>3, RingSize
<1> QED BY <1>2, <1>3, <1>4, <1>6, <1>7

\* Together, for every size of the ring: every index stays inside it, and it
\* hands the bytes on in order until it is overflowed.
THEOREM ReceiveInvariant == Spec => []ReceiveInv
  BY TypeCorrect, RingInvariant, PTL DEF ReceiveInv

\* Whatever the size of the ring, only a read that fills it but for the last
\* packet can overflow it.
THEOREM ShortReads == Spec => ShortReadsAreSafe
<1>1. ASSUME TypeOK, RingInv, [Next]_vars, overrun' # overrun PROVE taken' - taken >= N - 5
  <2>1. PICK cnt \in 1 .. N : taken' = taken + cnt /\ used + cnt >= N /\ used <= 5
                             /\ used \in Nat
    BY <1>1, Overflow
  <2>2. taken \in Nat
    BY <1>1 DEF TypeOK
  <2> QED BY <2>1, <2>2, RingSize
<1>2. TypeOK /\ RingInv /\ [Next]_vars
        => [overrun' # overrun => taken' - taken >= N - 5]_vars
  BY <1>1
<1>3. Spec => []TypeOK /\ []RingInv
  BY TypeCorrect, RingInvariant
<1> QED BY <1>2, <1>3, PTL DEF Spec, ShortReadsAreSafe

\* And recv complains of every overflow but the one that fills the ring exactly.
THEOREM OverflowIsNoticed == Spec => NoticedUnlessExact
<1>1. ASSUME TypeOK, RingInv, [Next]_vars, overrun' # overrun
      PROVE  noticed' \/ used + (taken' - taken) = N
  <2>1. PICK cnt \in 1 .. N : Read(cnt) /\ taken' = taken + cnt /\ used + cnt >= N
    BY <1>1, Overflow
  <2>2. /\ cnt <= N - minos_buffer_end
        /\ noticed' = (noticed \/ /\ minos_buffer_start # minos_buffer_end
                                  /\ free < cnt)
    BY <2>1, RingSize DEF Read
  <2>3. taken \in Nat /\ taken' - taken = cnt
    BY <1>1, <2>1, RingSize DEF TypeOK
  <2>4. noticed' \/ used + cnt = N
    BY <1>1, <2>1, <2>2, Complaint
  <2> QED BY <2>3, <2>4
<1>2. TypeOK /\ RingInv /\ [Next]_vars
        => [overrun' # overrun => noticed' \/ used + (taken' - taken) = N]_vars
  BY <1>1
<1>3. Spec => []TypeOK /\ []RingInv
  BY TypeCorrect, RingInvariant
<1> QED BY <1>2, <1>3, PTL DEF Spec, NoticedUnlessExact

-----------------------------------------------------------------------------
(* Walks over the stream.                                                  *)

Sensors == {IR, LEFT_ENCODER, RIGHT_ENCODER}
Sensor(s) == IF s = 1 THEN IR ELSE IF s = 2 THEN LEFT_ENCODER ELSE RIGHT_ENCODER

\* The packet between c and c + 5 is no reply of a sensor,
Other(str, T, c, l, n) == n = l /\ (T = {} => str[c + 3] \notin Sensors)

\* or the reply of sensor s to poll k, and no other reply is missing before it.
Missing(P, T, l, n) == \E j \in P \ T, t \in 1 .. 3 : l < 3 * j + t /\ 3 * j + t < n

Reply(str, P, T, c, l, n) ==
  \E k \in P, s \in 1 .. 3 :
    /\ str[c + 3] = Sensor(s) /\ str[c + 4] = reading(k)
    /\ l < 3 * k + s /\ n = 3 * k + s /\ ~Missing(P, T, l, n)

Step(str, P, T, W, c, l) ==
  IF str[c + 1] # SYNC THEN <<c + 1, l>> \in W
  ELSE \E n \in Int : /\ <<c + 5, n>> \in W
                      /\ Other(str, T, c, l, n) \/ Reply(str, P, T, c, l, n)

Path(str, P, T, W, e, le, m) ==
  /\ <<e, le>> \in W /\ e \in {Len(str), Len(str) + 1}
  /\ \A c \in Nat, l \in Int : <<c, l>> \in W =>
       /\ l <= le /\ (c + 5 >= Len(str) => m <= l)
       /\ \/ c = e /\ l = le
          \/ c < Len(str) /\ Step(str, P, T, W, c, l)

Walk(str, P, T, a, la, e, le, m) ==
  \E W \in SUBSET (Nat \X Int) : <<a, la>> \in W /\ Path(str, P, T, W, e, le, m)

LEMMA Concat ==
  \A s, t \in Seq(Int) : s \o t \in Seq(Int) /\ Len(s \o t) = Len(s) + Len(t)
BY ConcatProperties

\* Two walks in a row are a walk.
LEMMA Joined ==
  ASSUME NEW s1 \in Seq(Int), NEW s2 \in Seq(Int), NEW P, NEW T,
         NEW L \in Nat, NEW M \in Nat, Len(s1) = L, Len(s2) = M,
         NEW a \in Nat, NEW e \in Nat, NEW b \in Nat, NEW x \in Nat, NEW z \in Nat,
         NEW la \in Int, NEW le \in Int, NEW lx \in Int,
         NEW m1 \in Int, NEW m2 \in Int, NEW m \in Int,
         Walk(s1, P, T, a, la, e, le, m1), Walk(s2, P, T, b, le, x, lx, m2),
         e - b = L, z - x = L, m <= m2, m <= m1 \/ M >= 5
  PROVE  Walk(s1 \o s2, P, T, a, la, z, lx, m)
<1> DEFINE str == s1 \o s2
<1>1. Len(str) = L + M /\ e = L + b /\ z = L + x
  <2>1. Len(str) = Len(s1) + Len(s2)
    BY ConcatProperties
  <2> QED BY <2>1
<1>0. /\ \A i \in 1 .. L : str[i] = s1[i]
      /\ \A i \in 1 .. M : str[L + i] = s2[i]
  <2>1. \A i \in 1 .. Len(s1) + Len(s2) :
          str[i] = IF i <= Len(s1) THEN s1[i] ELSE s2[i - Len(s1)]
    BY ConcatProperties
  <2> HIDE DEF str
  <2>2. \A i \in 1 .. L + M : str[i] = IF i <= L THEN s1[i] ELSE s2[i - L]
    BY <2>1
  <2>3. ASSUME NEW i \in 1 .. M PROVE str[L + i] = s2[i]
    <3>1. L + i \in 1 .. L + M /\ ~(L + i <= L) /\ L + i - L = i
      OBVIOUS
    <3> QED BY <2>2, <3>1
  <2>4. ASSUME NEW i \in 1 .. L PROVE str[i] = s1[i]
    <3>1. i \in 1 .. L + M /\ i <= L
      OBVIOUS
    <3> QED BY <2>2, <3>1
  <2> QED BY <2>3, <2>4
<1>2. PICK W1 \in SUBSET (Nat \X Int) : <<a, la>> \in W1 /\ Path(s1, P, T, W1, e, le, m1)
  BY DEF Walk
<1>3. PICK W2 \in SUBSET (Nat \X Int) :
        <<b, le>> \in W2 /\ Path(s2, P, T, W2, x, lx, m2)
  BY DEF Walk
<1> DEFINE W == {w \in Nat \X Int : \/ w[1] < L /\ w \in W1
                                    \/ w[1] >= L /\ <<w[1] - L, w[2]>> \in W2}
<1>4. ASSUME NEW c \in Nat, NEW l \in Int
      PROVE  <<c, l>> \in W <=> \/ c < L /\ <<c, l>> \in W1
                                \/ c >= L /\ <<c - L, l>> \in W2
  OBVIOUS
<1> HIDE DEF W
<1>5. e \in {L, L + 1} /\ x \in {M, M + 1}
  BY <1>2, <1>3 DEF Path
<1>6. <<e, le>> \in W
  <2>1. e - L = b /\ e >= L
    BY <1>1
  <2> QED BY <1>3, <1>4, <2>1
<1>7. <<z, lx>> \in W
  <2>1. <<x, lx>> \in W2
    BY <1>3 DEF Path
  <2>2. z - L = x /\ z >= L
    BY <1>1
  <2> QED BY <1>1, <1>4, <2>1, <2>2
<1>8. \A c \in Nat, l \in Int : <<c, l>> \in W1 =>
        /\ l <= le /\ (c + 5 >= L => m1 <= l)
        /\ \/ c = e /\ l = le
           \/ c < L /\ Step(s1, P, T, W1, c, l)
  BY <1>2 DEF Path
<1>9. \A c \in Nat, l \in Int : <<c, l>> \in W2 =>
        /\ l <= lx /\ (c + 5 >= M => m2 <= l)
        /\ \/ c = x /\ l = lx
           \/ c < M /\ Step(s2, P, T, W2, c, l)
  BY <1>3 DEF Path
<1>10. le <= lx
  BY <1>1, <1>3, <1>5, <1>9
\* What the first walk leads to, the whole one does.
<1>11. ASSUME NEW c \in Nat, NEW l \in Int, <<c, l>> \in W1 PROVE <<c, l>> \in W
  <2>1. CASE c = e /\ l = le
    BY <1>6, <2>1
  <2>2. CASE c < L
    BY <1>4, <1>11, <2>2
  <2> QED BY <1>8, <1>11, <2>1, <2>2
<1>12. ASSUME NEW c \in Nat, NEW l \in Int, <<c, l>> \in W2 PROVE <<L + c, l>> \in W
  <2>1. L + c \in Nat /\ L + c >= L /\ L + c - L = c
    BY <1>1
  <2> QED BY <1>4, <1>12, <2>1
<1>13. <<a, la>> \in W
  BY <1>2, <1>11
<1> HIDE DEF str
<1>8a. \A c \in Nat, l \in Int : <<c, l>> \in W1 => c <= L + 1
  <2>1. e <= L + 1
    BY <1>5
  <2> QED BY <1>8, <2>1
<1>9a. \A c \in Nat, l \in Int : <<c, l>> \in W2 => c <= M + 1
  <2>1. x <= M + 1
    BY <1>5
  <2> QED BY <1>9, <2>1
<1>14. ASSUME NEW c \in Nat, NEW l \in Int, <<c, l>> \in W1, c < L,
              Step(s1, P, T, W1, c, l)
       PROVE  Step(str, P, T, W, c, l)
  <2>1. str[c + 1] = s1[c + 1] /\ c + 1 \in Nat /\ c + 5 \in Nat
    <3>1. c + 1 \in 1 .. L
      BY <1>1, <1>14
    <3> QED BY <1>0, <3>1
  <2>2. CASE s1[c + 1] # SYNC
    BY <1>11, <1>14, <2>1, <2>2 DEF Step
  <2>3. CASE s1[c + 1] = SYNC
    <3>1. PICK n \in Int : /\ <<c + 5, n>> \in W1
                           /\ Other(s1, T, c, l, n) \/ Reply(s1, P, T, c, l, n)
      BY <1>14, <2>3 DEF Step
    <3>2. c + 5 <= L + 1
      BY <1>8a, <2>1, <3>1
    <3>3. str[c + 3] = s1[c + 3] /\ str[c + 4] = s1[c + 4]
      <4>1. c + 3 \in 1 .. L /\ c + 4 \in 1 .. L
        BY <1>1, <3>2
      <4> QED BY <1>0, <4>1
    <3>4. Other(str, T, c, l, n) \/ Reply(str, P, T, c, l, n)
      BY <3>1, <3>3 DEF Other, Reply
    <3>5. <<c + 5, n>> \in W
      BY <1>11, <2>1, <3>1
    <3> QED BY <2>1, <2>3, <3>4, <3>5 DEF Step
  <2> QED BY <2>2, <2>3
<1>15. ASSUME NEW c \in Nat, NEW l \in Int, <<c, l>> \in W2, c < M,
              Step(s2, P, T, W2, c, l)
       PROVE  Step(str, P, T, W, L + c, l)
  <2>1. str[(L + c) + 1] = s2[c + 1] /\ c + 1 \in Nat /\ c + 5 \in Nat
    <3>1. c + 1 \in 1 .. M /\ (L + c) + 1 = L + (c + 1)
      BY <1>1, <1>15
    <3> QED BY <1>0, <3>1
  <2>2. CASE s2[c + 1] # SYNC
    <3>1. <<L + (c + 1), l>> \in W
      BY <1>12, <1>15, <2>1, <2>2 DEF Step
    <3>2. (L + c) + 1 = L + (c + 1)
      BY <1>1
    <3> QED BY <2>1, <2>2, <3>1, <3>2 DEF Step
  <2>3. CASE s2[c + 1] = SYNC
    <3>1. PICK n \in Int : /\ <<c + 5, n>> \in W2
                           /\ Other(s2, T, c, l, n) \/ Reply(s2, P, T, c, l, n)
      BY <1>15, <2>3 DEF Step
    <3>2. c + 5 <= M + 1
      BY <1>9a, <2>1, <3>1
    <3>3. str[(L + c) + 3] = s2[c + 3] /\ str[(L + c) + 4] = s2[c + 4]
      <4>1. c + 3 \in 1 .. M /\ c + 4 \in 1 .. M
        BY <3>2
      <4>2. (L + c) + 3 = L + (c + 3) /\ (L + c) + 4 = L + (c + 4)
        OBVIOUS
      <4>3. str[L + (c + 3)] = s2[c + 3]
        BY <1>0, <4>1
      <4>4. str[L + (c + 4)] = s2[c + 4]
        BY <1>0, <4>1
      <4> QED BY <4>2, <4>3, <4>4
    <3>4. Other(str, T, L + c, l, n) \/ Reply(str, P, T, L + c, l, n)
      BY <3>1, <3>3 DEF Other, Reply
    <3>5. <<L + (c + 5), n>> \in W
      BY <1>12, <2>1, <3>1
    <3>6. (L + c) + 5 = L + (c + 5)
      BY <1>1
    <3> QED BY <2>1, <2>3, <3>4, <3>5, <3>6 DEF Step
  <2> QED BY <2>2, <2>3
<1>16. ASSUME NEW c \in Nat, NEW l \in Int, <<c, l>> \in W
       PROVE  /\ l <= lx /\ (c + 5 >= Len(str) => m <= l)
              /\ \/ c = z /\ l = lx
                 \/ c < Len(str) /\ Step(str, P, T, W, c, l)
  <2>1. CASE c < L /\ <<c, l>> \in W1
    <3>1. l <= le /\ (c + 5 >= L => m1 <= l)
          /\ Step(s1, P, T, W1, c, l)
      BY <1>1, <1>5, <1>8, <2>1
    <3>2. l <= lx /\ c < Len(str)
      BY <1>1, <1>10, <2>1, <3>1
    <3>3. c + 5 >= Len(str) => m <= l
      <4>1. CASE M >= 5
        BY <1>1, <2>1, <4>1
      <4>2. CASE m <= m1
        BY <1>1, <2>1, <3>1, <4>2
      <4> QED BY <4>1, <4>2
    <3> QED BY <1>14, <2>1, <3>1, <3>2, <3>3
  <2>2. CASE c >= L /\ <<c - L, l>> \in W2
    <3>1. c - L \in Nat
      BY <1>1, <2>2
    <3>2. /\ l <= lx /\ (c - L + 5 >= M => m2 <= l)
          /\ \/ c - L = x /\ l = lx
             \/ c - L < M /\ Step(s2, P, T, W2, c - L, l)
      BY <1>9, <2>2, <3>1
    <3>3. l <= lx /\ (c + 5 >= Len(str) => m <= l) /\ L + (c - L) = c
      BY <1>1, <2>2, <3>2
    <3>4. CASE c - L = x /\ l = lx
      BY <1>1, <3>3, <3>4
    <3>5. CASE c - L < M /\ Step(s2, P, T, W2, c - L, l)
      <4>1. Step(str, P, T, W, L + (c - L), l)
        BY <1>15, <2>2, <3>1, <3>5
      <4>2. c < Len(str)
        BY <1>1, <3>5
      <4> QED BY <3>3, <4>1, <4>2
    <3> QED BY <3>2, <3>4, <3>5
  <2> QED BY <1>4, <1>16, <2>1, <2>2
<1>17. Path(str, P, T, W, z, lx, m)
  <2>1. x = M \/ x = M + 1
    BY <1>5
  <2>2. z = Len(str) \/ z = Len(str) + 1
    <3>1. CASE x = M
      BY <1>1, <3>1
    <3>2. CASE x = M + 1
      BY <1>1, <3>2
    <3> QED BY <2>1, <3>1, <3>2
  <2> QED BY <1>7, <1>16, <2>2 DEF Path
<1>18. W \in SUBSET (Nat \X Int)
  BY DEF W
<1> QED BY <1>13, <1>17, <1>18 DEF Walk, str

\* What has no 0xAA in it is skipped byte by byte.
LEMMA Skipped ==
  ASSUME NEW s \in Seq(Int), NEW P, NEW T, NEW l \in Int, NEW a \in 0 .. Len(s),
         \A i \in a + 1 .. Len(s) : s[i] # SYNC
  PROVE  Walk(s, P, T, a, l, Len(s), l, l)
<1> DEFINE W == {w \in Nat \X Int : w[2] = l /\ w[1] \in a .. Len(s)}
<1>1. ASSUME NEW c \in Nat, NEW n \in Int
      PROVE  <<c, n>> \in W <=> n = l /\ c \in a .. Len(s)
  OBVIOUS
<1>2. Len(s) \in Nat /\ a \in Nat /\ a <= Len(s)
  OBVIOUS
<1> HIDE DEF W
<1>3. <<a, l>> \in W /\ <<Len(s), l>> \in W
  BY <1>1, <1>2
<1>4. ASSUME NEW c \in Nat, NEW n \in Int, <<c, n>> \in W
      PROVE  /\ n <= l /\ l <= n
             /\ \/ c = Len(s) /\ n = l
                \/ c < Len(s) /\ Step(s, P, T, W, c, n)
  <2>1. n = l /\ c \in a .. Len(s)
    BY <1>1, <1>4
  <2>2. CASE c = Len(s)
    BY <2>1, <2>2
  <2>3. CASE c # Len(s)
    <3>1. c < Len(s) /\ c + 1 \in a + 1 .. Len(s) /\ c + 1 \in a .. Len(s) /\ c + 1 \in Nat
      BY <1>2, <2>1, <2>3
    <3>2. s[c + 1] # SYNC /\ <<c + 1, n>> \in W
      BY <1>1, <2>1, <3>1
    <3>3. Step(s, P, T, W, c, n)
      BY <3>2 DEF Step
    <3> QED BY <2>1, <3>1, <3>3
  <2> QED BY <2>2, <2>3
<1>5. Path(s, P, T, W, Len(s), l, l)
  BY <1>3, <1>4 DEF Path
<1>6. W \in SUBSET (Nat \X Int)
  BY DEF W
<1> QED BY <1>3, <1>5, <1>6 DEF Walk

\* A packet that is no reply of a sensor, or is entered a byte late, with
\* skipped bytes behind it.
LEMMA Passed ==
  ASSUME NEW s \in Seq(Int), NEW P, NEW T, NEW l \in Int, NEW a \in {0, 1},
         Len(s) >= a + 5, s[a + 1] = SYNC, T = {} => s[a + 3] \notin Sensors,
         \A i \in a + 6 .. Len(s) : s[i] # SYNC
  PROVE  Walk(s, P, T, a, l, Len(s), l, l)
<1> DEFINE W == {w \in Nat \X Int : w[2] = l /\ (w[1] = a \/ w[1] \in a + 5 .. Len(s))}
<1>1. ASSUME NEW c \in Nat, NEW n \in Int
      PROVE  <<c, n>> \in W <=> n = l /\ (c = a \/ c \in a + 5 .. Len(s))
  OBVIOUS
<1>2. Len(s) \in Nat /\ a \in Nat /\ a < 5
  OBVIOUS
<1> HIDE DEF W
<1>3. <<a, l>> \in W /\ <<Len(s), l>> \in W
  BY <1>1, <1>2
<1>4. ASSUME NEW c \in Nat, NEW n \in Int, <<c, n>> \in W
      PROVE  /\ n <= l /\ l <= n
             /\ \/ c = Len(s) /\ n = l
                \/ c < Len(s) /\ Step(s, P, T, W, c, n)
  <2>1. n = l /\ (c = a \/ c \in a + 5 .. Len(s))
    BY <1>1, <1>4
  <2>2. CASE c = Len(s)
    BY <2>1, <2>2
  <2>3. CASE c = a
    <3>1. s[c + 1] = SYNC /\ s[c + 3] = s[a + 3] /\ c < Len(s)
      BY <1>2, <2>3
    <3>2. <<c + 5, n>> \in W
      BY <1>1, <1>2, <2>1, <2>3
    <3>3. Other(s, T, c, n, n)
      BY <3>1 DEF Other
    <3>4. Step(s, P, T, W, c, n)
      BY <3>1, <3>2, <3>3 DEF Step
    <3> QED BY <2>1, <3>1, <3>4
  <2>4. CASE c # Len(s) /\ c \in a + 5 .. Len(s)
    <3>1. c < Len(s) /\ c + 1 \in a + 6 .. Len(s) /\ c + 1 \in a + 5 .. Len(s) /\ c + 1 \in Nat
      BY <1>2, <2>4
    <3>2. s[c + 1] # SYNC /\ <<c + 1, n>> \in W
      BY <1>1, <2>1, <3>1
    <3>3. Step(s, P, T, W, c, n)
      BY <3>2 DEF Step
    <3> QED BY <2>1, <3>1, <3>3
  <2> QED BY <2>1, <2>2, <2>3, <2>4
<1>5. Path(s, P, T, W, Len(s), l, l)
  BY <1>3, <1>4 DEF Path
<1>6. W \in SUBSET (Nat \X Int)
  BY DEF W
<1> QED BY <1>3, <1>5, <1>6 DEF Walk

\* A packet that is entered a byte late, or lacks one, ends a byte late too.
LEMMA Late ==
  ASSUME NEW s \in Seq(Int), NEW P, NEW T, NEW l \in Int, NEW a \in {0, 1},
         Len(s) = a + 4, s[a + 1] = SYNC, T # {}, NEW e \in Nat, e - a = 5
  PROVE  Walk(s, P, T, a, l, e, l, l)
<1> DEFINE W == {w \in Nat \X Int : w[2] = l /\ w[1] \in {a, e}}
<1>1. ASSUME NEW c \in Nat, NEW n \in Int
      PROVE  <<c, n>> \in W <=> n = l /\ c \in {a, e}
  OBVIOUS
<1>2. a \in Nat /\ Len(s) + 1 = e
  OBVIOUS
<1> HIDE DEF W
<1>3. <<a, l>> \in W /\ <<e, l>> \in W
  BY <1>1, <1>2
<1>4. ASSUME NEW c \in Nat, NEW n \in Int, <<c, n>> \in W
      PROVE  /\ n <= l /\ l <= n
             /\ \/ c = e /\ n = l
                \/ c < Len(s) /\ Step(s, P, T, W, c, n)
  <2>1. n = l /\ (c = a \/ c = e)
    BY <1>1, <1>4
  <2>2. CASE c = e
    BY <2>1, <2>2
  <2>3. CASE c = a
    <3>1. s[c + 1] = SYNC /\ c < Len(s) /\ c + 5 = e
      BY <1>2, <2>3
    <3>2. <<c + 5, n>> \in W
      BY <1>3, <2>1, <3>1
    <3>3. Other(s, T, c, n, n)
      BY DEF Other
    <3>4. Step(s, P, T, W, c, n)
      BY <3>1, <3>2, <3>3 DEF Step
    <3> QED BY <2>1, <3>1, <3>4
  <2> QED BY <2>1, <2>2, <2>3
<1>5. Path(s, P, T, W, e, l, l)
  BY <1>2, <1>3, <1>4 DEF Path
<1>6. W \in SUBSET (Nat \X Int)
  BY DEF W
<1> QED BY <1>2, <1>3, <1>5, <1>6 DEF Walk

\* A reply that is due.
LEMMA Replied ==
  ASSUME NEW q \in Int, NEW P, NEW T, NEW k \in P, NEW t \in 1 .. 3, k \in Nat,
         NEW l \in Int, NEW n \in Int, n - t = 3 * k, l < n,
         ~Missing(P, T, l, n)
  PROVE  Walk(packet(q, Sensor(t), reading(k)), P, T, 0, l, 5, n, l)
<1> DEFINE s == packet(q, Sensor(t), reading(k))
           W == {w \in Nat \X Int : (w[1] = 0 /\ w[2] = l) \/ (w[1] = 5 /\ w[2] = n)}
<1>1. n \in Int /\ l < n
  OBVIOUS
<1>2. s[1] = SYNC /\ s[3] = Sensor(t) /\ s[4] = reading(k) /\ Len(s) = 5
  BY DEF packet
<1>3. Reply(s, P, T, 0, l, n)
  BY <1>2 DEF Reply
<1> HIDE DEF s
<1>4. ASSUME NEW c \in Nat, NEW i \in Int
      PROVE  <<c, i>> \in W <=> (c = 0 /\ i = l) \/ (c = 5 /\ i = n)
  OBVIOUS
<1>5. W \in SUBSET (Nat \X Int)
  OBVIOUS
<1> HIDE DEF W
<1>6. <<0, l>> \in W /\ <<5, n>> \in W
  BY <1>1, <1>4
<1>7. Step(s, P, T, W, 0, l)
  BY <1>1, <1>2, <1>3, <1>6 DEF Step
<1>8. ASSUME NEW c \in Nat, NEW i \in Int, <<c, i>> \in W
      PROVE  /\ i <= n /\ l <= i
             /\ \/ c = 5 /\ i = n
                \/ c < 5 /\ Step(s, P, T, W, c, i)
  BY <1>1, <1>4, <1>7, <1>8
<1>9. Path(s, P, T, W, 5, n, l)
  BY <1>1, <1>2, <1>6, <1>8 DEF Path
<1> QED BY <1>5, <1>6, <1>9 DEF Walk, s

\* Polls answered later, and echoes torn later, change nothing before them.
LEMMA Extended ==
  ASSUME NEW s \in Seq(Int), NEW P, NEW T, NEW P2, NEW T2,
         P \subseteq P2, T \subseteq T2, P2 \subseteq Nat,
         \A k \in P, j \in P2 \ P : k < j,
         NEW a, NEW la, NEW e, NEW le, NEW m, Walk(s, P, T, a, la, e, le, m)
  PROVE  Walk(s, P2, T2, a, la, e, le, m)
<1>1. PICK W \in SUBSET (Nat \X Int) : <<a, la>> \in W /\ Path(s, P, T, W, e, le, m)
  BY DEF Walk
<1>2. ASSUME NEW c \in Nat, NEW l \in Int, Step(s, P, T, W, c, l)
      PROVE  Step(s, P2, T2, W, c, l)
  <2>1. CASE s[c + 1] # SYNC
    BY <1>2, <2>1 DEF Step
  <2>2. CASE s[c + 1] = SYNC
    <3>1. PICK n \in Int : /\ <<c + 5, n>> \in W
                           /\ Other(s, T, c, l, n) \/ Reply(s, P, T, c, l, n)
      BY <1>2, <2>2 DEF Step
    <3>2. CASE Other(s, T, c, l, n)
      <4>1. Other(s, T2, c, l, n)
        BY <3>2 DEF Other
      <4> QED BY <2>2, <3>1, <4>1 DEF Step
    <3>3. CASE Reply(s, P, T, c, l, n)
      <4>1. PICK k \in P, t \in 1 .. 3 :
              /\ s[c + 3] = Sensor(t) /\ s[c + 4] = reading(k)
              /\ l < 3 * k + t /\ n = 3 * k + t /\ ~Missing(P, T, l, n)
        BY <3>3 DEF Reply
      <4>2. ASSUME NEW j \in P2 \ T2, NEW u \in 1 .. 3, l < 3 * j + u, 3 * j + u < n
            PROVE  FALSE
        <5>1. j \in P \ T
          <6>1. CASE j \in P
            BY <6>1
          <6>2. CASE j \notin P
            <7>1. k < j /\ k \in Nat /\ j \in Nat
              BY <6>2
            <7>2. 3 * k + t < 3 * j + u
              BY <7>1
            <7>3. n = 3 * k + t /\ 3 * j + u < n
              BY <4>1, <4>2
            <7> QED BY <7>1, <7>2, <7>3
          <6> QED BY <6>1, <6>2
        <5> QED BY <4>1, <4>2, <5>1 DEF Missing
      <4>3. Reply(s, P2, T2, c, l, n)
        BY <4>1, <4>2 DEF Reply, Missing
      <4> QED BY <2>2, <3>1, <4>3 DEF Step
    <3> QED BY <3>1, <3>2, <3>3
  <2> QED BY <2>1, <2>2
<1>3. Path(s, P2, T2, W, e, le, m)
  BY <1>1, <1>2 DEF Path
<1> QED BY <1>1, <1>3 DEF Walk

-----------------------------------------------------------------------------
(* The pieces an answer is made of.                                        *)

LEMMA TextType ==
  /\ Text \in Seq(Int) /\ Len(Text) \in Nat /\ Len(Text) >= 2
  /\ \A i \in 1 .. Len(Text) : Text[i] # SYNC /\ Text[i] \notin Sensors
<1>1. Text \in Seq(0 .. 127) /\ Len(Text) >= 2
  BY TextAssumption
<1>2. ASSUME NEW i \in 1 .. Len(Text) PROVE Text[i] \in 0 .. 127
  BY <1>1, ElementOfSeq
<1>3. ASSUME NEW i \in 1 .. Len(Text) PROVE Text[i] # SYNC /\ Text[i] \notin Sensors
  <2> DEFINE t == Text[i]
  <2>1. t \in 0 .. 127
    BY <1>2
  <2> HIDE DEF t
  <2>2. t # SYNC /\ t \notin Sensors
    BY <2>1 DEF SYNC, Sensors, IR, LEFT_ENCODER, RIGHT_ENCODER
  <2> QED BY <2>2 DEF t
<1>4. Text \in Seq(Int)
  <2>1. 0 .. 127 \subseteq Int
    OBVIOUS
  <2> QED BY <1>1, <2>1, SeqMonotonic
<1> QED BY <1>1, <1>3, <1>4

LEMMA PacketBytes ==
  ASSUME NEW q \in byte, NEW c \in byte, NEW d \in byte
  PROVE  /\ packet(q, c, d) \in Seq(Int) /\ Len(packet(q, c, d)) = 5
         /\ packet(q, c, d)[1] = SYNC /\ packet(q, c, d)[2] = q
         /\ packet(q, c, d)[3] = c /\ packet(q, c, d)[4] = d /\ packet(q, c, d)[5] = 0
BY DEF packet, SYNC, byte

\* An echo in one piece, and a reply without a reading.
LEMMA EchoWalk ==
  ASSUME NEW q \in byte, NEW c \in {DRIVE, POLL}, NEW P, NEW T, NEW l \in Int,
         NEW a \in {0, 1}, a = 1 => q # SYNC
  PROVE  Walk(packet(q, c, 0), P, T, a, l, 5, l, l)
<1> DEFINE s == packet(q, c, 0)
<1>1. c \in byte /\ 0 \in byte /\ c # SYNC /\ c \notin Sensors /\ 0 # SYNC
  BY DEF byte, DRIVE, POLL, SYNC, Sensors, IR, LEFT_ENCODER, RIGHT_ENCODER
<1>2. /\ s \in Seq(Int) /\ Len(s) = 5 /\ s[1] = SYNC /\ s[2] = q
      /\ s[3] = c /\ s[4] = 0 /\ s[5] = 0
  BY <1>1, PacketBytes
<1> HIDE DEF s
<1>3. CASE a = 0
  <2>1. \A i \in a + 6 .. Len(s) : s[i] # SYNC
    BY <1>2, <1>3
  <2>2. s[a + 1] = SYNC /\ s[a + 3] \notin Sensors /\ Len(s) >= a + 5
    BY <1>1, <1>2, <1>3
  <2>3. Walk(s, P, T, a, l, Len(s), l, l)
    BY <1>2, <2>1, <2>2, Passed
  <2> QED BY <1>2, <1>3, <2>3 DEF s
<1>4. CASE a = 1
  <2>1. ASSUME NEW i \in a + 1 .. Len(s) PROVE s[i] # SYNC
    <3>1. i = 2 \/ i = 3 \/ i = 4 \/ i = 5
      BY <1>2, <1>4
    <3> QED BY <1>1, <1>2, <1>4, <3>1
  <2>2. a \in 0 .. Len(s)
    BY <1>2, <1>4
  <2>3. Walk(s, P, T, a, l, Len(s), l, l)
    BY <1>2, <2>1, <2>2, Skipped
  <2> QED BY <1>2, <2>3 DEF s
<1> QED BY <1>3, <1>4

\* An echo with a PRINT in the middle.
LEMMA SplitBytes ==
  ASSUME NEW p \in Seq(Int), Len(p) = 5, NEW i \in 1 .. 4
  PROVE  LET s == SubSeq(p, 1, i) \o Text \o SubSeq(p, i + 1, 5)
         IN  /\ s \in Seq(Int) /\ Len(s) = 5 + Len(Text)
             /\ \A j \in 1 .. i : s[j] = p[j]
             /\ \A j \in i + 1 .. i + Len(Text) : s[j] = Text[j - i]
             /\ \A j \in i + Len(Text) + 1 .. Len(s) : s[j] = p[j - Len(Text)]
<1> DEFINE u == SubSeq(p, 1, i)
           v == SubSeq(p, i + 1, 5)
           t == Text
           s == (u \o t) \o v
<1>1. /\ u \in Seq(Int) /\ Len(u) = i
      /\ \A j \in 1 .. i : u[j] = p[j]
  <2>1. \A j \in 1 .. 5 : p[j] \in Int
    BY ElementOfSeq
  <2>2. \A j \in 1 .. i : p[j] \in Int
    BY <2>1
  <2>3. /\ u \in Seq(Int) /\ Len(u) = i - 1 + 1
        /\ \A j \in 1 .. i - 1 + 1 : u[j] = p[1 + j - 1]
    BY <2>2, SubSeqProperties
  <2> HIDE DEF u
  <2> QED BY <2>3
<1>2. /\ v \in Seq(Int) /\ Len(v) = 5 - i
      /\ \A j \in 1 .. 5 - i : v[j] = p[i + j]
  <2>1. i + 1 \in 1 .. 5 /\ i + 1 - 1 = i /\ 5 - (i + 1) + 1 = 5 - i
    OBVIOUS
  <2>2. /\ v \in Seq(Int) /\ Len(v) = 5 - i
        /\ \A j \in 1 .. 5 - i : v[j] = p[(i + 1) + j - 1]
    <3>1. \A j \in 1 .. 5 : p[j] \in Int
      BY ElementOfSeq
    <3>2. \A j \in i + 1 .. 5 : p[j] \in Int
      BY <3>1
    <3>3. /\ v \in Seq(Int) /\ Len(v) = 5 - (i + 1) + 1
          /\ \A j \in 1 .. 5 - (i + 1) + 1 : v[j] = p[(i + 1) + j - 1]
      BY <3>2, SubSeqProperties
    <3> HIDE DEF v
    <3> QED BY <2>1, <3>3
  <2>3. ASSUME NEW j \in 1 .. 5 - i PROVE (i + 1) + j - 1 = i + j
    OBVIOUS
  <2> QED BY <2>2, <2>3
<1>3. t \in Seq(Int) /\ Len(t) \in Nat
  BY TextType
<1> HIDE DEF u, v, t
<1>4. /\ u \o t \in Seq(Int) /\ Len(u \o t) = i + Len(t)
      /\ \A j \in 1 .. i : (u \o t)[j] = u[j]
      /\ \A j \in i + 1 .. i + Len(t) : (u \o t)[j] = t[j - i]
  <2>1. u \o t \in Seq(Int) /\ Len(u \o t) = Len(u) + Len(t)
    BY <1>1, <1>3, Concat
  <2>2. /\ \A j \in 1 .. Len(u) : (u \o t)[j] = u[j]
        /\ \A j \in Len(u) + 1 .. Len(u) + Len(t) : (u \o t)[j] = t[j - Len(u)]
    <3>1. u \in Seq(Int) /\ t \in Seq(Int)
      BY <1>1, <1>3
    <3> QED BY <3>1, ConcatProperties
  <2> QED BY <1>1, <2>1, <2>2
<1> DEFINE w == u \o t
<1>5. w \in Seq(Int) /\ Len(w) = i + Len(t)
  BY <1>4
<1> HIDE DEF w
<1>6. /\ w \o v \in Seq(Int) /\ Len(w \o v) = 5 + Len(t)
      /\ \A j \in 1 .. i + Len(t) : (w \o v)[j] = w[j]
      /\ \A j \in i + Len(t) + 1 .. 5 + Len(t) : (w \o v)[j] = v[j - (i + Len(t))]
  <2>1. /\ w \o v \in Seq(Int) /\ Len(w \o v) = Len(w) + Len(v)
        /\ \A j \in 1 .. Len(w) + Len(v) : (w \o v)[j] = IF j <= Len(w) THEN w[j]
                                                        ELSE v[j - Len(w)]
    BY <1>2, <1>5, ConcatProperties
  <2>2. Len(w) + Len(v) = 5 + Len(t)
    BY <1>2, <1>3, <1>5
  <2>3. ASSUME NEW j \in 1 .. i + Len(t) PROVE (w \o v)[j] = w[j]
    BY <1>3, <1>5, <2>1, <2>2
  <2>4. ASSUME NEW j \in i + Len(t) + 1 .. 5 + Len(t)
        PROVE  (w \o v)[j] = v[j - (i + Len(t))]
    BY <1>3, <1>5, <2>1, <2>2
  <2> QED BY <2>1, <2>2, <2>3, <2>4
<1>7. ASSUME NEW j \in 1 .. i PROVE (w \o v)[j] = p[j]
  <2>1. j \in 1 .. i + Len(t)
    BY <1>3
  <2> QED BY <1>1, <1>4, <1>6, <2>1 DEF w
<1>8. ASSUME NEW j \in i + 1 .. i + Len(t) PROVE (w \o v)[j] = t[j - i]
  <2>1. j \in 1 .. i + Len(t)
    BY <1>3
  <2> QED BY <1>4, <1>6, <2>1 DEF w
<1>9. ASSUME NEW j \in i + Len(t) + 1 .. 5 + Len(t) PROVE (w \o v)[j] = p[j - Len(t)]
  <2>1. j - (i + Len(t)) \in 1 .. 5 - i /\ i + (j - (i + Len(t))) = j - Len(t)
    BY <1>3
  <2> QED BY <1>2, <1>6, <2>1
<1>10. s = w \o v
  BY DEF w
<1> QED BY <1>6, <1>7, <1>8, <1>9, <1>10 DEF s, u, v, t

\* An answer starts where a packet does, or a byte late; the latter makes a
\* difference only if it carries 0xAA too.
Starts(a, q, k, T) == a \in {0, 1} /\ (a = 1 /\ q = SYNC => k \in T)

\* It is passed like one without, but for one case: if it carries 0xAA as its
\* sequence number it may end a byte late.
LEMMA SplitWalk ==
  ASSUME NEW q \in byte, NEW c \in {DRIVE, POLL}, NEW i \in 1 .. 4, NEW P, NEW T,
         NEW l \in Int, NEW a \in {0, 1}, q = SYNC => T # {}
  PROVE  \/ Walk(splitEcho(q, c, i), P, T, a, l, Len(splitEcho(q, c, i)), l, l)
         \/ /\ q = SYNC
            /\ Walk(splitEcho(q, c, i), P, T, a, l, Len(splitEcho(q, c, i)) + 1, l, l)
<1> DEFINE p == packet(q, c, 0)
           s == splitEcho(q, c, i)
           n == Len(Text)
<1>1. c \in byte /\ 0 \in byte /\ c # SYNC /\ c \notin Sensors /\ 0 # SYNC
  BY DEF byte, DRIVE, POLL, SYNC, Sensors, IR, LEFT_ENCODER, RIGHT_ENCODER
<1>2. /\ p \in Seq(Int) /\ Len(p) = 5 /\ p[1] = SYNC /\ p[2] = q
      /\ p[3] = c /\ p[4] = 0 /\ p[5] = 0
  BY <1>1, PacketBytes
<1> HIDE DEF p
<1>3. /\ s \in Seq(Int) /\ Len(s) = 5 + n
      /\ \A j \in 1 .. i : s[j] = p[j]
      /\ \A j \in i + 1 .. i + n : s[j] = Text[j - i]
      /\ \A j \in i + n + 1 .. Len(s) : s[j] = p[j - n]
  BY <1>2, SplitBytes DEF splitEcho, p
<1>4. /\ n \in Nat /\ n >= 2
      /\ \A j \in 1 .. n : Text[j] # SYNC /\ Text[j] \notin Sensors
  BY TextType
<1> HIDE DEF s, n
<1>5. s[1] = SYNC
  BY <1>2, <1>3
<1>6. ASSUME NEW j \in 3 .. 5 PROVE p[j] # SYNC /\ p[j] \notin Sensors
  <2>1. j = 3 \/ j = 4 \/ j = 5
    OBVIOUS
  <2> QED BY <1>1, <1>2, <2>1 DEF Sensors, IR, LEFT_ENCODER, RIGHT_ENCODER
<1>7. ASSUME NEW j \in 2 .. Len(s),
             q # SYNC \/ (~(j = 2 /\ i >= 2) /\ ~(j = 2 + n /\ i = 1))
      PROVE  s[j] # SYNC
  <2>1. CASE j <= i
    <3>1. s[j] = p[j] /\ (j = 2 \/ j \in 3 .. 5)
      BY <1>3, <2>1
    <3> QED BY <1>2, <1>6, <1>7, <2>1, <3>1
  <2>2. CASE j > i /\ j <= i + n
    <3>1. j \in i + 1 .. i + n /\ j - i \in 1 .. n
      BY <1>4, <2>2
    <3> QED BY <1>3, <1>4, <3>1
  <2>3. CASE j > i + n
    <3>1. j \in i + n + 1 .. Len(s) /\ (j - n = 2 \/ j - n \in 3 .. 5)
      BY <1>3, <1>4, <2>3
    <3>2. s[j] = p[j - n]
      BY <1>3, <3>1
    <3>3. CASE j - n = 2
      <4>1. j = 2 + n /\ i = 1
        BY <1>4, <2>3, <3>3
      <4> QED BY <1>2, <1>7, <3>2, <3>3, <4>1
    <3> QED BY <1>6, <3>1, <3>2, <3>3
  <2> QED BY <1>4, <2>1, <2>2, <2>3
<1>8. s[3] \notin Sensors
  <2>1. CASE i >= 3
    <3>1. s[3] = p[3]
      BY <1>3, <2>1
    <3> QED BY <1>6, <3>1
  <2>2. CASE i < 3
    <3>1. 3 \in i + 1 .. i + n /\ 3 - i \in 1 .. n
      BY <1>4, <2>2
    <3> QED BY <1>3, <1>4, <3>1
  <2> QED BY <2>1, <2>2
<1>9. CASE a = 1 /\ q # SYNC
  <2>1. ASSUME NEW j \in a + 1 .. Len(s) PROVE s[j] # SYNC
    <3>1. j \in 2 .. Len(s)
      BY <1>9
    <3> QED BY <1>7, <1>9, <3>1
  <2>2. a \in 0 .. Len(s)
    BY <1>3, <1>4, <1>9
  <2>3. Walk(s, P, T, a, l, Len(s), l, l)
    BY <1>3, <2>1, <2>2, Skipped
  <2> QED BY <2>3 DEF s
<1>10. CASE a = 0 /\ (q # SYNC \/ i >= 2 \/ n <= 3)
  <2>1. ASSUME NEW j \in a + 6 .. Len(s) PROVE s[j] # SYNC
    BY <1>3, <1>4, <1>7, <1>10
  <2>2. Len(s) >= a + 5 /\ s[a + 1] = SYNC /\ s[a + 3] \notin Sensors
    BY <1>3, <1>4, <1>5, <1>8, <1>10
  <2>3. Walk(s, P, T, a, l, Len(s), l, l)
    BY <1>3, <2>1, <2>2, Passed
  <2> QED BY <1>10, <2>3 DEF s
<1>11. CASE a = 1 /\ q = SYNC /\ i >= 2
  <2>1. ASSUME NEW j \in a + 6 .. Len(s) PROVE s[j] # SYNC
    BY <1>3, <1>4, <1>7, <1>11
  <2>2. Len(s) >= a + 5 /\ s[a + 1] = SYNC
    BY <1>2, <1>3, <1>4, <1>11
  <2>3. T # {}
    BY <1>11
  <2>4. Walk(s, P, T, a, l, Len(s), l, l)
    BY <1>3, <2>1, <2>2, <2>3, Passed
  <2> QED BY <2>4 DEF s
<1>12. CASE q = SYNC /\ i = 1 /\ (a = 1 \/ n >= 4)
  <2> DEFINE u == SubSeq(p, 1, 1)
             s1 == u \o Text
             s2 == SubSeq(p, 2, 5)
  <2>1. s = s1 \o s2
    BY <1>12 DEF s, splitEcho, p
  <2>2. \A j \in 1 .. 5 : p[j] \in Int
    BY <1>2, ElementOfSeq
  <2>3. u \in Seq(Int) /\ Len(u) = 1 /\ u[1] = SYNC
    <3>1. \A j \in 1 .. 1 : p[j] \in Int
      BY <2>2
    <3>2. u \in Seq(Int) /\ Len(u) = 1 - 1 + 1 /\ \A j \in 1 .. 1 - 1 + 1 : u[j] = p[1 + j - 1]
      BY <3>1, SubSeqProperties
    <3> HIDE DEF u
    <3> QED BY <1>2, <3>2
  <2>4. s2 \in Seq(Int) /\ Len(s2) = 4 /\ s2[1] = SYNC
    <3>1. \A j \in 2 .. 5 : p[j] \in Int
      BY <2>2
    <3>2. s2 \in Seq(Int) /\ Len(s2) = 5 - 2 + 1 /\ \A j \in 1 .. 5 - 2 + 1 : s2[j] = p[2 + j - 1]
      BY <3>1, SubSeqProperties
    <3> HIDE DEF s2
    <3> QED BY <1>2, <1>12, <3>2
  <2>5. Text \in Seq(Int) /\ Len(Text) = n
    BY TextType DEF n
  <2> HIDE DEF u, s2
  <2>6. /\ s1 \in Seq(Int) /\ Len(s1) = 1 + n /\ s1[1] = SYNC
        /\ \A j \in 2 .. Len(s1) : s1[j] = Text[j - 1]
    <3>1. /\ s1 \in Seq(Int) /\ Len(s1) = Len(u) + Len(Text)
          /\ \A j \in 1 .. Len(u) + Len(Text) :
               s1[j] = IF j <= Len(u) THEN u[j] ELSE Text[j - Len(u)]
      BY <2>3, <2>5, ConcatProperties
    <3> HIDE DEF s1
    <3> QED BY <1>4, <2>3, <2>5, <3>1
  <2> HIDE DEF s1
  <2>7. ASSUME NEW j \in 2 .. Len(s1) PROVE s1[j] # SYNC
    <3>1. j \in 2 .. 1 + n /\ j - 1 \in 1 .. n
      BY <1>4, <2>6
    <3> QED BY <1>4, <2>6, <3>1
  <2>8. T # {}
    BY <1>12
  <2>9. Walk(s1, P, T, a, l, Len(s1), l, l)
    <3>1. CASE a = 1
      <4>1. a \in 0 .. Len(s1) /\ \A j \in a + 1 .. Len(s1) : s1[j] # SYNC
        BY <1>4, <2>6, <2>7, <3>1
      <4> QED BY <2>6, <4>1, Skipped
    <3>2. CASE a = 0 /\ n >= 4
      <4>1. /\ Len(s1) >= a + 5 /\ s1[a + 1] = SYNC
            /\ \A j \in a + 6 .. Len(s1) : s1[j] # SYNC
        BY <1>4, <2>6, <2>7, <3>2
      <4> QED BY <2>6, <2>8, <4>1, Passed
    <3> QED BY <1>12, <3>1, <3>2
  <2> DEFINE e == n + 1
             z == n + 6
  <2>10. Len(s1) = e /\ e \in Nat /\ z \in Nat /\ z - 5 = e /\ e - 0 = e /\ z = Len(s) + 1
    <3>1. n \in Nat /\ Len(s) = 5 + n /\ Len(s1) = 1 + n
      BY <1>3, <1>4, <2>6
    <3> QED BY <3>1
  <2> HIDE DEF e, z
  <2>11. Walk(s1, P, T, a, l, e, l, l)
    BY <2>9, <2>10
  <2>12. Walk(s2, P, T, 0, l, 5, l, l)
    BY <2>4, <2>8, Late
  <2>13. Walk(s1 \o s2, P, T, a, l, z, l, l)
    <3>1. l <= l /\ a \in Nat /\ 0 \in Nat /\ 4 \in Nat /\ 5 \in Nat
      OBVIOUS
    <3> QED BY <2>4, <2>6, <2>10, <2>11, <2>12, <3>1, Joined
  <2> QED BY <1>12, <2>1, <2>10, <2>13 DEF s
<1>13. \/ a = 1 /\ q # SYNC
       \/ a = 0 /\ (q # SYNC \/ i >= 2 \/ n <= 3)
       \/ a = 1 /\ q = SYNC /\ i >= 2
       \/ q = SYNC /\ i = 1 /\ (a = 1 \/ n >= 4)
  BY <1>4
<1> QED BY <1>9, <1>10, <1>11, <1>12, <1>13

\* One more packet, entered b bytes late.
LEMMA Packets ==
  ASSUME NEW s1 \in Seq(Int), NEW s2 \in Seq(Int), NEW P, NEW T,
         Len(s2) = 5, NEW b \in {0, 1}, NEW e \in Nat, NEW x \in Nat, NEW z \in Nat,
         e - b = Len(s1), x - b = 5, z - e = 5,
         NEW la \in Int, NEW le \in Int, NEW lx \in Int, NEW m1 \in Int, NEW m2 \in Int,
         Walk(s1, P, T, b, la, e, le, m1), Walk(s2, P, T, b, le, x, lx, m2)
  PROVE  Walk(s1 \o s2, P, T, b, la, z, lx, m2)
<1>1. PICK L \in Nat : L = Len(s1)
  OBVIOUS
<1>2. PICK M \in Nat : Len(s2) = M /\ M >= 5
  OBVIOUS
<1>3. b \in Nat /\ e - b = L /\ z - x = L /\ m2 <= m2
  BY <1>1
<1>4. Len(s1) = L /\ (m2 <= m1 \/ M >= 5)
  BY <1>1, <1>2
<1> QED BY <1>2, <1>3, <1>4, Joined

\* The three replies to poll k, if no other is missing before them.
LEMMA RepliesWalk ==
  ASSUME NEW q \in byte, NEW P, NEW T, P \subseteq Nat, NEW k \in P, k \in 1 .. MaxPackets,
         NEW l \in Int, NEW n1 \in Int, NEW n2 \in Int, NEW n3 \in Int,
         n1 - 1 = 3 * k, n2 - 2 = 3 * k, n3 - 3 = 3 * k,
         l < n1, ~Missing(P, T, l, n1)
  PROVE  /\ replies(q, k) \in Seq(Int) /\ Len(replies(q, k)) = 15
         /\ Walk(replies(q, k), P, T, 0, l, 15, n3, n2)
<1> DEFINE p1 == packet(q, IR, reading(k))
           p2 == packet(q, LEFT_ENCODER, reading(k))
           p3 == packet(q, RIGHT_ENCODER, reading(k))
<1>1. reading(k) \in byte /\ IR \in byte /\ LEFT_ENCODER \in byte /\ RIGHT_ENCODER \in byte
  BY ReadingType DEF IR, LEFT_ENCODER, RIGHT_ENCODER, byte
<1>2. /\ p1 \in Seq(Int) /\ Len(p1) = 5 /\ p2 \in Seq(Int) /\ Len(p2) = 5
      /\ p3 \in Seq(Int) /\ Len(p3) = 5
  BY <1>1, PacketBytes
<1>3. Sensor(1) = IR /\ Sensor(2) = LEFT_ENCODER /\ Sensor(3) = RIGHT_ENCODER
  BY DEF Sensor
<1>4. k \in Nat /\ q \in Int /\ n1 < n2 /\ n2 < n3 /\ l < n1
  BY DEF byte
<1>5. Walk(p1, P, T, 0, l, 5, n1, l)
  <2>1. Walk(packet(q, Sensor(1), reading(k)), P, T, 0, l, 5, n1, l)
    <3>1. k \in P /\ k \in Nat /\ 1 \in 1 .. 3 /\ n1 - 1 = 3 * k /\ l < n1 /\ q \in Int
      BY <1>4
    <3> QED BY <3>1, Replied
  <2> QED BY <1>3, <2>1
<1>6. Walk(p2, P, T, 0, n1, 5, n2, n1)
  <2>1. ~Missing(P, T, n1, n2)
    BY <1>4 DEF Missing
  <2>2. Walk(packet(q, Sensor(2), reading(k)), P, T, 0, n1, 5, n2, n1)
    <3>1. k \in P /\ k \in Nat /\ 2 \in 1 .. 3 /\ n2 - 2 = 3 * k /\ n1 < n2 /\ q \in Int
      BY <1>4
    <3> QED BY <2>1, <3>1, Replied
  <2> QED BY <1>3, <2>2
<1>7. Walk(p3, P, T, 0, n2, 5, n3, n2)
  <2>1. ~Missing(P, T, n2, n3)
    BY <1>4 DEF Missing
  <2>2. Walk(packet(q, Sensor(3), reading(k)), P, T, 0, n2, 5, n3, n2)
    <3>1. k \in P /\ k \in Nat /\ 3 \in 1 .. 3 /\ n3 - 3 = 3 * k /\ n2 < n3 /\ q \in Int
      BY <1>4
    <3> QED BY <2>1, <3>1, Replied
  <2> QED BY <1>3, <2>2
<1> HIDE DEF p1, p2, p3
<1>8. /\ p1 \o p2 \in Seq(Int) /\ Len(p1 \o p2) = 10
      /\ Walk(p1 \o p2, P, T, 0, l, 10, n2, n1)
  <2>1. p1 \o p2 \in Seq(Int) /\ Len(p1 \o p2) = 10
    <3>1. p1 \o p2 \in Seq(Int) /\ Len(p1 \o p2) = Len(p1) + Len(p2)
      BY <1>2, Concat
    <3> QED BY <1>2, <3>1
  <2>2. 5 - 0 = 5 /\ 10 - 5 = 5 /\ 5 \in Nat /\ 10 \in Nat
    OBVIOUS
  <2> QED BY <1>2, <1>5, <1>6, <2>1, <2>2, Packets
<1>9. /\ p1 \o p2 \o p3 \in Seq(Int) /\ Len(p1 \o p2 \o p3) = 15
      /\ Walk(p1 \o p2 \o p3, P, T, 0, l, 15, n3, n2)
  <2> DEFINE p == p1 \o p2
  <2>1. p \in Seq(Int) /\ Len(p) = 10 /\ Walk(p, P, T, 0, l, 10, n2, n1)
    BY <1>8
  <2> HIDE DEF p
  <2>2. p \o p3 \in Seq(Int) /\ Len(p \o p3) = 15
    <3>1. p \o p3 \in Seq(Int) /\ Len(p \o p3) = Len(p) + Len(p3)
      BY <1>2, <2>1, Concat
    <3> QED BY <1>2, <2>1, <3>1
  <2>3. 5 - 0 = 5 /\ 10 - 0 = 10 /\ 15 - 10 = 5 /\ 5 \in Nat /\ 10 \in Nat /\ 15 \in Nat
    OBVIOUS
  <2>4. /\ p \o p3 \in Seq(Int) /\ Len(p \o p3) = 15
        /\ Walk(p \o p3, P, T, 0, l, 15, n3, n2)
    BY <1>2, <1>7, <2>1, <2>2, <2>3, Packets
  <2> QED BY <2>4 DEF p
<1> QED BY <1>9 DEF p1, p2, p3, replies

\* Entered a byte late, they are all misread, and the last one ends a byte late.
LEMMA LateReplies ==
  ASSUME NEW P, NEW T, T # {}, NEW k \in 1 .. MaxPackets, NEW l \in Int
  PROVE  /\ replies(SYNC, k) \in Seq(Int) /\ Len(replies(SYNC, k)) = 15
         /\ Walk(replies(SYNC, k), P, T, 1, l, 16, l, l)
<1> DEFINE p1 == packet(SYNC, IR, reading(k))
           p2 == packet(SYNC, LEFT_ENCODER, reading(k))
           p3 == packet(SYNC, RIGHT_ENCODER, reading(k))
<1>1. reading(k) \in byte /\ IR \in byte /\ LEFT_ENCODER \in byte /\ RIGHT_ENCODER \in byte
      /\ SYNC \in byte
  BY ReadingType DEF IR, LEFT_ENCODER, RIGHT_ENCODER, SYNC, byte
<1>2. /\ p1 \in Seq(Int) /\ Len(p1) = 5 /\ p2 \in Seq(Int) /\ Len(p2) = 5
      /\ p3 \in Seq(Int) /\ Len(p3) = 5
      /\ p1[1 + 1] = SYNC /\ p2[1 + 1] = SYNC /\ p3[1 + 1] = SYNC
  BY <1>1, PacketBytes
<1> HIDE DEF p1, p2, p3
<1>3. /\ Walk(p1, P, T, 1, l, 6, l, l) /\ Walk(p2, P, T, 1, l, 6, l, l)
      /\ Walk(p3, P, T, 1, l, 6, l, l)
  <2>1. ASSUME NEW p \in {p1, p2, p3} PROVE Walk(p, P, T, 1, l, 6, l, l)
    <3>1. p \in Seq(Int) /\ Len(p) = 1 + 4 /\ p[1 + 1] = SYNC /\ 6 \in Nat /\ 6 = 1 + 5
      BY <1>2
    <3>2. 6 - 1 = 5
      OBVIOUS
    <3> QED BY <3>1, <3>2, Late
  <2> QED BY <2>1
<1>4. /\ p1 \o p2 \in Seq(Int) /\ Len(p1 \o p2) = 10
      /\ Walk(p1 \o p2, P, T, 1, l, 11, l, l)
  <2>1. p1 \o p2 \in Seq(Int) /\ Len(p1 \o p2) = 10
    <3>1. p1 \o p2 \in Seq(Int) /\ Len(p1 \o p2) = Len(p1) + Len(p2)
      BY <1>2, Concat
    <3> QED BY <1>2, <3>1
  <2>2. 6 - 1 = 5 /\ 11 - 6 = 5 /\ 6 \in Nat /\ 11 \in Nat
    OBVIOUS
  <2> QED BY <1>2, <1>3, <2>1, <2>2, Packets
<1>5. /\ p1 \o p2 \o p3 \in Seq(Int) /\ Len(p1 \o p2 \o p3) = 15
      /\ Walk(p1 \o p2 \o p3, P, T, 1, l, 16, l, l)
  <2> DEFINE p == p1 \o p2
  <2>1. p \in Seq(Int) /\ Len(p) = 10 /\ Walk(p, P, T, 1, l, 11, l, l)
    BY <1>4
  <2> HIDE DEF p
  <2>2. p \o p3 \in Seq(Int) /\ Len(p \o p3) = 15
    <3>1. p \o p3 \in Seq(Int) /\ Len(p \o p3) = Len(p) + Len(p3)
      BY <1>2, <2>1, Concat
    <3> QED BY <1>2, <2>1, <3>1
  <2>3. 6 - 1 = 5 /\ 11 - 1 = 10 /\ 16 - 11 = 5 /\ 6 \in Nat /\ 11 \in Nat /\ 16 \in Nat
    OBVIOUS
  <2>4. /\ p \o p3 \in Seq(Int) /\ Len(p \o p3) = 15
        /\ Walk(p \o p3, P, T, 1, l, 16, l, l)
    BY <1>2, <1>3, <2>1, <2>2, <2>3, Packets
  <2> QED BY <2>4 DEF p
<1> QED BY <1>5 DEF p1, p2, p3, replies

\* What is sent up to l and, but for the last reply, up to m.
Done(P, T, k, l, m) ==
  \A j \in P \ T, t \in 1 .. 3 : /\ 3 * j + t <= l
                                 /\ 3 * j + t <= m \/ (j = k /\ t = 3)

\* What is sent before packet k, up to l.
Before(P, T, k, l) == \A j \in P \ T, t \in 1 .. 3 : j # k => 3 * j + t <= l

\* The replies to packet k, and what may follow them.
LEMMA BodyWalk ==
  ASSUME NEW q \in byte, NEW c \in {DRIVE, POLL}, NEW P \in SUBSET Nat, NEW T,
         NEW k \in 1 .. MaxPackets, k \in P <=> c = POLL,
         NEW l \in Int, l <= 3 * k, Before(P, T, k, l),
         NEW body \in {replyTo(q, c, k), replyTo(q, c, k) \o Text}
  PROVE  /\ body \in Seq(Int) /\ Len(body) >= 5
         /\ \E x \in Int, m \in Int :
              /\ Walk(body, P, T, 0, l, Len(body), x, m)
              /\ l <= x /\ x <= 3 * k + 3 /\ Done(P, T, k, x, m)
<1> DEFINE r == replyTo(q, c, k)
<1>1. \E L \in Nat, x \in Int, m \in Int :
        /\ r \in Seq(Int) /\ Len(r) = L /\ L >= 5
        /\ Walk(r, P, T, 0, l, L, x, m)
        /\ l <= x /\ x <= 3 * k + 3 /\ m <= x /\ Done(P, T, k, x, m)
  <2>1. CASE c = POLL
    <3>1. r = replies(q, k) /\ k \in P
      BY <2>1 DEF replyTo
    <3> DEFINE n1 == 3 * k + 1
               n2 == 3 * k + 2
               n3 == 3 * k + 3
    <3>2. /\ n1 \in Int /\ n2 \in Int /\ n3 \in Int
          /\ n1 - 1 = 3 * k /\ n2 - 2 = 3 * k /\ n3 - 3 = 3 * k /\ l < n1
          /\ l <= n3 /\ n3 <= 3 * k + 3 /\ n2 <= n3
      BY BoundAssumption
    <3> HIDE DEF n1, n2, n3
    <3>3. ~Missing(P, T, l, n1)
      <4>1. ASSUME NEW j \in P \ T, NEW t \in 1 .. 3, l < 3 * j + t, 3 * j + t < n1
            PROVE  FALSE
        <5>1. CASE j = k
          BY <3>2, <4>1, <5>1, BoundAssumption
        <5>2. CASE j # k
          BY <3>2, <4>1, <5>2, BoundAssumption DEF Before
        <5> QED BY <5>1, <5>2
      <4> QED BY <4>1 DEF Missing
    <3>4. /\ r \in Seq(Int) /\ Len(r) = 15
          /\ Walk(r, P, T, 0, l, 15, n3, n2)
      <4>1. P \subseteq Nat /\ k \in P
        BY <3>1
      <4> QED BY <3>1, <3>2, <3>3, <4>1, RepliesWalk
    <3>5. Done(P, T, k, n3, n2)
      <4>1. ASSUME NEW j \in P \ T, NEW t \in 1 .. 3
            PROVE  /\ 3 * j + t <= n3
                   /\ 3 * j + t <= n2 \/ (j = k /\ t = 3)
        <5>1. CASE j = k
          BY <3>2, <5>1, BoundAssumption
        <5>2. CASE j # k
          BY <3>2, <5>2, BoundAssumption DEF Before
        <5> QED BY <5>1, <5>2
      <4> QED BY <4>1 DEF Done
    <3>6. 15 \in Nat /\ 15 >= 5
      OBVIOUS
    <3> QED BY <3>2, <3>4, <3>5, <3>6
  <2>2. CASE c = DRIVE
    <3>1. r = packet(q, c, 0) /\ k \notin P
      BY <2>2 DEF replyTo, DRIVE, POLL
    <3>2. c \in byte /\ 0 \in byte
      BY DEF byte, DRIVE, POLL
    <3>3. r \in Seq(Int) /\ Len(r) = 5
      BY <3>1, <3>2, PacketBytes
    <3>4. Walk(r, P, T, 0, l, 5, l, l)
      BY <3>1, EchoWalk
    <3>5. Done(P, T, k, l, l)
      BY <3>1 DEF Done, Before
    <3>6. 5 \in Nat /\ 5 >= 5 /\ l <= l /\ l <= 3 * k + 3
      BY BoundAssumption
    <3> QED BY <3>3, <3>4, <3>5, <3>6
  <2> QED BY <2>1, <2>2
<1>2. PICK L \in Nat, x \in Int, m \in Int :
        /\ r \in Seq(Int) /\ Len(r) = L /\ L >= 5
        /\ Walk(r, P, T, 0, l, L, x, m)
        /\ l <= x /\ x <= 3 * k + 3 /\ m <= x /\ Done(P, T, k, x, m)
  BY <1>1
<1> HIDE DEF r
<1>3. CASE body = r
  BY <1>2, <1>3
<1>4. CASE body = r \o Text
  <2>1. PICK M \in Nat : Len(Text) = M
    BY TextType
  <2>2. Text \in Seq(Int)
    BY TextType
  <2>3. body \in Seq(Int) /\ Len(body) = L + M
    <3>1. r \o Text \in Seq(Int) /\ Len(r \o Text) = Len(r) + Len(Text)
      BY <1>2, <2>2, Concat
    <3> QED BY <1>2, <1>4, <2>1, <3>1
  <2>4. Walk(Text, P, T, 0, x, M, x, x)
    <3>1. \A i \in 0 + 1 .. Len(Text) : Text[i] # SYNC
      BY TextType
    <3>2. 0 \in 0 .. Len(Text)
      BY <2>1
    <3>3. Walk(Text, P, T, 0, x, Len(Text), x, x)
      BY <2>2, <3>1, <3>2, Skipped
    <3> QED BY <2>1, <3>3
  <2>5. PICK z \in Nat : z - M = L
    <3>1. L + M \in Nat /\ L + M - M = L
      OBVIOUS
    <3> QED BY <3>1
  <2>6. Walk(body, P, T, 0, l, z, x, m)
    <3>1. 0 \in Nat /\ L - 0 = L /\ m <= x /\ m <= m
      BY <1>2
    <3> QED BY <1>2, <1>4, <2>1, <2>2, <2>4, <2>5, <3>1, Joined
  <2>7. z = Len(body) /\ Len(body) >= 5
    BY <1>2, <2>3, <2>5
  <2> QED BY <1>2, <2>3, <2>6, <2>7
<1> QED BY <1>3, <1>4 DEF r

EndsLate(body, P, T, l) ==
  \E L \in Nat, e \in Nat : /\ Len(body) = L /\ L >= 5 /\ (e = L \/ e = L + 1)
                           /\ Walk(body, P, T, 1, l, e, l, l)

\* Entered a byte late, they end a byte late, unless a PRINT follows.
LEMMA LateBody ==
  ASSUME NEW c \in {DRIVE, POLL}, NEW P, NEW T, T # {}, NEW k \in 1 .. MaxPackets,
         NEW l \in Int,
         NEW body \in {replyTo(SYNC, c, k), replyTo(SYNC, c, k) \o Text}
  PROVE  EndsLate(body, P, T, l)
<1> DEFINE r == replyTo(SYNC, c, k)
<1>1. r \in Seq(Int) /\ \E L \in Nat, e \in Nat : /\ Len(r) = L /\ L >= 5 /\ e = L + 1
                                                  /\ Walk(r, P, T, 1, l, e, l, l)
  <2>1. CASE c = POLL
    <3>1. r = replies(SYNC, k)
      BY <2>1 DEF replyTo
    <3>2. 15 \in Nat /\ 16 \in Nat /\ 15 >= 5 /\ 16 = 15 + 1
      OBVIOUS
    <3> QED BY <3>1, <3>2, LateReplies
  <2>2. CASE c = DRIVE
    <3> DEFINE p == packet(SYNC, c, 0)
    <3>1. r = p
      BY <2>2 DEF replyTo, DRIVE, POLL
    <3>2. c \in byte /\ 0 \in byte /\ SYNC \in byte
      BY DEF byte, DRIVE, POLL, SYNC
    <3>3. p \in Seq(Int) /\ Len(p) = 5 /\ p[2] = SYNC
      BY <3>2, PacketBytes
    <3> HIDE DEF p, r
    <3>4. /\ 1 \in {0, 1} /\ Len(p) = 1 + 4 /\ p[1 + 1] = SYNC /\ 6 \in Nat /\ 6 - 1 = 5
          /\ 5 \in Nat /\ 5 >= 5 /\ 6 = 5 + 1
      BY <3>3
    <3>5. Walk(p, P, T, 1, l, 6, l, l)
      BY <3>3, <3>4, Late
    <3> QED BY <3>1, <3>3, <3>4, <3>5
  <2> QED BY <2>1, <2>2
<1> HIDE DEF r
<1>2. PICK L \in Nat, e \in Nat : /\ Len(r) = L /\ L >= 5 /\ e = L + 1
                                  /\ Walk(r, P, T, 1, l, e, l, l)
  BY <1>1
<1>3. CASE body = r
  BY <1>2, <1>3 DEF EndsLate
<1>4. CASE body = r \o Text
  <2>1. PICK M \in Nat : Len(Text) = M /\ M >= 2
    BY TextType
  <2>2. Text \in Seq(Int)
    BY TextType
  <2>3. body \in Seq(Int) /\ Len(body) = L + M
    <3>1. r \o Text \in Seq(Int) /\ Len(r \o Text) = Len(r) + Len(Text)
      BY <1>1, <2>2, Concat
    <3> QED BY <1>2, <1>4, <2>1, <3>1
  <2>4. Walk(Text, P, T, 1, l, M, l, l)
    <3>1. \A i \in 1 + 1 .. Len(Text) : Text[i] # SYNC
      BY TextType
    <3>2. 1 \in 0 .. Len(Text)
      BY <2>1
    <3>3. Walk(Text, P, T, 1, l, Len(Text), l, l)
      BY <2>2, <3>1, <3>2, Skipped
    <3> QED BY <2>1, <3>3
  <2>5. PICK z \in Nat : z - M = L
    <3>1. L + M \in Nat /\ L + M - M = L
      OBVIOUS
    <3> QED BY <3>1
  <2>6. Walk(body, P, T, 1, l, z, l, l)
    <3>1. 1 \in Nat /\ e - 1 = L /\ l <= l
      BY <1>2
    <3> QED BY <1>1, <1>2, <1>4, <2>1, <2>2, <2>4, <2>5, <3>1, Joined
  <2>7. z = L + M /\ L + M \in Nat /\ L + M >= 5
    BY <1>2, <2>1, <2>5
  <2> QED BY <2>3, <2>6, <2>7 DEF EndsLate
<1> QED BY <1>3, <1>4 DEF r

\* The echo and the replies to packet k, with a PRINT after or within them.
Sends(head, body, q, c, k, T) ==
  \/ /\ head = packet(q, c, 0)
     /\ body \in {replyTo(q, c, k), replyTo(q, c, k) \o Text}
  \/ /\ \E i \in 1 .. 4 : head = splitEcho(q, c, i)
     /\ body = replyTo(q, c, k)
     /\ q = SYNC => k \in T

\* All that the robot sends for packet k, entered at its first byte or, behind
\* a packet whose replies are lost, at its second.
LEMMA AnswerWalk ==
  ASSUME NEW q \in byte, NEW c \in {DRIVE, POLL}, NEW P \in SUBSET Nat, NEW T,
         NEW k \in 1 .. MaxPackets, k \in P <=> c = POLL,
         NEW l \in Int, l <= 3 * k, Before(P, T, k, l),
         NEW a, Starts(a, q, k, T), NEW head, NEW body, Sends(head, body, q, c, k, T)
  PROVE  /\ head \o body \in Seq(Int) /\ Len(head \o body) >= 5
         /\ \E e \in Nat, x \in Int, m \in Int :
              /\ Walk(head \o body, P, T, a, l, e, x, m)
              /\ \/ e = Len(head \o body)
                 \/ e = Len(head \o body) + 1 /\ k \in T
              /\ l <= x /\ x <= 3 * k + 3 /\ Done(P, T, k, x, m)
<1>0. /\ a \in {0, 1} /\ (a = 1 /\ q = SYNC => k \in T)
      /\ \/ /\ head = packet(q, c, 0)
            /\ body \in {replyTo(q, c, k), replyTo(q, c, k) \o Text}
         \/ /\ \E i \in 1 .. 4 : head = splitEcho(q, c, i)
            /\ body = replyTo(q, c, k)
            /\ q = SYNC => k \in T
  BY DEF Starts, Sends
<1>1. c \in byte /\ 0 \in byte
  BY DEF byte, DRIVE, POLL
<1>2. /\ head \in Seq(Int) /\ Len(head) \in Nat
      /\ \/ Walk(head, P, T, a, l, Len(head), l, l)
         \/ /\ q = SYNC /\ k \in T
            /\ Walk(head, P, T, a, l, Len(head) + 1, l, l)
  <2>1. CASE head = packet(q, c, 0)
    <3>1. head \in Seq(Int) /\ Len(head) = 5
      BY <1>1, <2>1, PacketBytes
    <3>2. CASE a = 1 /\ q = SYNC
      <4>1. head[2] = SYNC /\ k \in T /\ T # {}
        BY <1>0, <1>1, <2>1, <3>2, PacketBytes
      <4>2. Len(head) = a + 4 /\ head[a + 1] = SYNC /\ 6 \in Nat /\ 6 - a = 5
        BY <3>1, <3>2, <4>1
      <4>3. Walk(head, P, T, a, l, 6, l, l)
        BY <1>0, <3>1, <4>1, <4>2, Late
      <4> QED BY <3>1, <3>2, <4>1, <4>3
    <3>3. CASE a = 1 => q # SYNC
      <4>1. Walk(head, P, T, a, l, 5, l, l)
        BY <1>0, <2>1, <3>3, EchoWalk
      <4> QED BY <3>1, <4>1
    <3> QED BY <1>0, <3>2, <3>3
  <2>2. ASSUME NEW i \in 1 .. 4, head = splitEcho(q, c, i), q = SYNC => k \in T,
               body = replyTo(q, c, k)
        PROVE  /\ head \in Seq(Int) /\ Len(head) \in Nat
               /\ \/ Walk(head, P, T, a, l, Len(head), l, l)
                  \/ /\ q = SYNC /\ k \in T
                     /\ Walk(head, P, T, a, l, Len(head) + 1, l, l)
    <3>1. packet(q, c, 0) \in Seq(Int) /\ Len(packet(q, c, 0)) = 5
      BY <1>1, PacketBytes
    <3>2. head \in Seq(Int)
      BY <2>2, <3>1, SplitBytes DEF splitEcho
    <3>3. q = SYNC => T # {}
      BY <2>2
    <3>4. \/ Walk(head, P, T, a, l, Len(head), l, l)
          \/ /\ q = SYNC
             /\ Walk(head, P, T, a, l, Len(head) + 1, l, l)
      BY <1>0, <2>2, <3>3, SplitWalk
    <3> QED BY <2>2, <3>2, <3>4
  <2> QED BY <1>0, <2>1, <2>2
<1>3. body \in {replyTo(q, c, k), replyTo(q, c, k) \o Text}
  BY <1>0
<1>4. /\ body \in Seq(Int) /\ Len(body) >= 5
      /\ \E x \in Int, m \in Int :
           /\ Walk(body, P, T, 0, l, Len(body), x, m)
           /\ l <= x /\ x <= 3 * k + 3 /\ Done(P, T, k, x, m)
  <2>1. CASE body = replyTo(q, c, k)
    BY <2>1, BodyWalk
  <2>2. CASE body = replyTo(q, c, k) \o Text
    BY <2>2, BodyWalk
  <2> QED BY <1>3, <2>1, <2>2
<1>5. head \o body \in Seq(Int) /\ Len(head \o body) = Len(head) + Len(body)
  BY <1>2, <1>4, Concat
<1>6. PICK L \in Nat, M \in Nat : L = Len(head) /\ M = Len(body)
  BY <1>2, <1>4
<1>7. M >= 5 /\ Len(head \o body) = L + M /\ a \in Nat
  BY <1>0, <1>4, <1>5, <1>6
<1>8. CASE Walk(head, P, T, a, l, Len(head), l, l)
  <2>1. PICK x \in Int, m \in Int :
          /\ Walk(body, P, T, 0, l, Len(body), x, m)
          /\ l <= x /\ x <= 3 * k + 3 /\ Done(P, T, k, x, m)
    BY <1>4
  <2>2. PICK z \in Nat : z - M = L
    <3>1. L + M \in Nat /\ L + M - M = L
      OBVIOUS
    <3> QED BY <3>1
  <2>3. Walk(head, P, T, a, l, L, l, l) /\ Walk(body, P, T, 0, l, M, x, m)
    BY <1>6, <1>8, <2>1
  <2>4. L - 0 = L /\ m <= m /\ 0 \in Nat
    OBVIOUS
  <2>5. Walk(head \o body, P, T, a, l, z, x, m)
    BY <1>2, <1>4, <1>6, <1>7, <2>2, <2>3, <2>4, Joined
  <2>6. z = Len(head \o body) /\ Len(head \o body) >= 5
    BY <1>7, <2>2
  <2> QED BY <1>5, <2>1, <2>5, <2>6
<1>9. CASE /\ q = SYNC /\ k \in T
           /\ Walk(head, P, T, a, l, Len(head) + 1, l, l)
  <2>1. T # {}
    BY <1>9
  <2>2. PICK K \in Nat, e \in Nat : /\ Len(body) = K /\ (e = K \/ e = K + 1)
                                    /\ Walk(body, P, T, 1, l, e, l, l)
    <3>1. body \in {replyTo(SYNC, c, k), replyTo(SYNC, c, k) \o Text}
      BY <1>3, <1>9
    <3>2. EndsLate(body, P, T, l)
      BY <2>1, <3>1, LateBody
    <3> QED BY <3>2 DEF EndsLate
  <2>3. K = M /\ (e = M \/ e = M + 1)
    BY <1>6, <2>2
  <2>4. PICK b \in Nat, z \in Nat : b - 1 = L /\ z - e = L
    <3>1. L + 1 \in Nat /\ L + 1 - 1 = L /\ L + e \in Nat /\ L + e - e = L
      OBVIOUS
    <3> QED BY <3>1
  <2>5. b = Len(head) + 1
    BY <1>6, <2>4
  <2>6. Walk(head, P, T, a, l, b, l, l)
    BY <1>9, <2>5
  <2>7. l <= l /\ 1 \in Nat
    OBVIOUS
  <2>8. Walk(head \o body, P, T, a, l, z, l, l)
    BY <1>2, <1>4, <1>6, <1>7, <2>2, <2>4, <2>6, <2>7, Joined
  <2>9. /\ z = Len(head \o body) \/ z = Len(head \o body) + 1
        /\ Len(head \o body) >= 5
    BY <1>7, <2>3, <2>4
  <2>10. Done(P, T, k, l, l)
    BY <1>9 DEF Done, Before
  <2>11. l <= 3 * k + 3
    BY BoundAssumption
  <2> QED BY <1>5, <1>9, <2>7, <2>8, <2>9, <2>10, <2>11
<1> QED BY <1>2, <1>8, <1>9

-----------------------------------------------------------------------------
(* How the state follows the stream.                                       *)

Polls == {k \in 1 .. answered : sent[k].command = POLL}

\* A torn echo shifts what is read of it, and what follows only goes on with that.
LEMMA ShiftedType ==
  ASSUME TypeOK
  PROVE  torn \subseteq shifted /\ shifted \subseteq torn \cup Nat /\ (torn = {} <=> shifted = {})
<1>1. torn \subseteq 1 .. answered /\ answered \in Nat
  BY DEF TypeOK
<1>2. ASSUME NEW k \in torn PROVE k \in shifted
  <2>1. k \in 1 .. answered /\ k <= k /\ k + 1 .. k = {}
    BY <1>1
  <2> QED BY <2>1 DEF shifted
<1>3. shifted # {} => torn # {}
  BY DEF shifted
<1>4. shifted \subseteq Nat
  BY <1>1 DEF shifted
<1> QED BY <1>2, <1>3, <1>4

\* The reading of sensor t that is the last one up to l.
Newest(t, l) ==
  {r \in byte : \E k \in Polls :
     /\ r = reading(k) /\ 3 * k + t <= l
     /\ \A j \in Polls : 3 * j + t <= l => j <= k}

\* From what has been consumed a walk leads to the end of the stream.  Behind a
\* packet whose replies are lost it may end a byte late.
Ahead(l, e, n, m) ==
  /\ Walk(stream, Polls, shifted, consumed, l, e, n, m)
  /\ e = Len(stream) \/ (e = Len(stream) + 1 /\ answered \in shifted)
  /\ l <= n /\ n <= 3 * answered + 3
  /\ Done(Polls, shifted, answered, n, m)

\* What was sent before it has been served, in particular to nextState.
Behind(l) ==
  /\ \A k \in Polls \ shifted, t \in 1 .. 3 : 3 * k + t <= l => <<Sensor(t), reading(k)>> \in got
  /\ shifted = {} => nextState.left \subseteq Newest(2, l) /\ nextState.right \subseteq Newest(3, l)

CutInv == ~overrun => \E l \in Int, e \in Nat, n \in Int, m \in Int : Ahead(l, e, n, m) /\ Behind(l)

\* The pair of encoders last used is no older than what was answered.
PairInv ==
  Framed => \A l \in currentState.left, r \in currentState.right :
              /\ r <= l /\ l < FirstReading + answered
              /\ \A k \in Polls : ~(r < reading(k) /\ reading(k) < l)

\* One step along a walk.
LEMMA WalkSkip ==
  ASSUME NEW s, NEW P, NEW T, NEW a \in Nat, NEW l \in Int, NEW e, NEW n, NEW m,
         Walk(s, P, T, a, l, e, n, m), a < Len(s), a # e, s[a + 1] # SYNC
  PROVE  Walk(s, P, T, a + 1, l, e, n, m)
<1>1. PICK W \in SUBSET (Nat \X Int) : <<a, l>> \in W /\ Path(s, P, T, W, e, n, m)
  BY DEF Walk
<1>2. Step(s, P, T, W, a, l)
  BY <1>1 DEF Path
<1>3. <<a + 1, l>> \in W
  BY <1>2 DEF Step
<1> QED BY <1>1, <1>3 DEF Walk

LEMMA WalkServe ==
  ASSUME NEW s, NEW P, NEW T, NEW a \in Nat, NEW l \in Int, NEW e, NEW n, NEW m,
         Walk(s, P, T, a, l, e, n, m), a # e, s[a + 1] = SYNC
  PROVE  \E x \in Int : /\ Walk(s, P, T, a + 5, x, e, n, m) /\ x <= n
                        /\ Other(s, T, a, l, x) \/ Reply(s, P, T, a, l, x)
<1>1. PICK W \in SUBSET (Nat \X Int) : <<a, l>> \in W /\ Path(s, P, T, W, e, n, m)
  BY DEF Walk
<1>2. Step(s, P, T, W, a, l)
  BY <1>1 DEF Path
<1>3. PICK x \in Int : /\ <<a + 5, x>> \in W
                       /\ Other(s, T, a, l, x) \/ Reply(s, P, T, a, l, x)
  BY <1>2 DEF Step
<1>4. x <= n
  <2>1. a + 5 \in Nat
    OBVIOUS
  <2> QED BY <1>1, <1>3, <2>1 DEF Path
<1> QED BY <1>1, <1>3, <1>4 DEF Walk

LEMMA WalkEnds ==
  ASSUME NEW s, NEW P, NEW T, NEW a \in Nat, NEW l \in Int, NEW e, NEW n, NEW m,
         Walk(s, P, T, a, l, e, n, m), a + 5 >= Len(s)
  PROVE  m <= l
BY DEF Walk, Path

LEMMA PollsType == TypeOK => Polls \in SUBSET Nat /\ \A k \in Polls : k \in 1 .. answered
BY DEF Polls, TypeOK

\* The packets of the robot's answer are cut where the robot cut them.
LEMMA AnswerCut ==
  ASSUME TypeOK, CutInv, Answer
  PROVE  CutInv'
<1>1. PICK k \in 1 .. MaxPackets, q \in byte, c \in {DRIVE, POLL} : \E head, body \in Seq(byte) :
        stream' = stream \o (head \o body) /\ answerOf(k, q, c, head, body)
  BY AnswerAdds
<1>0. PICK head \in Seq(byte), body \in Seq(byte) :
        stream' = stream \o (head \o body) /\ answerOf(k, q, c, head, body)
  BY <1>1
<1>2. /\ k = answered + 1 /\ k \in 1 .. Len(sent) /\ answered' = k
      /\ q = sent[k].seq /\ c = sent[k].command
      /\ stream' = stream \o (head \o body)
      /\ \/ /\ head = packet(q, c, 0)
            /\ body \in {replyTo(q, c, k), replyTo(q, c, k) \o Text}
            /\ torn' = torn
         \/ /\ \E i \in 1 .. 4 : head = splitEcho(q, c, i)
            /\ body = replyTo(q, c, k)
            /\ torn' = IF q = SYNC THEN torn \cup {k} ELSE torn
  BY <1>0 DEF answerOf
<1>3. UNCHANGED <<sent, consumed, got, nextState, overrun>>
  BY DEF Answer, state, history
<1>4. answered \in Nat /\ k = answered + 1 /\ answered' = k
  BY <1>2 DEF TypeOK
<1>5. /\ Polls \in SUBSET Nat /\ Polls' \in SUBSET Nat /\ Polls \subseteq Polls'
      /\ \A j \in Polls : j \in Nat /\ j < k
      /\ \A j \in Polls' : j \in Polls \/ j = k
      /\ k \in Polls' <=> c = POLL
  <2>1. /\ Polls = {j \in 1 .. answered : sent[j].command = POLL}
        /\ Polls' = {j \in 1 .. answered' : sent[j].command = POLL}
    BY <1>3 DEF Polls
  <2>2. 1 .. answered \subseteq Nat /\ \A j \in 1 .. answered : j \in 1 .. k /\ j < k
    BY <1>4
  <2>3. \A j \in 1 .. k : j \in 1 .. answered \/ j = k
    BY <1>4
  <2>4. k \in 1 .. k /\ 1 .. k \subseteq Nat
    BY <1>4
  <2> QED BY <1>2, <1>4, <2>1, <2>2, <2>3, <2>4
<1>6. /\ shifted \subseteq shifted' /\ \A j \in shifted' : j \in shifted \/ j = k
      /\ k \in torn' => k \in shifted'
      /\ answered \in shifted /\ q = SYNC => k \in shifted'
  <2>1. torn \subseteq 1 .. answered /\ torn \subseteq torn'
        /\ \A j \in torn' : j \in torn \/ j = k
    BY <1>2 DEF TypeOK
  <2>2. /\ shifted = {j \in 1 .. answered :
               \E i \in torn : i <= j /\ \A h \in i + 1 .. j : sent[h].seq = SYNC}
        /\ shifted' = {j \in 1 .. k :
               \E i \in torn' : i <= j /\ \A h \in i + 1 .. j : sent[h].seq = SYNC}
    BY <1>3, <1>4 DEF shifted
  <2>3. 1 .. answered \subseteq 1 .. k /\ \A j \in 1 .. k : j \in 1 .. answered \/ j = k
    BY <1>4
  <2>4. shifted \subseteq shifted'
    BY <2>1, <2>2, <2>3
  <2>5. ASSUME NEW j \in shifted', j # k PROVE j \in shifted
    <3>1. PICK i \in torn' : i <= j /\ \A h \in i + 1 .. j : sent[h].seq = SYNC
      BY <2>2
    <3>2. j \in 1 .. answered
      BY <2>2, <2>3, <2>5
    <3>3. i # k
      BY <1>4, <3>1, <3>2
    <3> QED BY <2>1, <2>2, <3>1, <3>2, <3>3
  <2>6. k \in torn' => k \in shifted'
    <3>1. k \in 1 .. k /\ k <= k /\ k + 1 .. k = {}
      BY <1>4
    <3> QED BY <2>2, <3>1
  <2>7. ASSUME answered \in shifted, q = SYNC PROVE k \in shifted'
    <3>1. PICK i \in torn : /\ i <= answered
                            /\ \A h \in i + 1 .. answered : sent[h].seq = SYNC
      BY <2>2, <2>7
    <3>2. i \in Nat /\ i <= k
      BY <1>4, <2>1, <3>1
    <3>3. ASSUME NEW h \in i + 1 .. k PROVE sent[h].seq = SYNC
      <4>1. h = k \/ h \in i + 1 .. answered
        BY <1>4, <3>2
      <4> QED BY <1>2, <2>7, <3>1, <4>1
    <3>4. k \in 1 .. k /\ i \in torn'
      BY <1>4, <2>1
    <3> QED BY <2>2, <3>2, <3>3, <3>4
  <2> QED BY <2>4, <2>5, <2>6, <2>7
<1> SUFFICES ASSUME ~overrun PROVE CutInv'
  BY <1>3 DEF CutInv
<1>7. PICK l \in Int, e \in Nat, n \in Int, m \in Int : Ahead(l, e, n, m) /\ Behind(l)
  BY DEF CutInv
<1>8. /\ Walk(stream, Polls, shifted, consumed, l, e, n, m)
      /\ e = Len(stream) \/ (e = Len(stream) + 1 /\ answered \in shifted)
      /\ l <= n /\ n <= 3 * answered + 3
      /\ Done(Polls, shifted, answered, n, m)
  BY <1>7 DEF Ahead
<1>9. stream \in Seq(Int) /\ consumed \in Nat
  <2>1. stream \in Seq(byte) /\ consumed \in Nat /\ byte \subseteq Int
    BY DEF TypeOK, byte
  <2> QED BY <2>1, SeqMonotonic
<1>10. PICK L \in Nat : L = Len(stream)
  BY <1>9
<1>11. PICK a \in {0, 1} : e - a = L /\ (a = 1 => answered \in shifted)
  BY <1>8, <1>10
<1>12. a = 1 /\ q = SYNC => k \in shifted'
  BY <1>6, <1>11
<1>13. Before(Polls', shifted', k, n)
  <2>1. ASSUME NEW j \in Polls' \ shifted', NEW t \in 1 .. 3, j # k PROVE 3 * j + t <= n
    <3>1. j \in Polls \ shifted
      BY <1>5, <1>6, <2>1
    <3> QED BY <1>8, <3>1 DEF Done
  <2> QED BY <2>1 DEF Before
<1>14. n <= 3 * k
  BY <1>4, <1>8
<1> DEFINE seg == head \o body
<1>15. /\ seg \in Seq(Int) /\ Len(seg) >= 5
       /\ \E f \in Nat, x \in Int, y \in Int :
            /\ Walk(seg, Polls', shifted', a, n, f, x, y)
            /\ \/ f = Len(seg)
               \/ f = Len(seg) + 1 /\ k \in shifted'
            /\ n <= x /\ x <= 3 * k + 3 /\ Done(Polls', shifted', k, x, y)
  <2>0. PICK P \in SUBSET Nat : P = Polls'
    BY <1>5
  <2>01. PICK T : T = shifted'
    OBVIOUS
  <2>1. P = Polls' /\ T = shifted'
    BY <2>0, <2>01
  <2>2. (k \in P <=> c = POLL) /\ Before(P, T, k, n)
    BY <1>5, <1>13, <2>1
  <2>3. Sends(head, body, q, c, k, T) /\ Starts(a, q, k, T)
    <3>1. \/ /\ head = packet(q, c, 0)
             /\ body \in {replyTo(q, c, k), replyTo(q, c, k) \o Text}
          \/ /\ \E i \in 1 .. 4 : head = splitEcho(q, c, i)
             /\ body = replyTo(q, c, k)
             /\ q = SYNC => k \in torn'
      BY <1>2
    <3>2. q = SYNC /\ k \in torn' => k \in T
      BY <1>6, <2>1
    <3> HIDE DEF seg
    <3> QED BY <1>12, <2>1, <3>1, <3>2 DEF Sends, Starts
  <2>4. /\ head \o body \in Seq(Int) /\ Len(head \o body) >= 5
        /\ \E f \in Nat, x \in Int, y \in Int :
             /\ Walk(head \o body, P, T, a, n, f, x, y)
             /\ \/ f = Len(head \o body)
                \/ f = Len(head \o body) + 1 /\ k \in T
             /\ n <= x /\ x <= 3 * k + 3 /\ Done(P, T, k, x, y)
    <3> HIDE DEF seg
    <3> QED BY <1>14, <2>2, <2>3, AnswerWalk
  <2> QED BY <2>1, <2>4
<1>16. PICK f \in Nat, x \in Int, y \in Int :
            /\ Walk(seg, Polls', shifted', a, n, f, x, y)
            /\ \/ f = Len(seg)
               \/ f = Len(seg) + 1 /\ k \in shifted'
            /\ n <= x /\ x <= 3 * k + 3 /\ Done(Polls', shifted', k, x, y)
  BY <1>15
<1>17. PICK M \in Nat : Len(seg) = M /\ M >= 5
  BY <1>15
<1>18. stream' = stream \o seg
  BY <1>2
<1> HIDE DEF seg
<1>19. Walk(stream, Polls', shifted', consumed, l, e, n, m)
  <2>1. \A i \in Polls, j \in Polls' \ Polls : i < j
    BY <1>5
  <2>2. Polls' \subseteq Nat
    BY <1>5
  <2> QED BY <1>5, <1>6, <1>8, <1>9, <2>1, <2>2, Extended
<1>20. PICK z \in Nat : z - f = L
  <2>1. L + f \in Nat /\ L + f - f = L
    OBVIOUS
  <2> QED BY <2>1
<1>21. Walk(stream', Polls', shifted', consumed, l, z, x, y)
  <2>1. a \in Nat /\ y <= y
    OBVIOUS
  <2>2. Walk(stream \o seg, Polls', shifted', consumed, l, z, x, y)
    <3>1. Walk(seg, Polls', shifted', a, n, f, x, y)
      BY <1>16
    <3>2. seg \in Seq(Int) /\ e - a = L /\ Len(stream) = L /\ Len(seg) = M /\ M >= 5
      BY <1>10, <1>11, <1>15, <1>17
    <3> QED BY <1>9, <1>19, <1>20, <2>1, <3>1, <3>2, Joined
  <2> QED BY <1>18, <2>2
<1>22. Ahead(l, z, x, y)'
  <2>1. Len(stream') = L + M
    <3>1. Len(stream \o seg) = Len(stream) + Len(seg)
      BY <1>9, <1>15, Concat
    <3> QED BY <1>10, <1>17, <1>18, <3>1
  <2>2. z = Len(stream') \/ (z = Len(stream') + 1 /\ answered' \in shifted')
    BY <1>4, <1>16, <1>17, <1>20, <2>1
  <2>3. l <= x /\ x <= 3 * answered' + 3
    BY <1>4, <1>8, <1>16
  <2> QED BY <1>3, <1>4, <1>16, <1>21, <2>2, <2>3 DEF Ahead
<1>23. ASSUME NEW t \in 1 .. 3 PROVE ~(3 * k + t <= l)
  BY <1>8, <1>14
<1>24. Behind(l)'
  <2>1. ASSUME NEW j \in Polls' \ shifted', NEW t \in 1 .. 3, 3 * j + t <= l
        PROVE  <<Sensor(t), reading(j)>> \in got'
    <3>1. j \in Polls \ shifted
      BY <1>5, <1>6, <1>23, <2>1
    <3> QED BY <1>3, <1>7, <2>1, <3>1 DEF Behind
  <2>2. ASSUME NEW t \in 1 .. 3 PROVE Newest(t, l) \subseteq Newest(t, l)'
    <3>1. ASSUME NEW r \in Newest(t, l) PROVE r \in Newest(t, l)'
      <4>1. r \in byte
        BY DEF Newest
      <4>2. PICK i \in Polls : /\ r = reading(i) /\ 3 * i + t <= l
                               /\ \A j \in Polls : 3 * j + t <= l => j <= i
        BY DEF Newest
      <4>3. i \in Polls' /\ \A j \in Polls' : 3 * j + t <= l => j <= i
        BY <1>5, <1>23, <4>2
      <4> QED BY <4>1, <4>2, <4>3 DEF Newest
    <3> QED BY <3>1
  <2>3. ASSUME shifted' = {}
        PROVE  /\ nextState'.left \subseteq Newest(2, l)'
               /\ nextState'.right \subseteq Newest(3, l)'
    <3>1. shifted = {}
      BY <1>6, <2>3
    <3>2. nextState.left \subseteq Newest(2, l) /\ nextState.right \subseteq Newest(3, l)
      BY <1>7, <3>1 DEF Behind
    <3>3. 2 \in 1 .. 3 /\ 3 \in 1 .. 3
      OBVIOUS
    <3> QED BY <1>3, <2>2, <3>2, <3>3
  <2> QED BY <2>1, <2>3 DEF Behind
<1> QED BY <1>22, <1>24 DEF CutInv

\* What neither sends, consumes nor answers anything leaves the walk alone.
LEMMA CutKept ==
  ASSUME CutInv, overrun => overrun',
         UNCHANGED <<stream, consumed, answered, got>>, Polls' = Polls, shifted' = shifted,
         nextState' \in {nextState, noState}
  PROVE  CutInv'
<1> SUFFICES ASSUME ~overrun' PROVE CutInv'
  BY DEF CutInv
<1>1. PICK l \in Int, e \in Nat, n \in Int, m \in Int : Ahead(l, e, n, m) /\ Behind(l)
  BY DEF CutInv
<1>2. Ahead(l, e, n, m)'
  BY <1>1 DEF Ahead
<1>3. Newest(2, l)' = Newest(2, l) /\ Newest(3, l)' = Newest(3, l)
  BY DEF Newest
<1>4. nextState'.left \subseteq nextState.left /\ nextState'.right \subseteq nextState.right
  <2>1. noState.left = {} /\ noState.right = {}
    BY DEF noState
  <2>2. CASE nextState' = nextState
    BY <2>2
  <2>3. CASE nextState' = noState
    BY <2>1, <2>3
  <2> QED BY <2>2, <2>3
<1>5. Behind(l)'
  <2>1. ASSUME NEW k \in Polls' \ shifted', NEW t \in 1 .. 3, 3 * k + t <= l
        PROVE  <<Sensor(t), reading(k)>> \in got'
    <3>1. k \in Polls \ shifted
      BY <2>1
    <3> QED BY <1>1, <2>1, <3>1 DEF Behind
  <2>2. ASSUME shifted' = {}
        PROVE  nextState'.left \subseteq Newest(2, l)' /\ nextState'.right \subseteq Newest(3, l)'
    BY <1>1, <1>3, <1>4, <2>2 DEF Behind
  <2> QED BY <2>1, <2>2 DEF Behind
<1> QED BY <1>2, <1>5 DEF CutInv

\* A packet sent changes nothing about those answered.
LEMMA SendKeeps ==
  ASSUME TypeOK, NEW c \in {DRIVE, POLL}, sendpacket(c), Len(sent) < MaxPackets,
         UNCHANGED <<answered, torn>>
  PROVE  Polls' = Polls /\ shifted' = shifted
<1>1. PICK q \in Sequence[Len(sent) + 1] : sent' = Append(sent, [command |-> c, seq |-> q])
  BY DEF sendpacket
<1>2. /\ sent \in Seq([command : {DRIVE, POLL}, seq : byte])
      /\ answered \in 0 .. Len(sent) /\ torn \subseteq 1 .. answered
  BY DEF TypeOK
<1>3. PICK L \in Nat : L = Len(sent)
  BY <1>2
<1>4. \A k \in 1 .. L : sent'[k] = sent[k]
  <2> DEFINE p == [command |-> c, seq |-> q]
  <2>1. p \in [command : {DRIVE, POLL}, seq : byte]
    <3>1. L + 1 \in 1 .. MaxPackets
      BY <1>3, BoundAssumption
    <3>2. q \in byte
      BY <1>1, <1>3, <3>1, SequenceAssumption
    <3> QED BY <3>2
  <2> HIDE DEF p
  <2>2. sent' = Append(sent, p)
    BY <1>1 DEF p
  <2> QED BY <1>2, <1>3, <2>1, <2>2, AppendProperties
<1>5. answered \in Nat /\ answered <= L
  BY <1>2, <1>3
<1>6. \A k \in 1 .. answered : sent'[k] = sent[k]
  BY <1>4, <1>5
<1>7. Polls' = Polls
  BY <1>6 DEF Polls
<1>8. ASSUME NEW k \in torn, NEW j \in 1 .. answered, NEW i \in k + 1 .. j
      PROVE  sent'[i].seq = sent[i].seq
  <2>1. k \in 1 .. answered
    BY <1>2
  <2>2. i \in 1 .. answered
    BY <1>5, <2>1
  <2> QED BY <1>6, <2>2
<1>9. shifted' = shifted
  <2>1. shifted' = {j \in 1 .. answered :
           \E k \in torn : k <= j /\ \A i \in k + 1 .. j : sent'[i].seq = SYNC}
    BY DEF shifted
  <2> QED BY <1>8, <2>1 DEF shifted
<1> QED BY <1>7, <1>9

LEMMA DropCut ==
  ASSUME TypeOK, RingInv, CutInv, DropOutOfSync
  PROVE  CutInv'
<1>1. UNCHANGED <<sent, stream, answered, torn, shifted, got, nextState, overrun>>
      /\ consumed' = consumed + 1
  BY DEF DropOutOfSync, robot, state, shifted
<1> SUFFICES ASSUME ~overrun PROVE CutInv'
  BY <1>1 DEF CutInv
<1>2. /\ minos_buffer_start \in 0 .. N - 1 /\ minos_buffer_end \in 0 .. N - 1
      /\ taken \in 0 .. Len(stream) /\ consumed \in Nat /\ Len(stream) \in Nat
  BY DEF TypeOK
<1>3. used \in Nat /\ used >= 1
  BY <1>2, Used, RingSize DEF DropOutOfSync
<1>4. consumed + used = taken /\ at(0) = stream[consumed + 1]
  <2>1. consumed + used = taken /\ \A i \in 0 .. used - 1 : at(i) = stream[consumed + i + 1]
    BY DEF RingInv, RingIsStream
  <2>2. 0 \in 0 .. used - 1 /\ consumed + 0 + 1 = consumed + 1
    BY <1>2, <1>3
  <2>3. at(0) = stream[consumed + 0 + 1]
    BY <2>1, <2>2
  <2> QED BY <2>1, <2>2, <2>3
<1>5. PICK l \in Int, e \in Nat, n \in Int, m \in Int : Ahead(l, e, n, m) /\ Behind(l)
  BY DEF CutInv
<1>6. Walk(stream, Polls, shifted, consumed, l, e, n, m)
  BY <1>5 DEF Ahead
<1>7. consumed < Len(stream) /\ consumed # e
  <2>1. consumed < Len(stream)
    BY <1>2, <1>3, <1>4
  <2> QED BY <1>2, <1>5, <2>1 DEF Ahead
<1>8. stream[consumed + 1] # SYNC
  BY <1>4 DEF DropOutOfSync
<1>9. Walk(stream, Polls, shifted, consumed + 1, l, e, n, m)
  BY <1>2, <1>6, <1>7, <1>8, WalkSkip
<1>10. Polls' = Polls
  BY <1>1 DEF Polls
<1>11. Ahead(l, e, n, m)'
  BY <1>1, <1>5, <1>9, <1>10 DEF Ahead
<1>12. Newest(2, l)' = Newest(2, l) /\ Newest(3, l)' = Newest(3, l)
  BY <1>10 DEF Newest
<1>13. Behind(l)'
  BY <1>1, <1>5, <1>10, <1>12 DEF Behind
<1> QED BY <1>11, <1>13 DEF CutInv

LEMMA SensorNames ==
  \A t \in 1 .. 3 : /\ Sensor(t) \in Sensors
                    /\ Sensor(t) = IR => t = 1
                    /\ Sensor(t) = LEFT_ENCODER => t = 2
                    /\ Sensor(t) = RIGHT_ENCODER => t = 3
BY DEF Sensor, Sensors, IR, LEFT_ENCODER, RIGHT_ENCODER

\* Three replies to a poll: their labels tell them apart.
LEMMA Labels ==
  ASSUME NEW j \in Int, NEW k \in Int, NEW u \in 1 .. 3, NEW t \in 1 .. 3
  PROVE  /\ 3 * j + u = 3 * k + t => j = k /\ u = t
         /\ 3 * j + t <= 3 * k + t => j <= k
  OBVIOUS

\* The packet at the front of the ring is the one the walk comes to.
LEMMA Front ==
  ASSUME TypeOK, RingInv, ~overrun, used > 5
  PROVE  /\ consumed + 5 <= Len(stream)
         /\ at(0) = stream[consumed + 1] /\ at(2) = stream[consumed + 3]
         /\ at(3) = stream[consumed + 4]
<1>1. /\ minos_buffer_start \in 0 .. N - 1 /\ minos_buffer_end \in 0 .. N - 1
      /\ taken \in 0 .. Len(stream) /\ consumed \in Nat /\ Len(stream) \in Nat
  BY DEF TypeOK
<1>2. used \in Nat /\ used > 5
  BY <1>1, Used, RingSize
<1>3. consumed + used = taken /\ \A i \in 0 .. used - 1 : at(i) = stream[consumed + i + 1]
  BY DEF RingInv, RingIsStream
<1>4. /\ 0 \in 0 .. used - 1 /\ consumed + 0 + 1 = consumed + 1
      /\ 2 \in 0 .. used - 1 /\ consumed + 2 + 1 = consumed + 3
      /\ 3 \in 0 .. used - 1 /\ consumed + 3 + 1 = consumed + 4
  BY <1>1, <1>2
<1>5. /\ at(0) = stream[consumed + 0 + 1] /\ at(2) = stream[consumed + 2 + 1]
      /\ at(3) = stream[consumed + 3 + 1]
  BY <1>3, <1>4
<1>6. consumed + 5 <= Len(stream)
  <2>1. consumed + used = taken
    BY <1>3
  <2> QED BY <1>1, <1>2, <2>1
<1> QED BY <1>4, <1>5, <1>6

\* A packet served is the next one on the walk.
LEMMA ServedNext ==
  ASSUME TypeOK, RingInv, Serve, used > 5, ~overrun,
         NEW l \in Int, NEW e \in Nat, NEW n \in Int, NEW m \in Int, Ahead(l, e, n, m)
  PROVE  \E x \in Int : /\ Walk(stream, Polls, shifted, consumed + 5, x, e, n, m) /\ x <= n
                        /\ \/ x = l /\ (shifted = {} => at(2) \notin Sensors)
                           \/ \E k \in Polls, t \in 1 .. 3 :
                                /\ at(2) = Sensor(t) /\ at(3) = reading(k)
                                /\ l < 3 * k + t /\ x = 3 * k + t
                                /\ ~Missing(Polls, shifted, l, x)
<1>1. /\ consumed \in Nat /\ Len(stream) \in Nat
      /\ minos_buffer_start \in 0 .. N - 1 /\ minos_buffer_end \in 0 .. N - 1
  BY DEF TypeOK
<1>2. at(0) = SYNC
  <2>1. minos_buffer_start # minos_buffer_end
    BY <1>1, Used, RingSize
  <2> QED BY <2>1 DEF Serve
<1>3. stream[consumed + 1] = SYNC /\ consumed # e
  <2>1. consumed + 5 <= Len(stream) /\ at(0) = stream[consumed + 1]
    BY Front
  <2>2. e = Len(stream) \/ e = Len(stream) + 1
    BY DEF Ahead
  <2> QED BY <1>1, <1>2, <2>1, <2>2
<1>4. Walk(stream, Polls, shifted, consumed, l, e, n, m)
  BY DEF Ahead
<1>5. PICK x \in Int : /\ Walk(stream, Polls, shifted, consumed + 5, x, e, n, m) /\ x <= n
                       /\ Other(stream, shifted, consumed, l, x)
                            \/ Reply(stream, Polls, shifted, consumed, l, x)
  BY <1>1, <1>3, <1>4, WalkServe
<1> QED BY <1>5, Front DEF Other, Reply

\* What a packet served adds to the sensor replies and to the next state.
LEMMA ServeAdds ==
  ASSUME TypeOK, Serve, used > 5
  PROVE  /\ consumed' = consumed + 5
         /\ got' = IF at(2) \in Sensors THEN got \cup {<<at(2), at(3)>>} ELSE got
         /\ nextState'.left = IF at(2) = LEFT_ENCODER THEN {at(3)} ELSE nextState.left
         /\ nextState'.right = IF at(2) = RIGHT_ENCODER THEN {at(3)} ELSE nextState.right
<1>1. nextState \in State
  BY DEF TypeOK
<1>2. nextState = [left |-> nextState.left, right |-> nextState.right, ir |-> nextState.ir]
  BY <1>1 DEF State
<1>3. ~(used <= 5)
  <2>1. minos_buffer_start \in 0 .. N - 1 /\ minos_buffer_end \in 0 .. N - 1
    BY DEF TypeOK
  <2> QED BY <2>1, Used, RingSize
<1>4. /\ consumed' = consumed + 5 /\ nextState' = served(nextState, at(2), at(3))
      /\ got' = IF at(2) \in Sensors THEN got \cup {<<at(2), at(3)>>} ELSE got
  BY <1>3 DEF Serve, Sensors
<1> QED BY <1>2, <1>4 DEF served, IR, LEFT_ENCODER, RIGHT_ENCODER

LEMMA ServeCut ==
  ASSUME TypeOK, RingInv, CutInv, Serve, used > 5
  PROVE  CutInv'
<1>1. UNCHANGED <<sent, stream, answered, shifted, overrun>> /\ consumed' = consumed + 5
  BY ServeAdds DEF Serve, robot, shifted
<1> SUFFICES ASSUME ~overrun PROVE CutInv'
  BY <1>1 DEF CutInv
<1>2. PICK l \in Int, e \in Nat, n \in Int, m \in Int : Ahead(l, e, n, m) /\ Behind(l)
  BY DEF CutInv
<1>3. PICK x \in Int :
        /\ Walk(stream, Polls, shifted, consumed + 5, x, e, n, m) /\ x <= n
        /\ \/ x = l /\ (shifted = {} => at(2) \notin Sensors)
           \/ \E k \in Polls, t \in 1 .. 3 :
                /\ at(2) = Sensor(t) /\ at(3) = reading(k)
                /\ l < 3 * k + t /\ x = 3 * k + t /\ ~Missing(Polls, shifted, l, x)
  BY <1>2, ServedNext
<1>4. Polls' = Polls /\ Polls \in SUBSET Nat
  BY <1>1, PollsType DEF Polls
<1>5. Ahead(x, e, n, m)'
  BY <1>1, <1>2, <1>3, <1>4 DEF Ahead
<1>6. Newest(2, x)' = Newest(2, x) /\ Newest(3, x)' = Newest(3, x)
  BY <1>4 DEF Newest
<1>7. /\ got \subseteq got' /\ (at(2) \in Sensors => <<at(2), at(3)>> \in got')
      /\ nextState'.left = IF at(2) = LEFT_ENCODER THEN {at(3)} ELSE nextState.left
      /\ nextState'.right = IF at(2) = RIGHT_ENCODER THEN {at(3)} ELSE nextState.right
  BY ServeAdds
<1>8. CASE x = l /\ (shifted = {} => at(2) \notin Sensors)
  <2>1. ASSUME shifted = {} PROVE UNCHANGED <<nextState.left, nextState.right>>
    BY <1>7, <1>8, <2>1 DEF Sensors
  <2>2. Behind(x)'
    BY <1>1, <1>2, <1>4, <1>6, <1>7, <1>8, <2>1 DEF Behind
  <2> QED BY <1>5, <2>2 DEF CutInv
<1>9. ASSUME NEW k \in Polls, NEW t \in 1 .. 3,
             at(2) = Sensor(t), at(3) = reading(k),
             l < 3 * k + t, x = 3 * k + t, ~Missing(Polls, shifted, l, x)
      PROVE  CutInv'
  <2>1. k \in Nat /\ at(2) \in Sensors
    BY <1>4, <1>9, SensorNames
  <2>2. ASSUME NEW j \in Polls \ shifted, NEW u \in 1 .. 3, 3 * j + u <= x, ~(3 * j + u <= l)
        PROVE  j = k /\ u = t
    <3>1. j \in Nat
      BY <1>4
    <3>2. 3 * j + u = 3 * k + t
      <4>1. ~(l < 3 * j + u /\ 3 * j + u < x)
        BY <1>9 DEF Missing
      <4> QED BY <1>9, <2>1, <2>2, <3>1, <4>1
    <3> QED BY <2>1, <3>1, <3>2, Labels
  <2>3. ASSUME NEW j \in Polls \ shifted, NEW u \in 1 .. 3, 3 * j + u <= x
        PROVE  <<Sensor(u), reading(j)>> \in got'
    <3>1. CASE 3 * j + u <= l
      BY <1>2, <1>7, <2>3, <3>1 DEF Behind
    <3>2. CASE ~(3 * j + u <= l)
      BY <1>7, <1>9, <2>1, <2>2, <2>3, <3>2
    <3> QED BY <3>1, <3>2
  <2>4. ASSUME shifted = {}, NEW u \in 1 .. 3, u # t PROVE Newest(u, l) \subseteq Newest(u, x)
    <3>1. ASSUME NEW r \in Newest(u, l) PROVE r \in Newest(u, x)
      <4>1. r \in byte
        BY DEF Newest
      <4>2. PICK i \in Polls : /\ r = reading(i) /\ 3 * i + u <= l
                               /\ \A j \in Polls : 3 * j + u <= l => j <= i
        BY DEF Newest
      <4>3. 3 * i + u <= x
        BY <1>4, <1>9, <2>1, <4>2
      <4>4. ASSUME NEW j \in Polls, 3 * j + u <= x PROVE j <= i
        BY <2>2, <2>4, <4>2, <4>4
      <4> QED BY <4>1, <4>2, <4>3, <4>4 DEF Newest
    <3> QED BY <3>1
  <2>5. reading(k) \in Newest(t, x)
    <3>1. 1 .. answered \subseteq 1 .. MaxPackets
      BY BoundAssumption DEF TypeOK
    <3>2. reading(k) \in byte
      BY <3>1, ReadingType DEF Polls
    <3>3. ASSUME NEW j \in Polls, 3 * j + t <= x PROVE j <= k
      BY <1>4, <1>9, <2>1, <3>3, Labels
    <3>4. 3 * k + t <= x
      BY <1>9, <2>1
    <3> QED BY <3>2, <3>3, <3>4 DEF Newest
  <2>6. ASSUME shifted = {}
        PROVE  nextState'.left \subseteq Newest(2, x) /\ nextState'.right \subseteq Newest(3, x)
    <3>1. nextState.left \subseteq Newest(2, l) /\ nextState.right \subseteq Newest(3, l)
      BY <1>2, <2>6 DEF Behind
    <3>2. /\ t = 2 <=> at(2) = LEFT_ENCODER
          /\ t = 3 <=> at(2) = RIGHT_ENCODER
      BY <1>9, SensorNames DEF Sensor
    <3>3. 2 \in 1 .. 3 /\ 3 \in 1 .. 3
      OBVIOUS
    <3>4. nextState'.left \subseteq Newest(2, x)
      BY <1>7, <1>9, <2>4, <2>5, <2>6, <3>1, <3>2, <3>3
    <3>5. nextState'.right \subseteq Newest(3, x)
      BY <1>7, <1>9, <2>4, <2>5, <2>6, <3>1, <3>2, <3>3
    <3> QED BY <3>4, <3>5
  <2>7. Behind(x)'
    BY <1>1, <1>4, <1>6, <2>3, <2>6 DEF Behind
  <2> QED BY <1>5, <2>7 DEF CutInv
<1> QED BY <1>3, <1>8, <1>9

LEMMA CutInit == Init => CutInv
<1> SUFFICES ASSUME Init PROVE CutInv
  OBVIOUS
<1>1. /\ answered = 0 /\ stream = <<>> /\ consumed = 0
      /\ nextState.left = {} /\ nextState.right = {}
  BY DEF Init, noState
<1>3. Polls = {}
  BY <1>1 DEF Polls
<1>4. Walk(stream, Polls, shifted, consumed, 0, 0, 0, 0)
  <2>1. stream \in Seq(Int) /\ consumed \in 0 .. Len(stream) /\ Len(stream) = 0
    BY <1>1
  <2>2. \A i \in consumed + 1 .. Len(stream) : stream[i] # SYNC
    BY <1>1
  <2> HIDE <1>1
  <2>3. 0 \in Int
    OBVIOUS
  <2>4. Walk(stream, Polls, shifted, consumed, 0, Len(stream), 0, 0)
    BY <2>1, <2>2, <2>3, Skipped
  <2> QED BY <2>1, <2>4
<1>5. Ahead(0, 0, 0, 0)
  BY <1>1, <1>3, <1>4 DEF Ahead, Done
<1>6. Behind(0)
  BY <1>1, <1>3 DEF Behind
<1>7. 0 \in Int /\ 0 \in Nat
  OBVIOUS
<1> QED BY <1>5, <1>6, <1>7 DEF CutInv

\* An overrun, a torn echo and an answer are for good.
LEMMA Grows ==
  ASSUME TypeOK, [Next]_vars
  PROVE  /\ overrun => overrun'
         /\ torn \subseteq torn'
         /\ answered' = answered \/ answered' = answered + 1
<1> USE DEF robot, ring, state, history
<1>1. ASSUME NEW cnt \in 0 .. N, Read(cnt) PROVE overrun => overrun'
  <2> DEFINE full == used + cnt >= N
  <2>1. overrun' = overrun \/ overrun' = (overrun \/ full)
    BY <1>1 DEF Read
  <2> HIDE DEF full
  <2> QED BY <2>1, Zenon
<1>2. overrun => overrun'
  BY <1>1 DEF Next, Answer, Drive, Poll, Parse, DropOutOfSync, Serve, Odometry, vars
<1>3. torn \subseteq torn' /\ (answered' = answered \/ answered' = answered + 1)
  BY DEF Next, Answer, Drive, Poll, Parse, DropOutOfSync, Serve, Odometry, Read, vars
<1> QED BY <1>2, <1>3

\* What the board sends does not change the polls that are answered.
LEMMA PollsKept ==
  ASSUME TypeOK, Drive \/ Poll
  PROVE  Polls' = Polls /\ shifted' = shifted
<1>1. UNCHANGED <<answered, torn>>
  BY DEF Drive, Poll, robot
<1>2. CASE Len(sent) < MaxPackets /\ (sendpacket(DRIVE) \/ sendpacket(POLL))
  BY <1>1, <1>2, SendKeeps
<1>3. CASE UNCHANGED sent
  BY <1>1, <1>3 DEF Polls, shifted
<1> QED BY <1>2, <1>3 DEF Drive, Poll

LEMMA CutStep ==
  TypeOK /\ RingInv /\ CutInv /\ [Next]_vars => CutInv'
<1> SUFFICES ASSUME TypeOK, RingInv, CutInv, [Next]_vars PROVE CutInv'
  OBVIOUS
<1> USE DEF robot, ring, state, history
<1>1. CASE Answer
  BY <1>1, AnswerCut
<1>2. CASE Drive \/ Poll
  BY <1>2, PollsKept, CutKept DEF Drive, Poll
<1>3. CASE DropOutOfSync
  BY <1>3, DropCut
<1>4. CASE Serve
  <2>1. CASE used > 5
    BY <1>4, <2>1, ServeCut
  <2>2. CASE ~(used > 5)
    <3>1. UNCHANGED <<sent, stream, consumed, answered, torn, got, nextState, overrun>>
      BY <1>4, <2>2 DEF Serve
    <3>2. Polls' = Polls /\ shifted' = shifted
      BY <3>1 DEF Polls, shifted
    <3> QED BY <3>1, <3>2, CutKept
  <2> QED BY <2>1, <2>2
<1>5. CASE Parse \/ Odometry \/ (\E cnt \in 0 .. N : Read(cnt)) \/ UNCHANGED vars
  <2>1. /\ UNCHANGED <<sent, stream, consumed, answered, torn, got>>
        /\ nextState' \in {nextState, noState}
    BY <1>5 DEF Parse, Odometry, Read, vars
  <2>2. Polls' = Polls /\ shifted' = shifted
    BY <2>1 DEF Polls, shifted
  <2> QED BY <2>1, <2>2, Grows, CutKept
<1> QED BY <1>1, <1>2, <1>3, <1>4, <1>5 DEF Next

\* The packets are cut where the robot cut them, but for torn echoes, behind
\* which the walk may be a byte late for as long as packets bear 0xAA; for every
\* text, every order of packets and all numbers they may bear.
THEOREM CutWhereSent == Spec => []CutInv
<1>1. TypeOK /\ RingInv /\ CutInv /\ [Next]_vars => CutInv'
  BY CutStep
<1>2. Spec => []TypeOK /\ []RingInv
  BY TypeCorrect, RingInvariant
<1> QED BY <1>1, <1>2, CutInit, PTL DEF Spec

LEMMA InventedStep ==
  TypeOK /\ RingInv /\ CutInv /\ NothingInvented /\ [Next]_vars => NothingInvented'
<1> SUFFICES ASSUME TypeOK, RingInv, CutInv, NothingInvented, [Next]_vars, Framed'
             PROVE  got' \subseteq Sensors \X Reading'
  BY DEF NothingInvented, Sensors
<1> USE DEF robot, ring, state, history
<1>1. Framed /\ answered \in Nat /\ answered' \in Nat /\ answered <= answered'
  <2>1. answered \in Nat
    BY DEF TypeOK
  <2> QED BY <2>1, Grows DEF Framed
<1>2. Reading \subseteq Reading'
  <2>1. 1 .. answered \subseteq 1 .. answered'
    BY <1>1
  <2> QED BY <2>1 DEF Reading
<1>3. got \subseteq Sensors \X Reading
  BY <1>1 DEF NothingInvented, Sensors
<1>4. CASE got' = got
  BY <1>2, <1>3, <1>4
<1>5. CASE got' # got
  <2>1. Serve /\ used > 5
    BY <1>5 DEF Next, Answer, Drive, Poll, Parse, DropOutOfSync, Serve, Odometry, Read, vars
  <2>2. got' = got \cup {<<at(2), at(3)>>} /\ at(2) \in Sensors
    BY <1>5, <2>1, ServeAdds
  <2>3. PICK l \in Int, e \in Nat, n \in Int, m \in Int : Ahead(l, e, n, m)
    BY <1>1 DEF CutInv, Framed
  <2>4. PICK k \in Polls : at(3) = reading(k)
    BY <1>1, <2>1, <2>2, <2>3, ServedNext, ShiftedType DEF Framed
  <2>5. at(3) \in Reading
    BY <2>4 DEF Reading, Polls
  <2> QED BY <1>2, <1>3, <2>2, <2>5
<1> QED BY <1>4, <1>5

\* No reading is served that the robot has not sent, for every text and every
\* order of packets, until a read overflows the ring or a text tears an echo.
THEOREM NoReadingInvented == Spec => []NothingInvented
<1>1. Init => NothingInvented
  BY DEF Init, NothingInvented
<1>2. TypeOK /\ RingInv /\ CutInv /\ NothingInvented /\ [Next]_vars => NothingInvented'
  BY InventedStep
<1>3. Spec => []TypeOK /\ []RingInv /\ []CutInv
  BY TypeCorrect, RingInvariant, CutWhereSent
<1> QED BY <1>1, <1>2, <1>3, PTL DEF Spec

LEMMA LostNothing == TypeOK /\ RingInv /\ CutInv => NothingLost
<1> SUFFICES ASSUME TypeOK, RingInv, CutInv, pc = "poll", taken = Len(stream), ~overrun,
                    NEW k \in Polls \ shifted
             PROVE  /\ <<IR, reading(k)>> \in got
                    /\ <<LEFT_ENCODER, reading(k)>> \in got
                    /\ <<RIGHT_ENCODER, reading(k)>> \in got \/ k = answered
  BY DEF NothingLost, Polls
<1>1. PICK l \in Int, e \in Nat, n \in Int, m \in Int : Ahead(l, e, n, m) /\ Behind(l)
  BY DEF CutInv
<1>2. consumed + 5 >= Len(stream)
  <2>1. /\ minos_buffer_start \in 0 .. N - 1 /\ minos_buffer_end \in 0 .. N - 1
        /\ consumed \in Nat /\ Len(stream) \in Nat
    BY DEF TypeOK
  <2>2. used \in Nat /\ used <= 5 /\ consumed + used = Len(stream)
    BY <2>1, Used, RingSize DEF RingInv, RestIsShort, RingIsStream
  <2> QED BY <2>1, <2>2
<1>3. m <= l
  <2>1. Walk(stream, Polls, shifted, consumed, l, e, n, m) /\ consumed \in Nat
    BY <1>1 DEF Ahead, TypeOK
  <2> QED BY <1>2, <2>1, WalkEnds
<1>4. k \in Nat
  BY PollsType
<1>5. ASSUME NEW t \in 1 .. 3, ~(k = answered /\ t = 3)
      PROVE  <<Sensor(t), reading(k)>> \in got
  <2>1. 3 * k + t <= m
    BY <1>1, <1>5 DEF Ahead, Done
  <2>2. 3 * k + t <= l
    BY <1>3, <1>4, <2>1
  <2> QED BY <1>1, <2>2 DEF Behind
<1>6. 1 \in 1 .. 3 /\ 2 \in 1 .. 3 /\ 3 \in 1 .. 3 /\ 1 # 3 /\ 2 # 3
  OBVIOUS
<1> QED BY <1>5, <1>6 DEF Sensor

\* No reading is lost, but for the last packet, which waits for the next byte;
\* a torn echo costs the replies of its own poll, and those of the packets right
\* behind it that bear 0xAA too.
THEOREM NoReadingLost == Spec => []NothingLost
  BY TypeCorrect, RingInvariant, CutWhereSent, LostNothing, PTL

LEMMA PairStep == TypeOK /\ CutInv /\ PairInv /\ [Next]_vars => PairInv'
<1> SUFFICES ASSUME TypeOK, CutInv, PairInv, [Next]_vars, Framed' PROVE PairInv'
  BY DEF PairInv
<1> USE DEF robot, ring, state, history
<1>1. Framed
  BY Grows DEF Framed
<1>2. /\ currentState.left \subseteq byte /\ currentState.right \subseteq byte
      /\ nextState.left \subseteq byte /\ nextState.right \subseteq byte
      /\ answered \in Nat /\ FirstReading \in byte
  <2>1. currentState \in State /\ nextState \in State
    BY DEF TypeOK
  <2>2. \A S \in Valid(byte) : S \subseteq byte
    BY DEF Valid
  <2> QED BY <2>1, <2>2, BoundAssumption DEF State, TypeOK
<1>3. \A l \in currentState.left, r \in currentState.right :
        /\ r <= l /\ l < FirstReading + answered
        /\ \A k \in Polls : ~(r < reading(k) /\ reading(k) < l)
  BY <1>1 DEF PairInv
<1>4. CASE Answer
  <2>1. /\ currentState' = currentState /\ answered' = answered + 1
        /\ \A j \in Polls' : j \in Polls \/ j = answered + 1
    <3>1. sent' = sent /\ currentState' = currentState /\ answered' = answered + 1
      BY <1>4 DEF Answer
    <3>2. \A j \in 1 .. answered + 1 : j \in 1 .. answered \/ j = answered + 1
      BY <1>2
    <3> QED BY <3>1, <3>2 DEF Polls
  <2>2. reading(answered + 1) = FirstReading + answered
    BY <1>2 DEF reading, byte
  <2>3. ASSUME NEW l \in currentState'.left, NEW r \in currentState'.right
        PROVE  /\ r <= l /\ l < FirstReading + answered'
               /\ \A k \in Polls' : ~(r < reading(k) /\ reading(k) < l)
    <3>1. l \in byte /\ r \in byte
      BY <1>2, <2>1
    <3>2. r <= l /\ l < FirstReading + answered
          /\ \A k \in Polls : ~(r < reading(k) /\ reading(k) < l)
      BY <1>3, <2>1
    <3>3. l < FirstReading + answered' /\ ~(reading(answered + 1) < l)
      BY <1>2, <2>1, <2>2, <3>1, <3>2 DEF byte
    <3> QED BY <2>1, <3>2, <3>3
  <2> QED BY <2>3 DEF PairInv
<1>5. CASE UNCHANGED <<currentState, answered>> /\ Polls' = Polls
  BY <1>3, <1>5 DEF PairInv
<1>6. CASE Odometry /\ currentState' = nextState
  <2>1. PICK c \in Int : Behind(c)
    BY <1>1 DEF CutInv, Framed
  <2>2. nextState.left \subseteq Newest(2, c) /\ nextState.right \subseteq Newest(3, c)
    BY <1>1, <2>1, ShiftedType DEF Behind, Framed
  <2>3. UNCHANGED <<answered, sent>> /\ Polls' = Polls
    BY <1>6 DEF Odometry, Polls
  <2>4. ASSUME NEW l \in nextState.left, NEW r \in nextState.right
        PROVE  /\ r <= l /\ l < FirstReading + answered
               /\ \A k \in Polls : ~(r < reading(k) /\ reading(k) < l)
    <3>1. PICK i \in Polls : /\ l = reading(i) /\ 3 * i + 2 <= c
                             /\ \A j \in Polls : 3 * j + 2 <= c => j <= i
      BY <2>2 DEF Newest
    <3>2. PICK j \in Polls : /\ r = reading(j) /\ 3 * j + 3 <= c
                             /\ \A k \in Polls : 3 * k + 3 <= c => k <= j
      BY <2>2 DEF Newest
    <3>3. i \in 1 .. answered /\ j \in 1 .. answered /\ Polls \subseteq Nat
      BY PollsType
    <3>4. j <= i
      <4>1. 3 * j + 2 <= c
        BY <2>1, <3>2, <3>3
      <4> QED BY <3>1, <4>1
    <3>5. i = j \/ \A k \in Polls : ~(j < k /\ k < i)
      <4>1. ASSUME NEW k \in Polls, j < k, k < i PROVE FALSE
        <5>1. k \in Nat
          BY <3>3
        <5>2. 3 * k + 3 <= c
          BY <3>1, <3>3, <4>1, <5>1
        <5> QED BY <3>2, <3>3, <4>1, <5>1, <5>2
      <4> QED BY <4>1
    <3>6. \A k \in Polls : reading(k) = FirstReading + k - 1
      BY DEF reading
    <3> QED BY <1>2, <3>1, <3>2, <3>3, <3>4, <3>5, <3>6 DEF byte
  <2> QED BY <1>6, <2>3, <2>4 DEF PairInv
<1>7. CASE Drive \/ Poll
  BY <1>5, <1>7, PollsKept DEF Drive, Poll
<1>8. CASE Parse \/ DropOutOfSync \/ Serve \/ (\E cnt \in 0 .. N : Read(cnt)) \/ UNCHANGED vars
  <2>1. UNCHANGED <<currentState, answered, sent>>
    BY <1>8 DEF Parse, DropOutOfSync, Serve, Read, vars
  <2> QED BY <1>5, <2>1 DEF Polls
<1>9. CASE Odometry /\ UNCHANGED currentState
  BY <1>5, <1>9 DEF Odometry, Polls
<1> QED BY <1>4, <1>6, <1>7, <1>8, <1>9 DEF Next, Odometry

\* The pair of encoders a position is computed from: they answer the same
\* poll, or the left one the poll after, for every text and order of packets.
THEOREM PairsAreClose == Spec => []EncodersWithinOnePoll
<1>1. Init => PairInv
  BY DEF Init, PairInv, noState
<1>2. TypeOK /\ CutInv /\ PairInv /\ [Next]_vars => PairInv'
  BY PairStep
<1>3. PairInv => EncodersWithinOnePoll
  BY DEF PairInv, EncodersWithinOnePoll, Polls
<1>4. Spec => []TypeOK /\ []CutInv
  BY TypeCorrect, CutWhereSent
<1> QED BY <1>1, <1>2, <1>3, <1>4, PTL DEF Spec
=============================================================================
