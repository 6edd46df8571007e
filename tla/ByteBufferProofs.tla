-------------------------- MODULE ByteBufferProofs --------------------------
(***************************************************************************)
(* For every number of slots and every set of characters: the indices of   *)
(* the circular buffer stay inside the array, and the buffer implements    *)
(* the bounded first-in first-out queue.                                   *)
(***************************************************************************)
EXTENDS ByteBuffer, SequenceTheorems, TLAPS

\* The index arithmetic of BUFF_push and BUFF_pop: one slot further, and back
\* to slot 0 after the last one.
LEMMA FollowingSlot ==
  ASSUME NEW s \in Slot
  PROVE  /\ following(s) \in Slot
         /\ following(s) = IF s = MAX_BUFFSIZE - 1 THEN 0 ELSE s + 1
<1>1. CASE s = MAX_BUFFSIZE - 1
  BY <1>1, SizeAssumption, MAX_BUFFSIZE % MAX_BUFFSIZE = 0 DEF following, Slot
<1>2. CASE s # MAX_BUFFSIZE - 1
  <2>1. s + 1 \in 0 .. MAX_BUFFSIZE - 1
    BY <1>2, SizeAssumption DEF Slot
  <2>2. (s + 1) % MAX_BUFFSIZE = s + 1
    BY <2>1, SizeAssumption
  <2> QED
    BY <1>2, <2>1, <2>2 DEF following, Slot
<1> QED
  BY <1>1, <1>2

\* Every call keeps the indices inside the array and the slots full of chars:
\* the memory safety of BUFF_push and BUFF_pop.
LEMMA TypeStep == TypeOK /\ [Next]_vars => TypeOK'
<1> SUFFICES ASSUME TypeOK, [Next]_vars PROVE TypeOK'
  OBVIOUS
<1> USE SizeAssumption, CharAssumption
<1>1. CASE BUFF_pop
  BY <1>1, FollowingSlot DEF BUFF_pop, TypeOK, BUFF_EMPTY
<1>2. CASE BUFF_status
  BY <1>2 DEF BUFF_status, status, TypeOK, BUFF_EMPTY, BUFF_FULL, BUFF_NORMAL
<1>3. ASSUME NEW c \in Char, BUFF_push(c) PROVE TypeOK'
  BY <1>3, FollowingSlot DEF BUFF_push, TypeOK, BUFF_FULL, BUFF_NORMAL
<1>4. CASE UNCHANGED vars
  BY <1>4 DEF vars, TypeOK
<1> QED
  BY <1>1, <1>2, <1>3, <1>4 DEF Next

THEOREM TypeCorrect == Spec => []TypeOK
<1>1. Init => TypeOK
  BY SizeAssumption, CharAssumption DEF Init, TypeOK, Slot, BUFF_NORMAL
<1> QED
  BY <1>1, TypeStep, PTL DEF Spec

-----------------------------------------------------------------------------
\* The difference of the indices is the number of characters, and it says which
\* of the two limits, empty or full, is reached.
LEMMA CountAndStatus ==
  ASSUME TypeOK
  PROVE  /\ Count \in 0 .. MAX_BUFFSIZE - 1
         /\ Count = 0 <=> head = tail
         /\ Count = MAX_BUFFSIZE - 1 <=> following(tail) = head
<1> USE SizeAssumption
<1>1. head \in Slot /\ tail \in Slot
  BY DEF TypeOK
<1>2. following(tail) = IF tail = MAX_BUFFSIZE - 1 THEN 0 ELSE tail + 1
  BY <1>1, FollowingSlot
<1> QED
  BY <1>1, <1>2 DEF Count, Slot

\* The waiting characters occupy distinct slots, none of them the slot at tail.
LEMMA OccupiedSlots ==
  ASSUME TypeOK, NEW i \in 1 .. Count
  PROVE  /\ slotOf(i) \in Slot
         /\ slotOf(i) # tail
<1> USE SizeAssumption
<1>1. head \in Slot /\ tail \in Slot
  BY DEF TypeOK
<1>2. Count \in Int
  BY <1>1 DEF Count, Slot
<1>3. i \in Int /\ 1 <= i /\ i <= Count
  BY <1>2
<1> QED
  BY <1>1, <1>3 DEF Count, slotOf, Slot

LEMMA ContentsType ==
  ASSUME TypeOK
  PROVE  /\ contents \in Seq(Char)
         /\ Len(contents) = Count
         /\ DOMAIN contents = 1 .. Count
<1>1. Count \in Nat
  BY CountAndStatus, SizeAssumption
<1>2. \A i \in 1 .. Count : data[slotOf(i)] \in Char
  BY OccupiedSlots DEF TypeOK
<1>3. contents \in [1 .. Count -> Char]
  BY <1>2 DEF contents
<1> QED
  BY <1>1, <1>3 DEF contents

\* Append and Tail as functions on an interval.
LEMMA AppendAsFunction ==
  ASSUME NEW S, NEW s \in Seq(S), NEW e \in S
  PROVE  /\ Append(s, e) \in [1 .. Len(s) + 1 -> S]
         /\ \A i \in 1 .. Len(s) : Append(s, e)[i] = s[i]
         /\ Append(s, e)[Len(s) + 1] = e
<1>1. Append(s, e) \in Seq(S) /\ Len(Append(s, e)) = Len(s) + 1
  BY AppendProperties
<1>2. Append(s, e) \in [1 .. Len(Append(s, e)) -> S]
  BY <1>1, LenProperties
<1> QED
  BY <1>1, <1>2, AppendProperties

LEMMA TailAsFunction ==
  ASSUME NEW S, NEW s \in Seq(S), s # <<>>
  PROVE  /\ Tail(s) \in [1 .. Len(s) - 1 -> S]
         /\ \A i \in 1 .. Len(s) - 1 : Tail(s)[i] = s[i + 1]
<1>1. Tail(s) \in Seq(S) /\ Len(Tail(s)) = Len(s) - 1
  BY HeadTailProperties
<1>2. Tail(s) \in [1 .. Len(Tail(s)) -> S]
  BY <1>1, LenProperties
<1> QED
  BY <1>1, <1>2, HeadTailProperties

\* An accepted character goes to the end of the queue.
LEMMA PushAppends ==
  ASSUME TypeOK, NEW c \in Char, BUFF_push(c), following(tail) # head
  PROVE  contents' = Append(contents, c)
<1> USE SizeAssumption
<1>1. head \in Slot /\ tail \in Slot /\ data \in [Slot -> Char]
  BY DEF TypeOK
<1>2. /\ data' = [data EXCEPT ![tail] = c]
      /\ tail' = following(tail)
      /\ head' = head
  BY DEF BUFF_push, BUFF_FULL, BUFF_NORMAL
<1>3. following(tail) = IF tail = MAX_BUFFSIZE - 1 THEN 0 ELSE tail + 1
  BY <1>1, FollowingSlot
<1>4. /\ Count \in Nat
      /\ Count' = Count + 1
  BY <1>1, <1>2, <1>3 DEF Count, Slot
<1>5. \A i : (slotOf(i))' = slotOf(i)
  BY <1>2 DEF slotOf
<1>6. slotOf(Count + 1) = tail
  BY <1>1, <1>2, <1>3 DEF Count, slotOf, Slot
<1>7. \A i \in 1 .. Count : data'[slotOf(i)] = data[slotOf(i)]
  BY <1>1, <1>2, OccupiedSlots
<1>8. data'[slotOf(Count + 1)] = c
  BY <1>1, <1>2, <1>6
<1>9. contents' = [i \in 1 .. Count + 1 |-> data'[slotOf(i)]]
  BY <1>4, <1>5 DEF contents
<1>10. /\ contents \in Seq(Char)
       /\ Len(contents) = Count
       /\ \A i \in 1 .. Count : contents[i] = data[slotOf(i)]
  BY ContentsType DEF contents
<1>11. /\ Append(contents, c) \in [1 .. Count + 1 -> Char]
       /\ \A i \in 1 .. Count : Append(contents, c)[i] = contents[i]
       /\ Append(contents, c)[Count + 1] = c
  BY <1>10, AppendAsFunction
<1>12. \A i \in 1 .. Count + 1 :
         data'[slotOf(i)] = Append(contents, c)[i]
  <2>1. TAKE i \in 1 .. Count + 1
  <2>2. CASE i = Count + 1
    BY <2>2, <1>8, <1>11
  <2>3. CASE i # Count + 1
    <3>1. i \in 1 .. Count
      BY <2>3, <1>4
    <3> QED
      BY <3>1, <1>7, <1>10, <1>11
  <2> QED
    BY <2>2, <2>3
<1> QED
  BY <1>9, <1>11, <1>12

\* The character a pop returns is the oldest one, and the others keep their order.
LEMMA PopTakesTheOldest ==
  ASSUME TypeOK, BUFF_pop, head # tail
  PROVE  /\ contents # <<>>
         /\ ret' = Head(contents)
         /\ contents' = Tail(contents)
<1> USE SizeAssumption
<1>1. head \in Slot /\ tail \in Slot /\ data \in [Slot -> Char]
  BY DEF TypeOK
<1>2. ret' = data[head] /\ head' = following(head) /\ tail' = tail /\ data' = data
  BY DEF BUFF_pop
<1>3. following(head) = IF head = MAX_BUFFSIZE - 1 THEN 0 ELSE head + 1
  BY <1>1, FollowingSlot
<1>4. /\ Count \in Nat \ {0}
      /\ Count' = Count - 1
  BY <1>1, <1>2, <1>3 DEF Count, Slot
<1>5. /\ contents \in Seq(Char)
      /\ Len(contents) = Count
      /\ \A i \in 1 .. Count : contents[i] = data[slotOf(i)]
  BY ContentsType DEF contents
<1>6. slotOf(1) = head
  BY <1>1 DEF slotOf, Slot
<1>7. ASSUME NEW i \in 1 .. Count - 1
      PROVE  (slotOf(i))' = slotOf(i + 1)
  <2>1. i \in Int /\ 1 <= i /\ i <= Count - 1
    BY <1>4
  <2>2. (slotOf(i))' = IF head' + i <= MAX_BUFFSIZE THEN head' + i - 1
                       ELSE head' + i - 1 - MAX_BUFFSIZE
    BY DEF slotOf
  <2> QED
    BY <2>1, <2>2, <1>1, <1>2, <1>3, <1>4 DEF slotOf, Slot, Count
<1>8. contents' = [i \in 1 .. Count - 1 |-> data[slotOf(i + 1)]]
  BY <1>2, <1>4, <1>7 DEF contents
<1>9. contents # <<>> /\ Head(contents) = contents[1]
  BY <1>4, <1>5
<1>10. /\ Tail(contents) \in [1 .. Count - 1 -> Char]
       /\ \A i \in 1 .. Count - 1 : Tail(contents)[i] = contents[i + 1]
  BY <1>5, <1>9, TailAsFunction
<1>11. \A i \in 1 .. Count - 1 : contents[i + 1] = data[slotOf(i + 1)]
  BY <1>4, <1>5
<1>12. contents' = Tail(contents)
  BY <1>8, <1>10, <1>11
<1>13. contents[1] = data[head]
  BY <1>4, <1>5, <1>6
<1> QED
  BY <1>2, <1>9, <1>12, <1>13

-----------------------------------------------------------------------------
\* Every step of the circular buffer is a step of the queue.
LEMMA StepImplements ==
  ASSUME TypeOK, [Next]_vars
  PROVE  [Fifo!Next]_(Fifo!vars)
<1> USE SizeAssumption
<1>0. Len(contents) = Count /\ contents \in Seq(Char)
  BY ContentsType
<1>1. contents = <<>> <=> head = tail
  BY <1>0, CountAndStatus
<1>2. Len(contents) = MAX_BUFFSIZE - 1 <=> following(tail) = head
  BY <1>0, CountAndStatus
<1>3. Len(contents) <= MAX_BUFFSIZE - 1
  BY <1>0, CountAndStatus
<1>4. head' = head /\ tail' = tail /\ data' = data => contents' = contents
  BY DEF contents, Count, slotOf
<1>5. CASE BUFF_pop
  <2>1. CASE head = tail
    BY <2>1, <1>1, <1>4, <1>5 DEF BUFF_pop, Fifo!Next, Fifo!Get, Fifo!BUFF_EMPTY, BUFF_EMPTY
  <2>2. CASE head # tail
    BY <2>2, <1>5, PopTakesTheOldest DEF Fifo!Next, Fifo!Get
  <2> QED
    BY <2>1, <2>2
<1>6. CASE BUFF_status
  BY <1>6, <1>1, <1>2, <1>4 DEF BUFF_status, status, BUFF_EMPTY, BUFF_FULL, BUFF_NORMAL,
     Fifo!Next, Fifo!Ask, Fifo!BUFF_EMPTY, Fifo!BUFF_FULL, Fifo!BUFF_NORMAL
<1>7. ASSUME NEW c \in Char, BUFF_push(c) PROVE Fifo!Put(c)
  <2>1. CASE following(tail) = head
    BY <2>1, <1>2, <1>4, <1>7 DEF BUFF_push, BUFF_FULL, Fifo!Put, Fifo!BUFF_FULL
  <2>2. CASE following(tail) # head
    <3>1. contents' = Append(contents, c)
      BY <2>2, <1>7, PushAppends
    <3>2. Len(contents) < MAX_BUFFSIZE - 1
      BY <2>2, <1>0, <1>2, <1>3, CountAndStatus
    <3> QED
      BY <2>2, <3>1, <3>2, <1>7 DEF BUFF_push, BUFF_NORMAL, Fifo!Put, Fifo!BUFF_NORMAL
  <2> QED
    BY <2>1, <2>2
<1>8. CASE UNCHANGED vars
  BY <1>8, <1>4 DEF vars, Fifo!vars
<1> QED
  BY <1>5, <1>6, <1>7, <1>8 DEF Next, Fifo!Next

LEMMA InitImplements == Init => Fifo!Init
<1>1. Init => Count = 0 /\ ret = BUFF_NORMAL
  BY DEF Init, Count
<1>2. Count = 0 => contents = <<>>
  BY DEF contents
<1> QED
  BY <1>1, <1>2 DEF Fifo!Init, BUFF_NORMAL, Fifo!BUFF_NORMAL

\* The circular buffer of the firmware is a first-in first-out queue of
\* MAX_BUFFSIZE - 1 characters: nothing accepted is lost, repeated or reordered.
THEOREM BufferIsFifo == Spec => ImplementsFifo
<1>1. TypeOK /\ [Next]_vars => [Fifo!Next]_(Fifo!vars)
  BY StepImplements
<1> QED
  BY <1>1, InitImplements, TypeCorrect, PTL DEF Spec, ImplementsFifo, Fifo!Spec
=============================================================================
